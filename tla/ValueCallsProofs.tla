------------------------------ MODULE ValueCallsProofs ------------------------------
(***************************************************************************)
(* Proofs about the behaviours of ValueCalls.  First its structures, which *)
(* grow by one change, database or attribute at a time: a vector of        *)
(* pointers, however it is changed; a catalog, whatever names it is given; *)
(* a schema of any attributes.  Then what operations say of types; then    *)
(* columns, and cursors over tuples.  Then the invariant: whatever is      *)
(* asked, what is returned is right.                                       *)
(***************************************************************************)
EXTENDS DataProofs

-----------------------------------------------------------------------------
(***************************************************************************)
(* The loops: each is a recursive function over the positions of a         *)
(* sequence, and takes the steps it is defined by.                         *)
(***************************************************************************)
\* What holds at 0 and is handed on by each step holds up to n.
LEMMA UpTo ==
  ASSUME NEW n \in Nat, NEW Good, 0 \in Good, \A i \in 1..n : i - 1 \in Good => i \in Good
  PROVE  \A i \in 0..n : i \in Good
  <1> DEFINE Bad == {i \in 0..n : i \notin Good}
  <1>1. ASSUME NEW b \in Bad PROVE FALSE
    <2>1. PICK m \in Bad : \A k \in Bad : m <= k
      <3>1. Bad \in SUBSET Nat
        OBVIOUS
      <3> HIDE DEF Bad
      <3> QED
        BY <1>1, <3>1, Minimum
    <2>2. m \in 1..n /\ m - 1 \in 0..n /\ m - 1 \notin Bad
      BY <2>1
    <2> QED
      BY <2>1, <2>2
  <1> QED
    BY <1>1

\* Changes to a vector of pointers, one after the other.
LEMMA VectorsSteps ==
  ASSUME NEW changes, Len(changes) \in Nat
  PROVE  /\ VectorsOf(changes)[0] = NewPtrVector
         /\ \A i \in 1..Len(changes) :
              VectorsOf(changes)[i] = ChangedVector(VectorsOf(changes)[i - 1], changes[i], Object(i))
  <1>n. PICK n \in Nat : n = Len(changes)
    OBVIOUS
  <1> DEFINE Base == NewPtrVector
             Step(x, i) == ChangedVector(x, changes[i], Object(i))
             Next(f) == [i \in 0..n |-> IF i = 0 THEN Base ELSE Step(f[i - 1], i)]
             at == CHOOSE f : f = Next(f)
             Runs(f, k) == f[0] = Base /\ \A i \in 1..k : f[i] = Step(f[i - 1], i)
             Good == {k \in 0..n : \E f : Runs(f, k)}
  <1>1. VectorsOf(changes) = at
    BY <1>n DEF VectorsOf
  <1> HIDE DEF Step, Base
  <1>2. 0 \in Good
    <2>1. Runs([i \in {0} |-> Base], 0)
      OBVIOUS
    <2> HIDE DEF Runs
    <2> QED
      BY <2>1
  <1>3. ASSUME NEW k \in 1..n, k - 1 \in Good PROVE k \in Good
    <2>1. PICK f : Runs(f, k - 1)
      BY <1>3
    <2> DEFINE g == [i \in 0..k |-> IF i < k THEN f[i] ELSE Step(f[k - 1], k)]
    <2>2. Runs(g, k)
      BY <2>1
    <2> HIDE DEF g, Runs
    <2> QED
      BY <2>2
  <1>4. n \in Good
    <2> HIDE DEF Good
    <2>1. \A k \in 1..n : k - 1 \in Good => k \in Good
      BY <1>3
    <2>2. \A k \in 0..n : k \in Good
      BY <1>2, <2>1, UpTo, Zenon
    <2> QED
      BY <2>2
  <1>5. PICK f : Runs(f, n)
    BY <1>4
  <1> DEFINE g == [i \in 0..n |-> f[i]]
  <1>6. g = Next(g)
    BY <1>5
  <1>7. at = Next(at)
    <2> HIDE DEF Next, g
    <2> QED
      BY <1>6
  <1> HIDE DEF at
  <1>8. at[0] = Base /\ (\A i \in 1..n : at[i] = Step(at[i - 1], i))
    BY <1>7
  <1> QED
    BY <1>n, <1>1, <1>8 DEF Base, Step

\* The destructor's loop over the elements.
LEMMA DestroySteps ==
  ASSUME NEW v, Len(v.elements) \in Nat
  PROVE  \E f : /\ f[0] = v /\ \A i \in 1..Len(v.elements) : f[i] = Delete(f[i - 1], i - 1)
               /\ DestroyPtrVector(v) = [f[Len(v.elements)] EXCEPT !.elements = <<>>]
  <1>n. PICK n \in Nat : n = Len(v.elements)
    OBVIOUS
  <1> DEFINE Base == v
             Step(x, i) == Delete(x, i - 1)
             Next(f) == [i \in 0..n |-> IF i = 0 THEN Base ELSE Step(f[i - 1], i)]
             at == CHOOSE f : f = Next(f)
             Runs(f, k) == f[0] = Base /\ \A i \in 1..k : f[i] = Step(f[i - 1], i)
             Good == {k \in 0..n : \E f : Runs(f, k)}
  <1>1. DestroyPtrVector(v) = [at[n] EXCEPT !.elements = <<>>]
    BY <1>n DEF DestroyPtrVector
  <1> HIDE DEF Step, Base
  <1>2. 0 \in Good
    <2>1. Runs([i \in {0} |-> Base], 0)
      OBVIOUS
    <2> HIDE DEF Runs
    <2> QED
      BY <2>1
  <1>3. ASSUME NEW k \in 1..n, k - 1 \in Good PROVE k \in Good
    <2>1. PICK f : Runs(f, k - 1)
      BY <1>3
    <2> DEFINE g == [i \in 0..k |-> IF i < k THEN f[i] ELSE Step(f[k - 1], k)]
    <2>2. Runs(g, k)
      BY <2>1
    <2> HIDE DEF g, Runs
    <2> QED
      BY <2>2
  <1>4. n \in Good
    <2> HIDE DEF Good
    <2>1. \A k \in 1..n : k - 1 \in Good => k \in Good
      BY <1>3
    <2>2. \A k \in 0..n : k \in Good
      BY <1>2, <2>1, UpTo, Zenon
    <2> QED
      BY <2>2
  <1>5. PICK f : Runs(f, n)
    BY <1>4
  <1> DEFINE g == [i \in 0..n |-> f[i]]
  <1>6. g = Next(g)
    BY <1>5
  <1>7. at = Next(at)
    <2> HIDE DEF Next, g
    <2> QED
      BY <1>6
  <1> HIDE DEF at
  <1>8. at[0] = Base /\ (\A i \in 1..n : at[i] = Step(at[i - 1], i))
    BY <1>7
  <1> QED
    BY <1>n, <1>1, <1>8 DEF Base, Step

\* The increments of a skipping iterator.
LEMMA StopsSteps ==
  ASSUME NEW v, Len(v.elements) \in Nat
  PROVE  /\ DOMAIN StopsOf(v) = 0..Len(v.elements) /\ StopsOf(v)[0] = BeginSkip(v)
         /\ \A i \in 1..Len(v.elements) :
              StopsOf(v)[i] = (IF StopsOf(v)[i - 1] = Len(v.elements) THEN Len(v.elements) ELSE NextSkip(v, StopsOf(v)[i - 1]))
  <1>n. PICK n \in Nat : n = Len(v.elements)
    OBVIOUS
  <1> DEFINE Base == BeginSkip(v)
             Step(x, i) == (IF x = Len(v.elements) THEN Len(v.elements) ELSE NextSkip(v, x))
             Next(f) == [i \in 0..n |-> IF i = 0 THEN Base ELSE Step(f[i - 1], i)]
             at == CHOOSE f : f = Next(f)
             Runs(f, k) == f[0] = Base /\ \A i \in 1..k : f[i] = Step(f[i - 1], i)
             Good == {k \in 0..n : \E f : Runs(f, k)}
  <1>1. StopsOf(v) = at
    BY <1>n DEF StopsOf
  <1> HIDE DEF Step, Base
  <1>2. 0 \in Good
    <2>1. Runs([i \in {0} |-> Base], 0)
      OBVIOUS
    <2> HIDE DEF Runs
    <2> QED
      BY <2>1
  <1>3. ASSUME NEW k \in 1..n, k - 1 \in Good PROVE k \in Good
    <2>1. PICK f : Runs(f, k - 1)
      BY <1>3
    <2> DEFINE g == [i \in 0..k |-> IF i < k THEN f[i] ELSE Step(f[k - 1], k)]
    <2>2. Runs(g, k)
      BY <2>1
    <2> HIDE DEF g, Runs
    <2> QED
      BY <2>2
  <1>4. n \in Good
    <2> HIDE DEF Good
    <2>1. \A k \in 1..n : k - 1 \in Good => k \in Good
      BY <1>3
    <2>2. \A k \in 0..n : k \in Good
      BY <1>2, <2>1, UpTo, Zenon
    <2> QED
      BY <2>2
  <1>5. PICK f : Runs(f, n)
    BY <1>4
  <1> DEFINE g == [i \in 0..n |-> f[i]]
  <1>6. g = Next(g)
    BY <1>5
  <1>7. at = Next(at)
    <2> HIDE DEF Next, g
    <2> QED
      BY <1>6
  <1> HIDE DEF at
  <1>8. at[0] = Base /\ (\A i \in 1..n : at[i] = Step(at[i - 1], i)) /\ DOMAIN at = 0..n
    BY <1>7
  <1> QED
    BY <1>n, <1>1, <1>8 DEF Base, Step

\* Databases added to a catalog, by hand and from a message.
LEMMA CatalogsSteps ==
  ASSUME NEW names, Len(names) \in Nat
  PROVE  /\ CatalogsOf(names)[0] = NewCatalog
         /\ \A i \in 1..Len(names) :
              CatalogsOf(names)[i] = AddDatabase(CatalogsOf(names)[i - 1], names[i])
  <1>n. PICK n \in Nat : n = Len(names)
    OBVIOUS
  <1> DEFINE Base == NewCatalog
             Step(x, i) == AddDatabase(x, names[i])
             Next(f) == [i \in 0..n |-> IF i = 0 THEN Base ELSE Step(f[i - 1], i)]
             at == CHOOSE f : f = Next(f)
             Runs(f, k) == f[0] = Base /\ \A i \in 1..k : f[i] = Step(f[i - 1], i)
             Good == {k \in 0..n : \E f : Runs(f, k)}
  <1>1. CatalogsOf(names) = at
    BY <1>n DEF CatalogsOf
  <1> HIDE DEF Step, Base
  <1>2. 0 \in Good
    <2>1. Runs([i \in {0} |-> Base], 0)
      OBVIOUS
    <2> HIDE DEF Runs
    <2> QED
      BY <2>1
  <1>3. ASSUME NEW k \in 1..n, k - 1 \in Good PROVE k \in Good
    <2>1. PICK f : Runs(f, k - 1)
      BY <1>3
    <2> DEFINE g == [i \in 0..k |-> IF i < k THEN f[i] ELSE Step(f[k - 1], k)]
    <2>2. Runs(g, k)
      BY <2>1
    <2> HIDE DEF g, Runs
    <2> QED
      BY <2>2
  <1>4. n \in Good
    <2> HIDE DEF Good
    <2>1. \A k \in 1..n : k - 1 \in Good => k \in Good
      BY <1>3
    <2>2. \A k \in 0..n : k \in Good
      BY <1>2, <2>1, UpTo, Zenon
    <2> QED
      BY <2>2
  <1>5. PICK f : Runs(f, n)
    BY <1>4
  <1> DEFINE g == [i \in 0..n |-> f[i]]
  <1>6. g = Next(g)
    BY <1>5
  <1>7. at = Next(at)
    <2> HIDE DEF Next, g
    <2> QED
      BY <1>6
  <1> HIDE DEF at
  <1>8. at[0] = Base /\ (\A i \in 1..n : at[i] = Step(at[i - 1], i))
    BY <1>7
  <1> QED
    BY <1>n, <1>1, <1>8 DEF Base, Step

LEMMA ReconstructCatalogSteps ==
  ASSUME NEW proto, Len(proto) \in Nat
  PROVE  \E f : /\ f[0] = NewCatalog /\ \A i \in 1..Len(proto) : f[i] = AddDatabase(f[i - 1], proto[i])
               /\ ReconstructCatalog(proto) = f[Len(proto)]
  <1>n. PICK n \in Nat : n = Len(proto)
    OBVIOUS
  <1> DEFINE Base == NewCatalog
             Step(x, i) == AddDatabase(x, proto[i])
             Next(f) == [i \in 0..n |-> IF i = 0 THEN Base ELSE Step(f[i - 1], i)]
             at == CHOOSE f : f = Next(f)
             Runs(f, k) == f[0] = Base /\ \A i \in 1..k : f[i] = Step(f[i - 1], i)
             Good == {k \in 0..n : \E f : Runs(f, k)}
  <1>1. ReconstructCatalog(proto) = at[n]
    BY <1>n DEF ReconstructCatalog
  <1> HIDE DEF Step, Base
  <1>2. 0 \in Good
    <2>1. Runs([i \in {0} |-> Base], 0)
      OBVIOUS
    <2> HIDE DEF Runs
    <2> QED
      BY <2>1
  <1>3. ASSUME NEW k \in 1..n, k - 1 \in Good PROVE k \in Good
    <2>1. PICK f : Runs(f, k - 1)
      BY <1>3
    <2> DEFINE g == [i \in 0..k |-> IF i < k THEN f[i] ELSE Step(f[k - 1], k)]
    <2>2. Runs(g, k)
      BY <2>1
    <2> HIDE DEF g, Runs
    <2> QED
      BY <2>2
  <1>4. n \in Good
    <2> HIDE DEF Good
    <2>1. \A k \in 1..n : k - 1 \in Good => k \in Good
      BY <1>3
    <2>2. \A k \in 0..n : k \in Good
      BY <1>2, <2>1, UpTo, Zenon
    <2> QED
      BY <2>2
  <1>5. PICK f : Runs(f, n)
    BY <1>4
  <1> DEFINE g == [i \in 0..n |-> f[i]]
  <1>6. g = Next(g)
    BY <1>5
  <1>7. at = Next(at)
    <2> HIDE DEF Next, g
    <2> QED
      BY <1>6
  <1> HIDE DEF at
  <1>8. at[0] = Base /\ (\A i \in 1..n : at[i] = Step(at[i - 1], i))
    BY <1>7
  <1> QED
    BY <1>n, <1>1, <1>8 DEF Base, Step

\* Attributes added to a schema, by hand and from a message.
LEMMA SchemasSteps ==
  ASSUME NEW types, Len(types) \in Nat, NEW temporary, NEW displayed
  PROVE  /\ SchemasOf(types, temporary, displayed)[0] = NewSchema(7, "relation", temporary, 0)
         /\ \A i \in 1..Len(types) :
              SchemasOf(types, temporary, displayed)[i] = (IF ~CanAddAttribute(SchemasOf(types, temporary, displayed)[i - 1]) THEN SchemasOf(types, temporary, displayed)[i - 1] ELSE AddAttribute(SchemasOf(types, temporary, displayed)[i - 1], AttributeOf(i, types[i], displayed)))
  <1>n. PICK n \in Nat : n = Len(types)
    OBVIOUS
  <1> DEFINE Base == NewSchema(7, "relation", temporary, 0)
             Step(x, i) == (IF ~CanAddAttribute(x) THEN x ELSE AddAttribute(x, AttributeOf(i, types[i], displayed)))
             Next(f) == [i \in 0..n |-> IF i = 0 THEN Base ELSE Step(f[i - 1], i)]
             at == CHOOSE f : f = Next(f)
             Runs(f, k) == f[0] = Base /\ \A i \in 1..k : f[i] = Step(f[i - 1], i)
             Good == {k \in 0..n : \E f : Runs(f, k)}
  <1>1. SchemasOf(types, temporary, displayed) = at
    BY <1>n DEF SchemasOf
  <1> HIDE DEF Step, Base
  <1>2. 0 \in Good
    <2>1. Runs([i \in {0} |-> Base], 0)
      OBVIOUS
    <2> HIDE DEF Runs
    <2> QED
      BY <2>1
  <1>3. ASSUME NEW k \in 1..n, k - 1 \in Good PROVE k \in Good
    <2>1. PICK f : Runs(f, k - 1)
      BY <1>3
    <2> DEFINE g == [i \in 0..k |-> IF i < k THEN f[i] ELSE Step(f[k - 1], k)]
    <2>2. Runs(g, k)
      BY <2>1
    <2> HIDE DEF g, Runs
    <2> QED
      BY <2>2
  <1>4. n \in Good
    <2> HIDE DEF Good
    <2>1. \A k \in 1..n : k - 1 \in Good => k \in Good
      BY <1>3
    <2>2. \A k \in 0..n : k \in Good
      BY <1>2, <2>1, UpTo, Zenon
    <2> QED
      BY <2>2
  <1>5. PICK f : Runs(f, n)
    BY <1>4
  <1> DEFINE g == [i \in 0..n |-> f[i]]
  <1>6. g = Next(g)
    BY <1>5
  <1>7. at = Next(at)
    <2> HIDE DEF Next, g
    <2> QED
      BY <1>6
  <1> HIDE DEF at
  <1>8. at[0] = Base /\ (\A i \in 1..n : at[i] = Step(at[i - 1], i))
    BY <1>7
  <1> QED
    BY <1>n, <1>1, <1>8 DEF Base, Step

ReadsSchema(f, proto) ==
  /\ f[0] = NewSchema(proto.relation_id, proto.name, proto.temporary, Len(proto.attributes))
  /\ \A i \in 1..Len(proto.attributes) :
       f[i] = (IF Initialized(proto.attributes[i])
               THEN AddAttribute(f[i - 1], ReconstructAttribute(proto.attributes[i]))
               ELSE [f[i - 1] EXCEPT !.vector = PushBack(@, None)])
  /\ ReconstructSchema(proto) = f[Len(proto.attributes)]
LEMMA ReconstructSchemaSteps ==
  ASSUME NEW proto, Len(proto.attributes) \in Nat
  PROVE  \E f : ReadsSchema(f, proto)
  <1>n. PICK n \in Nat : n = Len(proto.attributes)
    OBVIOUS
  <1> DEFINE Base == NewSchema(proto.relation_id, proto.name, proto.temporary, Len(proto.attributes))
             Step(x, i) == (IF Initialized(proto.attributes[i]) THEN AddAttribute(x, ReconstructAttribute(proto.attributes[i])) ELSE [x EXCEPT !.vector = PushBack(@, None)])
             Next(f) == [i \in 0..n |-> IF i = 0 THEN Base ELSE Step(f[i - 1], i)]
             at == CHOOSE f : f = Next(f)
             Runs(f, k) == f[0] = Base /\ \A i \in 1..k : f[i] = Step(f[i - 1], i)
             Good == {k \in 0..n : \E f : Runs(f, k)}
  <1>1. ReconstructSchema(proto) = at[n]
    BY <1>n DEF ReconstructSchema
  <1> HIDE DEF Step, Base
  <1>2. 0 \in Good
    <2>1. Runs([i \in {0} |-> Base], 0)
      OBVIOUS
    <2> HIDE DEF Runs
    <2> QED
      BY <2>1
  <1>3. ASSUME NEW k \in 1..n, k - 1 \in Good PROVE k \in Good
    <2>1. PICK f : Runs(f, k - 1)
      BY <1>3
    <2> DEFINE g == [i \in 0..k |-> IF i < k THEN f[i] ELSE Step(f[k - 1], k)]
    <2>2. Runs(g, k)
      BY <2>1
    <2> HIDE DEF g, Runs
    <2> QED
      BY <2>2
  <1>4. n \in Good
    <2> HIDE DEF Good
    <2>1. \A k \in 1..n : k - 1 \in Good => k \in Good
      BY <1>3
    <2>2. \A k \in 0..n : k \in Good
      BY <1>2, <2>1, UpTo, Zenon
    <2> QED
      BY <2>2
  <1>5. PICK f : Runs(f, n)
    BY <1>4
  <1> DEFINE g == [i \in 0..n |-> f[i]]
  <1>6. g = Next(g)
    BY <1>5
  <1>7. at = Next(at)
    <2> HIDE DEF Next, g
    <2> QED
      BY <1>6
  <1> HIDE DEF at
  <1>8. at[0] = Base /\ (\A i \in 1..n : at[i] = Step(at[i - 1], i))
    BY <1>7
  <1>9. ReadsSchema(at, proto)
    BY <1>n, <1>1, <1>8 DEF Base, Step, ReadsSchema
  <1> QED
    BY <1>9

\* A column is filled one value after the other.
LEMMA ColumnsSteps ==
  ASSUME NEW type, NEW values, NEW way, NEW order, Len(values) \in Nat
  PROVE  /\ ColumnsOf(type, values, way, order)[0] = 
              IF way \in Positional THEN PrepareForPositionalWrites(NewColumn(type, Len(values)))
              ELSE NewColumn(type, Len(values))
         /\ \A i \in 1..Len(values) : ColumnsOf(type, values, way, order)[i] = 
              PutInColumn(ColumnsOf(type, values, way, order)[i - 1], way, order[i] - 1, values[order[i]])
  <1>n. PICK n \in Nat : n = Len(values)
    OBVIOUS
  <1> DEFINE Base == IF way \in Positional THEN PrepareForPositionalWrites(NewColumn(type, Len(values))) ELSE NewColumn(type, Len(values))
             Step(x, i) == PutInColumn(x, way, order[i] - 1, values[order[i]])
             Next(f) == [i \in 0..n |-> IF i = 0 THEN Base ELSE Step(f[i - 1], i)]
             at == CHOOSE f : f = Next(f)
             Runs(f, k) == f[0] = Base /\ \A i \in 1..k : f[i] = Step(f[i - 1], i)
             Good == {k \in 0..n : \E f : Runs(f, k)}
  <1>1. ColumnsOf(type, values, way, order) = at
    BY <1>n DEF ColumnsOf
  <1> HIDE DEF Step, Base
  <1>2. 0 \in Good
    <2>1. Runs([i \in {0} |-> Base], 0)
      OBVIOUS
    <2> HIDE DEF Runs
    <2> QED
      BY <2>1
  <1>3. ASSUME NEW k \in 1..n, k - 1 \in Good PROVE k \in Good
    <2>1. PICK f : Runs(f, k - 1)
      BY <1>3
    <2> DEFINE g == [i \in 0..k |-> IF i < k THEN f[i] ELSE Step(f[k - 1], k)]
    <2>2. Runs(g, k)
      BY <2>1
    <2> HIDE DEF g, Runs
    <2> QED
      BY <2>2
  <1>4. n \in Good
    <2> HIDE DEF Good
    <2>1. \A k \in 1..n : k - 1 \in Good => k \in Good
      BY <1>3
    <2>2. \A k \in 0..n : k \in Good
      BY <1>2, <2>1, UpTo, Zenon
    <2> QED
      BY <2>2
  <1>5. PICK f : Runs(f, n)
    BY <1>4
  <1> DEFINE g == [i \in 0..n |-> f[i]]
  <1>6. g = Next(g)
    BY <1>5
  <1>7. at = Next(at)
    <2> HIDE DEF Next, g
    <2> QED
      BY <1>6
  <1> HIDE DEF at
  <1>8. at[0] = Base /\ (\A i \in 1..n : at[i] = Step(at[i - 1], i))
    BY <1>7
  <1> QED
    BY <1>n, <1>1, <1>8 DEF Base, Step

\* Tuples are added one after the other.
LEMMA RowsSteps ==
  ASSUME NEW n \in Nat
  PROVE  /\ RowsOf(n)[0] = NewTupleVectorAccessor
         /\ \A i \in 1..n : RowsOf(n)[i] = AddTuple(RowsOf(n)[i - 1], [attr \in 0..1 |-> AttributeValue(attr, i - 1, n)])
  <1> DEFINE Base == NewTupleVectorAccessor
             Step(x, i) == AddTuple(x, [attr \in 0..1 |-> AttributeValue(attr, i - 1, n)])
             Next(f) == [i \in 0..n |-> IF i = 0 THEN Base ELSE Step(f[i - 1], i)]
             at == CHOOSE f : f = Next(f)
             Runs(f, k) == f[0] = Base /\ \A i \in 1..k : f[i] = Step(f[i - 1], i)
             Good == {k \in 0..n : \E f : Runs(f, k)}
  <1>1. RowsOf(n) = at
    BY DEF RowsOf
  <1> HIDE DEF Step, Base
  <1>2. 0 \in Good
    <2>1. Runs([i \in {0} |-> Base], 0)
      OBVIOUS
    <2> HIDE DEF Runs
    <2> QED
      BY <2>1
  <1>3. ASSUME NEW k \in 1..n, k - 1 \in Good PROVE k \in Good
    <2>1. PICK f : Runs(f, k - 1)
      BY <1>3
    <2> DEFINE g == [i \in 0..k |-> IF i < k THEN f[i] ELSE Step(f[k - 1], k)]
    <2>2. Runs(g, k)
      BY <2>1
    <2> HIDE DEF g, Runs
    <2> QED
      BY <2>2
  <1>4. n \in Good
    <2> HIDE DEF Good
    <2>1. \A k \in 1..n : k - 1 \in Good => k \in Good
      BY <1>3
    <2>2. \A k \in 0..n : k \in Good
      BY <1>2, <2>1, UpTo, Zenon
    <2> QED
      BY <2>2
  <1>5. PICK f : Runs(f, n)
    BY <1>4
  <1> DEFINE g == [i \in 0..n |-> f[i]]
  <1>6. g = Next(g)
    BY <1>5
  <1>7. at = Next(at)
    <2> HIDE DEF Next, g
    <2> QED
      BY <1>6
  <1> HIDE DEF at
  <1>8. at[0] = Base /\ (\A i \in 1..n : at[i] = Step(at[i - 1], i))
    BY <1>7
  <1> QED
    BY <1>1, <1>8 DEF Base, Step

\* Where each move leaves a cursor.
LEMMA StandingsSteps ==
  ASSUME NEW moves, Len(moves) \in Nat
  PROVE  /\ StandingsOf(moves)[0] = 0
         /\ \A i \in 1..Len(moves) : StandingsOf(moves)[i] = 
              CASE moves[i] = "next" -> StandingsOf(moves)[i - 1] + 1 [] moves[i] = "previous" -> StandingsOf(moves)[i - 1] - 1 [] OTHER -> 0
  <1>n. PICK n \in Nat : n = Len(moves)
    OBVIOUS
  <1> DEFINE Base == 0
             Step(x, i) == CASE moves[i] = "next" -> x + 1 [] moves[i] = "previous" -> x - 1 [] OTHER -> 0
             Next(f) == [i \in 0..n |-> IF i = 0 THEN Base ELSE Step(f[i - 1], i)]
             at == CHOOSE f : f = Next(f)
             Runs(f, k) == f[0] = Base /\ \A i \in 1..k : f[i] = Step(f[i - 1], i)
             Good == {k \in 0..n : \E f : Runs(f, k)}
  <1>1. StandingsOf(moves) = at
    BY <1>n DEF StandingsOf
  <1> HIDE DEF Step, Base
  <1>2. 0 \in Good
    <2>1. Runs([i \in {0} |-> Base], 0)
      OBVIOUS
    <2> HIDE DEF Runs
    <2> QED
      BY <2>1
  <1>3. ASSUME NEW k \in 1..n, k - 1 \in Good PROVE k \in Good
    <2>1. PICK f : Runs(f, k - 1)
      BY <1>3
    <2> DEFINE g == [i \in 0..k |-> IF i < k THEN f[i] ELSE Step(f[k - 1], k)]
    <2>2. Runs(g, k)
      BY <2>1
    <2> HIDE DEF g, Runs
    <2> QED
      BY <2>2
  <1>4. n \in Good
    <2> HIDE DEF Good
    <2>1. \A k \in 1..n : k - 1 \in Good => k \in Good
      BY <1>3
    <2>2. \A k \in 0..n : k \in Good
      BY <1>2, <2>1, UpTo, Zenon
    <2> QED
      BY <2>2
  <1>5. PICK f : Runs(f, n)
    BY <1>4
  <1> DEFINE g == [i \in 0..n |-> f[i]]
  <1>6. g = Next(g)
    BY <1>5
  <1>7. at = Next(at)
    <2> HIDE DEF Next, g
    <2> QED
      BY <1>6
  <1> HIDE DEF at
  <1>8. at[0] = Base /\ (\A i \in 1..n : at[i] = Step(at[i - 1], i))
    BY <1>7
  <1> QED
    BY <1>n, <1>1, <1>8 DEF Base, Step

\* The cursor after each move.
LEMMA CursorsSteps ==
  ASSUME NEW start, NEW moves, Len(moves) \in Nat
  PROVE  /\ CursorsOf(start, moves)[0] = BeginIteration(start)
         /\ \A i \in 1..Len(moves) : CursorsOf(start, moves)[i] = 
              CASE moves[i] = "next" -> NextTuple(CursorsOf(start, moves)[i - 1]) [] moves[i] = "previous" -> PreviousTuple(CursorsOf(start, moves)[i - 1])
                [] OTHER -> BeginIteration(CursorsOf(start, moves)[i - 1])
  <1>n. PICK n \in Nat : n = Len(moves)
    OBVIOUS
  <1> DEFINE Base == BeginIteration(start)
             Step(x, i) == CASE moves[i] = "next" -> NextTuple(x) [] moves[i] = "previous" -> PreviousTuple(x)
                             [] OTHER -> BeginIteration(x)
             Next(f) == [i \in 0..n |-> IF i = 0 THEN Base ELSE Step(f[i - 1], i)]
             at == CHOOSE f : f = Next(f)
             Runs(f, k) == f[0] = Base /\ \A i \in 1..k : f[i] = Step(f[i - 1], i)
             Good == {k \in 0..n : \E f : Runs(f, k)}
  <1>1. CursorsOf(start, moves) = at
    BY <1>n DEF CursorsOf
  <1> HIDE DEF Step, Base
  <1>2. 0 \in Good
    <2>1. Runs([i \in {0} |-> Base], 0)
      OBVIOUS
    <2> HIDE DEF Runs
    <2> QED
      BY <2>1
  <1>3. ASSUME NEW k \in 1..n, k - 1 \in Good PROVE k \in Good
    <2>1. PICK f : Runs(f, k - 1)
      BY <1>3
    <2> DEFINE g == [i \in 0..k |-> IF i < k THEN f[i] ELSE Step(f[k - 1], k)]
    <2>2. Runs(g, k)
      BY <2>1
    <2> HIDE DEF g, Runs
    <2> QED
      BY <2>2
  <1>4. n \in Good
    <2> HIDE DEF Good
    <2>1. \A k \in 1..n : k - 1 \in Good => k \in Good
      BY <1>3
    <2>2. \A k \in 0..n : k \in Good
      BY <1>2, <2>1, UpTo, Zenon
    <2> QED
      BY <2>2
  <1>5. PICK f : Runs(f, n)
    BY <1>4
  <1> DEFINE g == [i \in 0..n |-> f[i]]
  <1>6. g = Next(g)
    BY <1>5
  <1>7. at = Next(at)
    <2> HIDE DEF Next, g
    <2> QED
      BY <1>6
  <1> HIDE DEF at
  <1>8. at[0] = Base /\ (\A i \in 1..n : at[i] = Step(at[i - 1], i))
    BY <1>7
  <1> QED
    BY <1>n, <1>1, <1>8 DEF Base, Step

\* A sequence of members of S, and what DOMAIN and Len say of it.
LEMMA SeqsFacts ==
  ASSUME NEW S, NEW n \in Nat, NEW s \in SeqsUpTo(S, n)
  PROVE  \E k \in Nat : k <= n /\ s \in [1..k -> S] /\ Len(s) = k /\ DOMAIN s = 1..k
  <1>1. PICK k \in 0..n : s \in [1..k -> S]
    BY DEF SeqsUpTo
  <1>2. k \in Nat /\ k <= n
    BY <1>1
  <1>3. s \in Seq(S) /\ DOMAIN s = 1..k
    BY <1>1, <1>2
  <1>4. Len(s) = k
    BY <1>2, <1>3
  <1> QED
    BY <1>1, <1>2, <1>3, <1>4

-----------------------------------------------------------------------------
(***************************************************************************)
(* Vectors of pointers own what they were given, have deleted it or have   *)
(* released it.                                                            *)
(***************************************************************************)
\* The objects, the vectors of them, and what a vector owns and has deleted.
Pool == {Object(i) : i \in Nat}
PtrVectors == [elements : Seq(Pool \cup {None}), deleted : Seq(Pool)]
Owned(v)   == {v.elements[p] : p \in DOMAIN v.elements} \ {None}
Deleted(v) == {v.deleted[i] : i \in DOMAIN v.deleted}
DeletedOnce(v) == \A p, q \in DOMAIN v.deleted : v.deleted[p] = v.deleted[q] => p = q
HoldsOnce(v)   == \A p, q \in DOMAIN v.elements :
                    v.elements[p] = v.elements[q] /\ v.elements[p] # None => p = q
OwnsEachOnce(v) == v \in PtrVectors /\ HoldsOnce(v) /\ DeletedOnce(v) /\ Owned(v) \cap Deleted(v) = {}

LEMMA ObjectFacts ==
  /\ None \notin Pool /\ \A i \in Nat : Object(i) \in Pool /\ Object(i) # None
  /\ \A i, j \in Nat : Object(i) = Object(j) => i = j
  <1>1. ASSUME NEW i \in Nat PROVE Object(i) # None
    <2>1. DOMAIN Object(i) = {"object"} /\ DOMAIN None = {"null"}
      BY DEF Object, None
    <2>2. "object" \in DOMAIN Object(i) /\ "object" \notin DOMAIN None
      BY <2>1
    <2> QED
      BY <2>2
  <1>2. ASSUME NEW i \in Nat, NEW j \in Nat, Object(i) = Object(j) PROVE i = j
    <2>1. Object(i).object = i /\ Object(j).object = j
      BY DEF Object
    <2> QED
      BY <1>2, <2>1
  <1> QED
    BY <1>1, <1>2 DEF Pool

\* A sequence one of whose members is replaced, and one that is made longer or shorter.
LEMMA SequenceParts ==
  ASSUME NEW S, NEW s \in Seq(S)
  PROVE  /\ Len(s) \in Nat /\ DOMAIN s = 1..Len(s) /\ \A i \in 1..Len(s) : s[i] \in S
         /\ \A i \in 1..Len(s), x \in S :
              /\ [s EXCEPT ![i] = x] \in Seq(S) /\ Len([s EXCEPT ![i] = x]) = Len(s)
              /\ DOMAIN [s EXCEPT ![i] = x] = 1..Len(s)
              /\ \A j \in 1..Len(s) : [s EXCEPT ![i] = x][j] = IF j = i THEN x ELSE s[j]
         /\ \A x \in S : /\ Append(s, x) \in Seq(S) /\ Len(Append(s, x)) = Len(s) + 1
                         /\ DOMAIN Append(s, x) = 1..(Len(s) + 1)
                         /\ \A j \in 1..(Len(s) + 1) : Append(s, x)[j] = IF j = Len(s) + 1 THEN x ELSE s[j]
  <1>1. PICK n \in Nat : s \in [1..n -> S] /\ Len(s) = n
    OBVIOUS
  <1>2. ASSUME NEW i \in 1..n, NEW x \in S
        PROVE  /\ [s EXCEPT ![i] = x] \in Seq(S) /\ Len([s EXCEPT ![i] = x]) = n
               /\ DOMAIN [s EXCEPT ![i] = x] = 1..n
               /\ \A j \in 1..n : [s EXCEPT ![i] = x][j] = IF j = i THEN x ELSE s[j]
    <2>1. PICK t : t = [s EXCEPT ![i] = x]
      OBVIOUS
    <2>2. t \in [1..n -> S]
      BY <1>1, <2>1
    <2>3. t \in Seq(S) /\ Len(t) = n /\ DOMAIN t = 1..n
      BY <2>2
    <2>4. \A j \in 1..n : t[j] = IF j = i THEN x ELSE s[j]
      BY <1>1, <2>1
    <2> QED
      BY <2>1, <2>3, <2>4
  <1>3. ASSUME NEW x \in S
        PROVE  /\ Append(s, x) \in Seq(S) /\ Len(Append(s, x)) = Len(s) + 1
               /\ DOMAIN Append(s, x) = 1..(Len(s) + 1)
               /\ \A j \in 1..(Len(s) + 1) : Append(s, x)[j] = IF j = Len(s) + 1 THEN x ELSE s[j]
    <2>1. PICK t : t = Append(s, x)
      OBVIOUS
    <2>2. t \in Seq(S) /\ Len(t) = Len(s) + 1
      BY <2>1
    <2>3. \A j \in 1..(n + 1) : t[j] = IF j = n + 1 THEN x ELSE s[j]
      BY <1>1, <2>1
    <2> QED
      BY <1>1, <2>1, <2>2, <2>3
  <1> QED
    BY <1>1, <1>2, <1>3

LEMMA AppendFacts ==
  ASSUME NEW S, NEW s \in Seq(S), NEW x \in S
  PROVE  /\ Append(s, x) \in Seq(S) /\ Len(Append(s, x)) = Len(s) + 1
         /\ DOMAIN Append(s, x) = 1..(Len(s) + 1)
         /\ \A j \in 1..(Len(s) + 1) : Append(s, x)[j] = IF j = Len(s) + 1 THEN x ELSE s[j]
  BY SequenceParts

\* An object the vector has not seen, or NULL, put behind the others.
LEMMA PushFacts ==
  ASSUME NEW v, OwnsEachOnce(v), NEW y \in Pool \cup {None}, y \notin Owned(v) \cup Deleted(v)
  PROVE  /\ OwnsEachOnce(PushBack(v, y)) /\ Len(PushBack(v, y).elements) = Len(v.elements) + 1
         /\ Owned(PushBack(v, y)) = Owned(v) \cup ({y} \ {None}) /\ Deleted(PushBack(v, y)) = Deleted(v)
  <1>1. PICK w : w = PushBack(v, y)
    OBVIOUS
  <1>2. PICK e, d : /\ e \in Seq(Pool \cup {None}) /\ d \in Seq(Pool)
                    /\ v.elements = e /\ v.deleted = d /\ w.elements = Append(e, y) /\ w.deleted = d
                    /\ w \in PtrVectors
    <2>1. v.elements \in Seq(Pool \cup {None}) /\ v.deleted \in Seq(Pool)
      BY DEF OwnsEachOnce, PtrVectors
    <2>2. Append(v.elements, y) \in Seq(Pool \cup {None})
      BY <2>1, SequenceParts
    <2>3. w.elements = Append(v.elements, y) /\ w.deleted = v.deleted /\ w \in PtrVectors
      BY <1>1, <2>1, <2>2 DEF PushBack, OwnsEachOnce, PtrVectors
    <2> QED
      BY <2>1, <2>3
  <1>3. PICK n \in Nat : /\ n = Len(e) /\ DOMAIN e = 1..n /\ DOMAIN w.elements = 1..(n + 1) /\ Len(w.elements) = n + 1
                         /\ \A j \in 1..(n + 1) : w.elements[j] = IF j = n + 1 THEN y ELSE e[j]
    BY <1>2, SequenceParts
  <1>4. Owned(w) = Owned(v) \cup ({y} \ {None})
    BY <1>2, <1>3 DEF Owned
  <1>5. Deleted(w) = Deleted(v) /\ DeletedOnce(w)
    BY <1>2 DEF Deleted, DeletedOnce, OwnsEachOnce
  <1>6. HoldsOnce(w)
    <2>1. \A p, q \in 1..n : e[p] = e[q] /\ e[p] # None => p = q
      BY <1>2, <1>3 DEF OwnsEachOnce, HoldsOnce
    <2>2. \A p \in 1..n : e[p] # y \/ y = None
      BY <1>2, <1>3 DEF Owned
    <2> QED
      BY <1>3, <2>1, <2>2 DEF HoldsOnce
  <1>7. Owned(w) \cap Deleted(w) = {}
    BY <1>4, <1>5 DEF OwnsEachOnce
  <1> QED
    BY <1>1, <1>2, <1>3, <1>4, <1>5, <1>6, <1>7 DEF OwnsEachOnce

\* The same put in another's place, which the vector no longer owns; it is deleted or not.
LEMMA PutFacts ==
  ASSUME NEW v, OwnsEachOnce(v), NEW y \in Pool \cup {None}, y \notin Owned(v) \cup Deleted(v),
         NEW i \in 1..Len(v.elements)
  PROVE  LET w == ReleaseAndReplaceElement(v, i - 1, y)
         IN  /\ OwnsEachOnce(w) /\ Len(w.elements) = Len(v.elements)
             /\ Owned(w) = (Owned(v) \ {v.elements[i]}) \cup ({y} \ {None}) /\ Deleted(w) = Deleted(v)
  <1>1. PICK w : w = ReleaseAndReplaceElement(v, i - 1, y)
    OBVIOUS
  <1>2. PICK e, d : /\ e \in Seq(Pool \cup {None}) /\ d \in Seq(Pool)
                    /\ v.elements = e /\ v.deleted = d /\ w.elements = [e EXCEPT ![i] = y] /\ w.deleted = d
                    /\ w \in PtrVectors
    <2>1. v.elements \in Seq(Pool \cup {None}) /\ v.deleted \in Seq(Pool)
      BY DEF OwnsEachOnce, PtrVectors
    <2>2. [v.elements EXCEPT ![i] = y] \in Seq(Pool \cup {None})
      BY <2>1, SequenceParts
    <2>3. i - 1 + 1 = i
      <3>1. Len(v.elements) \in Nat
        BY <2>1, SequenceParts
      <3> QED
        BY <3>1
    <2>4. w = [v EXCEPT !.elements = [v.elements EXCEPT ![i] = y]]
      BY <1>1, <2>3 DEF ReleaseAndReplaceElement, OwnsEachOnce, PtrVectors
    <2>5. w.elements = [v.elements EXCEPT ![i] = y] /\ w.deleted = v.deleted /\ w \in PtrVectors
      BY <2>1, <2>2, <2>4 DEF OwnsEachOnce, PtrVectors
    <2> QED
      BY <2>1, <2>5
  <1>3. PICK n \in Nat : /\ n = Len(e) /\ DOMAIN e = 1..n /\ DOMAIN w.elements = 1..n /\ Len(w.elements) = n
                         /\ i \in 1..n
                         /\ \A j \in 1..n : w.elements[j] = IF j = i THEN y ELSE e[j]
    BY <1>2, SequenceParts
  <1>4. \A p, q \in 1..n : e[p] = e[q] /\ e[p] # None => p = q
    BY <1>2, <1>3 DEF OwnsEachOnce, HoldsOnce
  <1>5. Owned(w) = (Owned(v) \ {e[i]}) \cup ({y} \ {None})
    <2>1. Owned(v) = {e[p] : p \in 1..n} \ {None}
      BY <1>2, <1>3 DEF Owned
    <2>2. Owned(w) = {IF j = i THEN y ELSE e[j] : j \in 1..n} \ {None}
      BY <1>3 DEF Owned
    <2> QED
      BY <1>3, <1>4, <2>1, <2>2
  <1>6. Deleted(w) = Deleted(v) /\ DeletedOnce(w)
    BY <1>2 DEF Deleted, DeletedOnce, OwnsEachOnce
  <1>7. HoldsOnce(w)
    <2>1. \A p \in 1..n : e[p] # y \/ y = None
      BY <1>2, <1>3 DEF Owned
    <2> QED
      BY <1>3, <1>4, <2>1 DEF HoldsOnce
  <1>8. Owned(w) \cap Deleted(w) = {}
    BY <1>5, <1>6 DEF OwnsEachOnce
  <1> QED
    BY <1>1, <1>2, <1>3, <1>5, <1>6, <1>7, <1>8 DEF OwnsEachOnce

\* An object is deleted that the vector has not deleted before.
LEMMA DeleteFacts ==
  ASSUME NEW v \in PtrVectors, DeletedOnce(v), NEW i \in 1..Len(v.elements), v.elements[i] \notin Deleted(v)
  PROVE  LET w == Delete(v, i - 1)
         IN  /\ w \in PtrVectors /\ w.elements = v.elements /\ DeletedOnce(w)
             /\ Deleted(w) = Deleted(v) \cup ({v.elements[i]} \ {None})
  <1>1. PICK e, d : /\ e \in Seq(Pool \cup {None}) /\ d \in Seq(Pool) /\ v.elements = e /\ v.deleted = d
    BY DEF PtrVectors
  <1>2. PICK n \in Nat, m \in Nat : /\ n = Len(e) /\ DOMAIN e = 1..n /\ i \in 1..n
                                    /\ m = Len(d) /\ DOMAIN d = 1..m
    BY <1>1, SequenceParts
  <1>3. i - 1 + 1 = i
    BY <1>2
  <1>4. CASE e[i] = None
    <2>1. Delete(v, i - 1) = v
      BY <1>1, <1>3, <1>4 DEF Delete, ElementIsNull
    <2> QED
      BY <1>1, <1>4, <2>1
  <1>5. CASE e[i] # None
    <2>1. e[i] \in Pool
      BY <1>1, <1>2, <1>5, SequenceParts
    <2>2. PICK w : w = Delete(v, i - 1)
      OBVIOUS
    <2>3. w = [v EXCEPT !.deleted = Append(d, e[i])]
      BY <1>1, <1>3, <1>5, <2>2 DEF Delete, ElementIsNull, PtrVectors
    <2>4. Append(d, e[i]) \in Seq(Pool) /\ DOMAIN Append(d, e[i]) = 1..(m + 1)
      BY <1>1, <1>2, <2>1, SequenceParts
    <2>5. w \in PtrVectors /\ w.elements = e /\ w.deleted = Append(d, e[i])
      BY <1>1, <2>3, <2>4 DEF PtrVectors
    <2>6. \A j \in 1..(m + 1) : w.deleted[j] = IF j = m + 1 THEN e[i] ELSE d[j]
      BY <1>1, <1>2, <2>1, <2>5, SequenceParts
    <2>7. Deleted(w) = Deleted(v) \cup {e[i]}
      BY <1>1, <1>2, <2>4, <2>5, <2>6 DEF Deleted
    <2>8. DeletedOnce(w)
      <3>1. \A j \in 1..m : d[j] # e[i]
        BY <1>1, <1>2 DEF Deleted
      <3>2. \A p, q \in 1..m : d[p] = d[q] => p = q
        BY <1>1, <1>2 DEF DeletedOnce
      <3> QED
        BY <2>4, <2>5, <2>6, <3>1, <3>2 DEF DeletedOnce
    <2> QED
      BY <1>1, <1>5, <2>2, <2>5, <2>7, <2>8
  <1> QED
    BY <1>4, <1>5

LEMMA ReplaceFacts ==
  ASSUME NEW v, OwnsEachOnce(v), NEW y \in Pool \cup {None}, y \notin Owned(v) \cup Deleted(v),
         NEW i \in 1..Len(v.elements)
  PROVE  LET w == ReplaceElement(v, i - 1, y)
         IN  /\ OwnsEachOnce(w) /\ Len(w.elements) = Len(v.elements)
             /\ Owned(w) = (Owned(v) \ {v.elements[i]}) \cup ({y} \ {None})
             /\ Deleted(w) = Deleted(v) \cup ({v.elements[i]} \ {None})
  <1>1. PICK u : u = ReleaseAndReplaceElement(v, i - 1, y)
    OBVIOUS
  <1>2. /\ OwnsEachOnce(u) /\ Len(u.elements) = Len(v.elements)
        /\ Owned(u) = (Owned(v) \ {v.elements[i]}) \cup ({y} \ {None}) /\ Deleted(u) = Deleted(v)
    BY <1>1, PutFacts
  <1>3. PICK t : t = Delete(v, i - 1)
    OBVIOUS
  <1>4. v.elements[i] \in Owned(v) \cup {None} /\ v.elements[i] \notin Deleted(v)
    <2>1. v.elements \in Seq(Pool \cup {None}) /\ v.deleted \in Seq(Pool)
      BY DEF OwnsEachOnce, PtrVectors
    <2>2. i \in DOMAIN v.elements
      BY <2>1, SequenceParts
    <2>3. v.elements[i] \in Owned(v) \cup {None}
      BY <2>2 DEF Owned
    <2>4. \A x \in Deleted(v) : x \in Pool
      BY <2>1, SequenceParts DEF Deleted
    <2> QED
      BY <2>3, <2>4, ObjectFacts DEF OwnsEachOnce
  <1>5. /\ t \in PtrVectors /\ t.elements = v.elements /\ DeletedOnce(t)
        /\ Deleted(t) = Deleted(v) \cup ({v.elements[i]} \ {None})
    BY <1>3, <1>4, DeleteFacts DEF OwnsEachOnce
  <1>6. PICK w : w = ReplaceElement(v, i - 1, y)
    OBVIOUS
  <1>7. w = [t EXCEPT !.elements = u.elements]
    <2>1. i - 1 + 1 = i
      OBVIOUS
    <2> QED
      BY <1>1, <1>3, <1>5, <1>6 DEF ReplaceElement, ReleaseAndReplaceElement, OwnsEachOnce, PtrVectors
  <1>8. w \in PtrVectors /\ w.elements = u.elements /\ w.deleted = t.deleted
    BY <1>2, <1>5, <1>7 DEF OwnsEachOnce, PtrVectors
  <1>9. HoldsOnce(w) /\ DeletedOnce(w) /\ Owned(w) = Owned(u) /\ Deleted(w) = Deleted(t)
    BY <1>2, <1>5, <1>8 DEF OwnsEachOnce, HoldsOnce, DeletedOnce, Owned, Deleted
  <1>10. Owned(w) \cap Deleted(w) = {}
    BY <1>2, <1>4, <1>5, <1>9 DEF OwnsEachOnce
  <1> QED
    BY <1>2, <1>5, <1>6, <1>8, <1>9, <1>10 DEF OwnsEachOnce

LEMMA NoObjectFacts == ASSUME NEW v, OwnsEachOnce(v) PROVE None \notin Owned(v) \cup Deleted(v)
  <1>1. v.deleted \in Seq(Pool)
    BY DEF OwnsEachOnce, PtrVectors
  <1> QED
    BY <1>1, SequenceParts, ObjectFacts DEF Owned, Deleted

LEMMA DeleteElementFacts ==
  ASSUME NEW v, OwnsEachOnce(v), NEW i \in 1..Len(v.elements)
  PROVE  LET w == DeleteElement(v, i - 1)
         IN  /\ OwnsEachOnce(w) /\ Len(w.elements) = Len(v.elements)
             /\ Owned(w) = Owned(v) \ {v.elements[i]}
             /\ Deleted(w) = Deleted(v) \cup ({v.elements[i]} \ {None})
  <1>1. i - 1 + 1 = i
    OBVIOUS
  <1>2. CASE v.elements[i] = None
    BY <1>1, <1>2, NoObjectFacts DEF DeleteElement, ElementIsNull
  <1>3. CASE v.elements[i] # None
    <2>1. DeleteElement(v, i - 1) = ReplaceElement(v, i - 1, None)
      BY <1>1, <1>3 DEF DeleteElement, ReplaceElement, ElementIsNull
    <2>2. PICK w : w = ReplaceElement(v, i - 1, None)
      OBVIOUS
    <2>3. /\ OwnsEachOnce(w) /\ Len(w.elements) = Len(v.elements)
          /\ Owned(w) = (Owned(v) \ {v.elements[i]}) \cup ({None} \ {None})
          /\ Deleted(w) = Deleted(v) \cup ({v.elements[i]} \ {None})
      BY <2>2, NoObjectFacts, ReplaceFacts
    <2> QED
      BY <2>1, <2>2, <2>3
  <1> QED
    BY <1>2, <1>3

LEMMA PrefixFacts ==
  ASSUME NEW S, NEW s \in Seq(S), NEW m \in 0..Len(s)
  PROVE  /\ SubSeq(s, 1, m) \in Seq(S) /\ Len(SubSeq(s, 1, m)) = m /\ DOMAIN SubSeq(s, 1, m) = 1..m
         /\ \A j \in 1..m : SubSeq(s, 1, m)[j] = s[j]
  <1>1. PICK n \in Nat : s \in [1..n -> S] /\ Len(s) = n /\ m \in 0..n
    OBVIOUS
  <1>2. PICK t : t = SubSeq(s, 1, m)
    OBVIOUS
  <1>3. t = [j \in 1..m |-> s[1 + j - 1]]
    BY <1>1, <1>2
  <1>4. \A j \in 1..m : t[j] = s[j]
    <2>1. \A j \in 1..m : 1 + j - 1 = j
      BY <1>1
    <2> QED
      BY <1>3, <2>1
  <1>5. t \in [1..m -> S]
    BY <1>1, <1>3, <1>4
  <1>6. m \in Nat
    BY <1>1
  <1>7. t \in Seq(S) /\ Len(t) = m /\ DOMAIN t = 1..m
    BY <1>5, <1>6
  <1> QED
    BY <1>2, <1>4, <1>7

LEMMA RemoveBackFacts ==
  ASSUME NEW v, OwnsEachOnce(v), Len(v.elements) > 0
  PROVE  LET w == RemoveBack(v)
             x == v.elements[Len(v.elements)]
         IN  /\ OwnsEachOnce(w) /\ Len(w.elements) = Len(v.elements) - 1
             /\ Owned(w) = Owned(v) \ {x} /\ Deleted(w) = Deleted(v) \cup ({x} \ {None})
  <1>1. PICK e : e \in Seq(Pool \cup {None}) /\ v.elements = e
    BY DEF OwnsEachOnce, PtrVectors
  <1>2. PICK n \in Nat \ {0} : n = Len(e) /\ DOMAIN e = 1..n
    BY <1>1, SequenceParts
  <1>3. PICK x : x = e[n]
    OBVIOUS
  <1>4. PICK t : t = Delete(v, n - 1)
    OBVIOUS
  <1>5. x \in Owned(v) \cup {None} /\ x \notin Deleted(v)
    <2>1. x \in Owned(v) \cup {None}
      BY <1>1, <1>2, <1>3 DEF Owned
    <2> QED
      BY <2>1, NoObjectFacts DEF OwnsEachOnce
  <1>6. t \in PtrVectors /\ t.elements = e /\ DeletedOnce(t) /\ Deleted(t) = Deleted(v) \cup ({x} \ {None})
    BY <1>1, <1>2, <1>3, <1>4, <1>5, DeleteFacts DEF OwnsEachOnce
  <1>7. PICK f : f \in Seq(Pool \cup {None}) /\ f = Front(e) /\ Len(f) = n - 1 /\ \A j \in 1..(n - 1) : f[j] = e[j]
    <2>1. n - 1 \in 0..Len(e) /\ Front(e) = SubSeq(e, 1, n - 1)
      BY <1>2 DEF Front
    <2> QED
      BY <1>1, <2>1, PrefixFacts
  <1>8. PICK w : w = RemoveBack(v)
    OBVIOUS
  <1>9. w = [t EXCEPT !.elements = f]
    BY <1>1, <1>2, <1>4, <1>6, <1>7, <1>8 DEF RemoveBack, PtrVectors
  <1>10. w \in PtrVectors /\ w.elements = f /\ w.deleted = t.deleted
    BY <1>6, <1>7, <1>9 DEF PtrVectors
  <1>11. \A p, q \in 1..n : e[p] = e[q] /\ e[p] # None => p = q
    BY <1>1, <1>2 DEF OwnsEachOnce, HoldsOnce
  <1>12. DOMAIN f = 1..(n - 1)
    BY <1>2, <1>7, SequenceParts
  <1>13. Owned(w) = Owned(v) \ {x}
    <2>1. Owned(w) = {e[j] : j \in 1..(n - 1)} \ {None}
      BY <1>7, <1>10, <1>12 DEF Owned
    <2>2. Owned(v) = {e[j] : j \in 1..n} \ {None}
      BY <1>1, <1>2 DEF Owned
    <2> QED
      BY <1>3, <1>11, <2>1, <2>2
  <1>14. HoldsOnce(w)
    BY <1>7, <1>10, <1>11, <1>12 DEF HoldsOnce
  <1>15. Deleted(w) = Deleted(v) \cup ({x} \ {None}) /\ DeletedOnce(w)
    BY <1>6, <1>10 DEF Deleted, DeletedOnce
  <1>16. Owned(w) \cap Deleted(w) = {}
    BY <1>13, <1>15 DEF OwnsEachOnce
  <1> QED
    BY <1>1, <1>2, <1>3, <1>7, <1>8, <1>10, <1>13, <1>14, <1>15, <1>16 DEF OwnsEachOnce

\* The objects the first changes brought, and those of them that they released.
Brought(changes, k) ==
  {Object(i) : i \in {j \in 1..k : changes[j].do \in {"push", "replace", "release"}}}
Gone(changes, k) ==
  {VectorsOf(changes)[i - 1].elements[changes[i].at + 1] : i \in {j \in 1..k : changes[j].do = "release"}} \ {None}
\* Every object brought is owned, deleted or released, and one of the three only.
Followed(v, brought, gone) ==
  /\ OwnsEachOnce(v) /\ Owned(v) \cup Deleted(v) \cup gone = brought
  /\ gone \cap (Owned(v) \cup Deleted(v)) = {}

LEMMA ChangeKinds ==
  ASSUME NEW c \in Change
  PROVE  /\ c.do \in Placed \cup {"push", "push null", "removeBack"}
         /\ c.do \in Placed => c.at \in Nat
  <1>1. CASE c \in [do : Placed, at : ChangedPositions]
    <2>1. c.do \in Placed /\ c.at \in ChangedPositions
      BY <1>1
    <2>2. c.at \in Nat
      BY <2>1, StructuresAssumption
    <2> QED
      BY <2>1, <2>2
  <1>2. CASE c \in [do : {"push", "push null", "removeBack"}]
    BY <1>2 DEF Placed
  <1> QED
    BY <1>1, <1>2 DEF Change

\* Each change leaves the objects owned, deleted or released, whatever it does.
LEMMA ChangeFollowed ==
  ASSUME NEW v, NEW c \in Change, NEW x \in Pool, NEW brought \in SUBSET Pool, NEW gone,
         Followed(v, brought, gone), x \notin brought,
         c.do \in Placed => c.at < Len(v.elements), c.do = "removeBack" => Len(v.elements) > 0
  PROVE  Followed(ChangedVector(v, c, x),
                  brought \cup (IF c.do \in {"push", "replace", "release"} THEN {x} ELSE {}),
                  gone \cup (IF c.do = "release" THEN {v.elements[c.at + 1]} \ {None} ELSE {}))
  <1>1. PICK w : w = ChangedVector(v, c, x)
    OBVIOUS
  <1>2. PICK n \in Nat : n = Len(v.elements) /\ DOMAIN v.elements = 1..n
    BY SequenceParts DEF Followed, OwnsEachOnce, PtrVectors
  <1>3. PICK O, D : /\ O = Owned(v) /\ D = Deleted(v) /\ O \cup D \cup gone = brought
                    /\ gone \cap (O \cup D) = {} /\ O \cap D = {} /\ x \notin O \cup D \cup gone
                    /\ None \notin O \cup D \cup gone /\ x # None /\ OwnsEachOnce(v) /\ x \in Pool
    BY ObjectFacts DEF Followed, OwnsEachOnce
  <1>4. CASE c.do = "push"
    <2>1. w = PushBack(v, x)
      BY <1>1, <1>4 DEF ChangedVector
    <2>2. OwnsEachOnce(w) /\ Owned(w) = O \cup {x} /\ Deleted(w) = D
      BY <1>3, <2>1, PushFacts
    <2> QED
      BY <1>1, <1>3, <1>4, <2>2 DEF Followed
  <1>5. CASE c.do = "push null"
    <2>1. w = PushBack(v, None)
      BY <1>1, <1>5 DEF ChangedVector
    <2>2. OwnsEachOnce(w) /\ Owned(w) = O /\ Deleted(w) = D
      BY <1>3, <2>1, PushFacts
    <2> QED
      BY <1>1, <1>3, <1>5, <2>2 DEF Followed
  <1>6. CASE c.do = "removeBack"
    <2>1. w = RemoveBack(v) /\ n > 0
      BY <1>1, <1>2, <1>6 DEF ChangedVector
    <2>2. PICK e : e = v.elements[n] /\ e \in O \cup {None}
      BY <1>2, <1>3, <2>1 DEF Owned
    <2>3. OwnsEachOnce(w) /\ Owned(w) = O \ {e} /\ Deleted(w) = D \cup ({e} \ {None})
      BY <1>2, <1>3, <2>1, <2>2, RemoveBackFacts
    <2> QED
      BY <1>1, <1>3, <1>6, <2>2, <2>3 DEF Followed
  <1>7. CASE c.do \in Placed
    <2>1. PICK i \in 1..n : i = c.at + 1 /\ c.at = i - 1 /\ i \in 1..Len(v.elements)
      <3>1. c.at \in Nat /\ c.at < n
        BY <1>2, <1>7, ChangeKinds
      <3> QED
        BY <1>2, <3>1
    <2>2. PICK e : e = v.elements[i] /\ e = v.elements[c.at + 1] /\ e \in O \cup {None}
      BY <1>2, <1>3, <2>1 DEF Owned
    <2>3. CASE c.do = "replace"
      <3>1. w = ReplaceElement(v, i - 1, x)
        BY <1>1, <2>1, <2>3 DEF ChangedVector
      <3>2. OwnsEachOnce(w) /\ Owned(w) = (O \ {e}) \cup ({x} \ {None}) /\ Deleted(w) = D \cup ({e} \ {None})
        BY <1>3, <2>1, <2>2, <3>1, ReplaceFacts
      <3>3. Owned(w) \cup Deleted(w) = O \cup D \cup {x} /\ gone \cap (O \cup D \cup {x}) = {}
        BY <1>3, <2>2, <3>2
      <3>4. Followed(w, brought \cup {x}, gone)
        BY <1>3, <3>2, <3>3 DEF Followed
      <3>5. (IF c.do \in {"push", "replace", "release"} THEN {x} ELSE {}) = {x} /\ c.do # "release"
        BY <2>3
      <3>6. gone \cup {} = gone
        OBVIOUS
      <3> QED
        BY <1>1, <3>4, <3>5, <3>6
    <2>4. CASE c.do = "replace by null"
      <3>1. w = ReplaceElement(v, i - 1, None)
        BY <1>1, <2>1, <2>4 DEF ChangedVector
      <3>2. OwnsEachOnce(w) /\ Owned(w) = (O \ {e}) \cup ({None} \ {None}) /\ Deleted(w) = D \cup ({e} \ {None})
        BY <1>3, <2>1, <2>2, <3>1, ReplaceFacts
      <3>3. Owned(w) \cup Deleted(w) = O \cup D
        BY <1>3, <2>2, <3>2
      <3>4. Followed(w, brought, gone)
        BY <1>3, <3>2, <3>3 DEF Followed
      <3>5. c.do \notin {"push", "replace", "release"} /\ brought \cup {} = brought /\ gone \cup {} = gone
        BY <2>4
      <3> QED
        BY <1>1, <3>4, <3>5
    <2>5. CASE c.do = "release"
      <3>1. w = ReleaseAndReplaceElement(v, i - 1, x)
        BY <1>1, <2>1, <2>5 DEF ChangedVector
      <3>2. OwnsEachOnce(w) /\ Owned(w) = (O \ {e}) \cup ({x} \ {None}) /\ Deleted(w) = D
        BY <1>3, <2>1, <2>2, <3>1, PutFacts
      <3> QED
        BY <1>1, <1>3, <2>2, <2>5, <3>2 DEF Followed
    <2>6. CASE c.do = "delete"
      <3>1. w = DeleteElement(v, i - 1)
        BY <1>1, <2>1, <2>6 DEF ChangedVector
      <3>2. OwnsEachOnce(w) /\ Owned(w) = O \ {e} /\ Deleted(w) = D \cup ({e} \ {None})
        BY <1>3, <2>1, <2>2, <3>1, DeleteElementFacts
      <3> QED
        BY <1>1, <1>3, <2>2, <2>6, <3>2 DEF Followed
    <2> QED
      BY <1>7, <2>3, <2>4, <2>5, <2>6 DEF Placed
  <1> QED
    BY <1>4, <1>5, <1>6, <1>7, ChangeKinds

LEMMA NewVectorFacts == OwnsEachOnce(NewPtrVector) /\ Owned(NewPtrVector) = {} /\ Deleted(NewPtrVector) = {}
  <1>1. PICK e : e = <<>> /\ e \in Seq(Pool \cup {None}) /\ e \in Seq(Pool)
    <2>1. <<>> \in Seq(Pool \cup {None}) /\ <<>> \in Seq(Pool)
      OBVIOUS
    <2> QED
      BY <2>1, Zenon
  <1>2. NewPtrVector = [elements |-> e, deleted |-> e] /\ DOMAIN e = {}
    BY <1>1 DEF NewPtrVector
  <1> QED
    BY <1>1, <1>2 DEF OwnsEachOnce, PtrVectors, Owned, Deleted, HoldsOnce, DeletedOnce

\* So do all the changes made since the vector was empty.
LEMMA HistoryFollowed ==
  ASSUME NEW m \in Nat, NEW changes \in [1..m -> Change], NEW nulls, Allowed(changes, nulls)
  PROVE  Followed(VectorsOf(changes)[m], Brought(changes, m), Gone(changes, m))
  <1> DEFINE at == VectorsOf(changes)
             Good == {k \in 0..m : Followed(at[k], Brought(changes, k), Gone(changes, k))}
  <1>1. Len(changes) = m /\ DOMAIN changes = 1..m
    OBVIOUS
  <1>2. at[0] = NewPtrVector /\ \A k \in 1..m : at[k] = ChangedVector(at[k - 1], changes[k], Object(k))
    BY <1>1, VectorsSteps
  <1> HIDE DEF at
  <1>3. 0 \in Good
    <2>1. Brought(changes, 0) = {} /\ Gone(changes, 0) = {}
      BY DEF Brought, Gone
    <2> QED
      BY <1>2, <2>1, NewVectorFacts DEF Followed
  <1>4. ASSUME NEW k \in 1..m, k - 1 \in Good PROVE k \in Good
    <2>1. PICK v, c, x : v = at[k - 1] /\ c = changes[k] /\ x = Object(k)
      OBVIOUS
    <2>2. c \in Change /\ at[k] = ChangedVector(v, c, x) /\ k \in Nat
      BY <1>2, <2>1
    <2>3. PICK brought, gone : brought = Brought(changes, k - 1) /\ gone = Gone(changes, k - 1) /\ Followed(v, brought, gone)
      BY <1>4, <2>1
    <2>4. brought \in SUBSET Pool /\ x \in Pool /\ x \notin brought
      BY <2>1, <2>3, ObjectFacts DEF Brought
    <2>5. (c.do \in Placed => c.at < Len(v.elements)) /\ (c.do = "removeBack" => Len(v.elements) > 0)
      BY <1>1, <2>1 DEF Allowed, at
    <2>6. Brought(changes, k) = brought \cup (IF c.do \in {"push", "replace", "release"} THEN {x} ELSE {})
      <3>1. 1..k = 1..(k - 1) \cup {k} /\ k \notin 1..(k - 1)
        OBVIOUS
      <3> QED
        BY <2>1, <2>3, <3>1 DEF Brought
    <2>7. Gone(changes, k) = gone \cup (IF c.do = "release" THEN {v.elements[c.at + 1]} \ {None} ELSE {})
      <3>1. 1..k = 1..(k - 1) \cup {k} /\ k \notin 1..(k - 1)
        OBVIOUS
      <3> DEFINE El(i) == at[i - 1].elements[changes[i].at + 1]
                 Rel(j) == {i \in 1..j : changes[i].do = "release"}
      <3>2. Rel(k) = Rel(k - 1) \cup (IF c.do = "release" THEN {k} ELSE {})
        BY <2>1, <3>1
      <3>3. El(k) = v.elements[c.at + 1]
        BY <2>1
      <3>4. Gone(changes, k) = {El(i) : i \in Rel(k)} \ {None} /\ gone = {El(i) : i \in Rel(k - 1)} \ {None}
        BY <2>3 DEF Gone, at
      <3> HIDE DEF El, Rel
      <3> QED
        BY <3>2, <3>3, <3>4
    <2>8. Followed(at[k], Brought(changes, k), Gone(changes, k))
      <3>1. Followed(ChangedVector(v, c, x),
                     brought \cup (IF c.do \in {"push", "replace", "release"} THEN {x} ELSE {}),
                     gone \cup (IF c.do = "release" THEN {v.elements[c.at + 1]} \ {None} ELSE {}))
        <4>1. Followed(v, brought, gone)
          BY <2>3
        <4> QED
          BY <2>2, <2>4, <2>5, <4>1, ChangeFollowed
      <3> QED
        BY <2>2, <2>6, <2>7, <3>1, Zenon
    <2> QED
      BY <2>8
  <1>5. m \in Good
    <2> HIDE DEF Good
    <2>1. \A k \in 1..m : k - 1 \in Good => k \in Good
      BY <1>4
    <2>2. \A k \in 0..m : k \in Good
      BY <1>3, <2>1, UpTo, Zenon
    <2> QED
      BY <2>2
  <1> QED
    BY <1>5 DEF at

\* The destructor deletes what is still owned.
LEMMA DestroyFacts ==
  ASSUME NEW v, OwnsEachOnce(v)
  PROVE  /\ DeletedOnce(DestroyPtrVector(v))
         /\ Deleted(DestroyPtrVector(v)) = Deleted(v) \cup Owned(v)
  <1>1. PICK e : e \in Seq(Pool \cup {None}) /\ v.elements = e
    BY DEF OwnsEachOnce, PtrVectors
  <1>2. PICK n \in Nat : n = Len(e) /\ DOMAIN e = 1..n
    BY <1>1, SequenceParts
  <1>3. PICK f : /\ f[0] = v /\ \A i \in 1..n : f[i] = Delete(f[i - 1], i - 1)
                 /\ DestroyPtrVector(v) = [f[n] EXCEPT !.elements = <<>>]
    BY <1>1, <1>2, DestroySteps
  <1> DEFINE Those(k) == {e[j] : j \in 1..k} \ {None}
             Good == {k \in 0..n : /\ f[k] \in PtrVectors /\ f[k].elements = e /\ DeletedOnce(f[k])
                                   /\ Deleted(f[k]) = Deleted(v) \cup Those(k)}
  <1>4. 0 \in Good
    <2>1. Those(0) = {}
      OBVIOUS
    <2> HIDE DEF Those
    <2> QED
      BY <1>1, <1>3, <2>1 DEF OwnsEachOnce
  <1>5. ASSUME NEW k \in 1..n, k - 1 \in Good PROVE k \in Good
    <2>1. PICK u, w : u = f[k - 1] /\ w = f[k] /\ w = Delete(u, k - 1)
      BY <1>3
    <2>2. u \in PtrVectors /\ u.elements = e /\ DeletedOnce(u) /\ Deleted(u) = Deleted(v) \cup Those(k - 1)
      BY <1>5, <2>1
    <2>3. e[k] \notin Deleted(u)
      <3>1. e[k] \notin Those(k - 1)
        <4>1. \A j \in 1..(k - 1) : e[j] = e[k] => e[j] = None
          BY <1>1, <1>2 DEF OwnsEachOnce, HoldsOnce
        <4> QED
          BY <4>1
      <3>2. e[k] \notin Deleted(v)
        BY <1>1, <1>2, NoObjectFacts DEF OwnsEachOnce, Owned
      <3> QED
        BY <2>2, <3>1, <3>2
    <2>4. w \in PtrVectors /\ w.elements = e /\ DeletedOnce(w) /\ Deleted(w) = Deleted(u) \cup ({e[k]} \ {None})
      <3>1. k \in 1..Len(u.elements) /\ u.elements[k] = e[k]
        BY <1>2, <2>2
      <3>2. /\ Delete(u, k - 1) \in PtrVectors /\ Delete(u, k - 1).elements = u.elements /\ DeletedOnce(Delete(u, k - 1))
            /\ Deleted(Delete(u, k - 1)) = Deleted(u) \cup ({u.elements[k]} \ {None})
        BY <2>2, <2>3, <3>1, DeleteFacts
      <3> QED
        BY <2>1, <2>2, <3>1, <3>2
    <2>5. Those(k) = Those(k - 1) \cup ({e[k]} \ {None})
      <3>1. 1..k = 1..(k - 1) \cup {k}
        OBVIOUS
      <3> QED
        BY <3>1
    <2> HIDE DEF Those
    <2>6. Deleted(w) = Deleted(v) \cup Those(k)
      BY <2>2, <2>4, <2>5
    <2>7. f[k] \in PtrVectors /\ f[k].elements = e /\ DeletedOnce(f[k]) /\ Deleted(f[k]) = Deleted(v) \cup Those(k)
      BY <2>1, <2>4, <2>6
    <2>8. k \in 0..n
      OBVIOUS
    <2> QED
      BY <2>7, <2>8
  <1>6. n \in Good
    <2> HIDE DEF Good
    <2>1. \A k \in 1..n : k - 1 \in Good => k \in Good
      BY <1>5
    <2>2. \A k \in 0..n : k \in Good
      BY <1>4, <2>1, UpTo, Zenon
    <2> QED
      BY <2>2
  <1>7. Those(n) = Owned(v)
    BY <1>1, <1>2 DEF Owned
  <1> HIDE DEF Those
  <1>8. DestroyPtrVector(v).deleted = f[n].deleted
    BY <1>3, <1>6 DEF PtrVectors
  <1>9. DeletedOnce(f[n]) /\ Deleted(f[n]) = Deleted(v) \cup Owned(v)
    BY <1>6, <1>7
  <1> QED
    BY <1>8, <1>9 DEF Deleted, DeletedOnce

StopsAt(v, size, n, m) ==
  /\ m \in n..size /\ (m = size \/ v.elements[m + 1] # None)
  /\ \A k \in n..(m - 1) : v.elements[k + 1] = None

\* A skipping iterator stops at the first object from n on, or at the end.
LEMMA SkipFacts ==
  ASSUME NEW v, NEW size \in Nat, Len(v.elements) = size, NEW n \in 0..size
  PROVE  StopsAt(v, size, n, SkipNulls(v, n))
  <1> DEFINE Stops(m) == /\ m = size \/ ~ElementIsNull(v, m)
                         /\ \A k \in n..(m - 1) : ElementIsNull(v, k)
             Ends == {m \in n..size : m = size \/ ~ElementIsNull(v, m)}
  <1>1. PICK m \in Ends : \A k \in Ends : m <= k
    <2>1. Ends \in SUBSET Nat /\ size \in Ends
      OBVIOUS
    <2> HIDE DEF Ends
    <2> QED
      BY <2>1, Minimum
  <1>2. m \in n..size /\ Stops(m)
    BY <1>1
  <1>3. SkipNulls(v, n) = CHOOSE k \in n..size : Stops(k)
    BY DEF SkipNulls
  <1> HIDE DEF Stops
  <1>4. SkipNulls(v, n) \in n..size /\ Stops(SkipNulls(v, n))
    BY <1>2, <1>3
  <1> QED
    BY <1>4 DEF Stops, ElementIsNull, StopsAt

LEMMA VisitFacts ==
  ASSUME NEW v, NEW size \in Nat, Len(v.elements) = size
  PROVE  VisitIsRight(v.elements, StopsOf(v))
  <1> DEFINE stops == StopsOf(v)
             E == Objects(v.elements)
             Sound(k) == /\ stops[k] \in E \cup {size} /\ k <= stops[k]
                         /\ \A p \in E : p < stops[k] => \E j \in 0..(k - 1) : stops[j] = p
             Good == {k \in 0..size : Sound(k)}
             Ahead == {k \in 1..size : stops[k - 1] < stops[k] \/ {stops[k - 1], stops[k]} = {size}}
  <1>1. /\ stops[0] = SkipNulls(v, 0)
        /\ \A k \in 1..size : stops[k] = IF stops[k - 1] = size THEN size ELSE SkipNulls(v, stops[k - 1] + 1)
    BY StopsSteps DEF BeginSkip, NextSkip
  <1>2. E = {p \in 0..(size - 1) : v.elements[p + 1] # None}
    BY DEF Objects
  <1> HIDE DEF stops, E
  <1>3. 0 \in Good
    <2>1. PICK m : m = SkipNulls(v, 0) /\ m = stops[0]
      BY <1>1
    <2>2. /\ m \in 0..size /\ (m = size \/ v.elements[m + 1] # None)
          /\ \A k \in 0..(m - 1) : v.elements[k + 1] = None
      <3>1. 0 \in 0..size
        OBVIOUS
      <3>2. StopsAt(v, size, 0, m)
        BY <2>1, <3>1, SkipFacts
      <3> QED
        BY <3>2 DEF StopsAt
    <2>3. m \in E \cup {size} /\ \A p \in E : ~(p < m)
      BY <1>2, <2>2
    <2> QED
      BY <2>1, <2>2, <2>3
  <1>4. ASSUME NEW k \in 1..size, k - 1 \in Good PROVE k \in Good /\ k \in Ahead
    <2>1. PICK s : /\ s = stops[k - 1] /\ s \in E \cup {size} /\ k - 1 <= s
                   /\ \A p \in E : p < s => \E j \in 0..(k - 2) : stops[j] = p
      <3>1. k - 1 - 1 = k - 2
        OBVIOUS
      <3> QED
        BY <1>4, <3>1
    <2>2. CASE s = size
      <3>1. stops[k - 1] = size
        BY <2>1, <2>2
      <3>2. stops[k] = size
        BY <1>1, <3>1, Zenon
      <3>3. \A p \in E : p < stops[k] => \E j \in 0..(k - 1) : stops[j] = p
        <4>1. \A p \in E : p < stops[k] => \E j \in 0..(k - 2) : stops[j] = p
          BY <2>1, <2>2, <3>2
        <4>2. 0..(k - 2) \subseteq 0..(k - 1)
          OBVIOUS
        <4> HIDE DEF E
        <4> QED
          BY <4>1, <4>2, Zenon
      <3>4. Sound(k)
        BY <1>2, <3>2, <3>3
      <3>5. stops[k - 1] < stops[k] \/ {stops[k - 1], stops[k]} = {size}
        BY <3>1, <3>2
      <3> HIDE DEF Sound
      <3> QED
        BY <3>4, <3>5
    <2>3. CASE s # size
      <3>1. s \in E /\ s \in 0..(size - 1)
        BY <1>2, <2>1, <2>3
      <3>2. PICK t : t = stops[k] /\ t = SkipNulls(v, s + 1)
        BY <1>1, <2>1, <2>3
      <3>3. /\ t \in (s + 1)..size /\ (t = size \/ v.elements[t + 1] # None)
            /\ \A i \in (s + 1)..(t - 1) : v.elements[i + 1] = None
        <4>1. s + 1 \in 0..size
          BY <3>1
        <4>2. StopsAt(v, size, s + 1, t)
          BY <3>2, <4>1, SkipFacts
        <4> QED
          BY <4>2 DEF StopsAt
      <3>4. t \in E \cup {size} /\ k <= t /\ s < t
        BY <1>2, <2>1, <3>1, <3>3
      <3>5. ASSUME NEW p \in E, p < t PROVE \E j \in 0..(k - 1) : stops[j] = p
        <4>1. p \in 0..(size - 1) /\ p <= s
          BY <1>2, <3>1, <3>3, <3>5
        <4>2. CASE p = s
          BY <2>1, <4>2
        <4>3. CASE p < s
          <5>1. PICK j \in 0..(k - 2) : stops[j] = p
            BY <2>1, <4>3
          <5>2. j \in 0..(k - 1)
            OBVIOUS
          <5> QED
            BY <5>1, <5>2
        <4> QED
          BY <3>1, <4>1, <4>2, <4>3
      <3>6. Sound(k)
        BY <3>2, <3>4, <3>5
      <3>7. stops[k - 1] < stops[k]
        BY <2>1, <3>2, <3>4
      <3> HIDE DEF Sound
      <3> QED
        BY <3>6, <3>7
    <2> QED
      BY <2>2, <2>3
  <1>5. \A k \in 0..size : k \in Good
    <2> HIDE DEF Good, Ahead
    <2>1. \A k \in 1..size : k - 1 \in Good => k \in Good
      BY <1>4
    <2> QED
      BY <1>3, <2>1, UpTo, Zenon
  <1>6. \A k \in 1..size : k \in Ahead
    <2> HIDE DEF Good, Ahead
    <2> QED
      BY <1>4, <1>5
  <1>7. stops[size] = size /\ \A p \in E : \E j \in 0..size : stops[j] = p
    <2>1. /\ stops[size] \in E \cup {size} /\ size <= stops[size]
          /\ \A p \in E : p < stops[size] => \E j \in 0..(size - 1) : stops[j] = p
      BY <1>5
    <2>2. stops[size] = size
      BY <1>2, <2>1
    <2>3. ASSUME NEW p \in E PROVE \E j \in 0..size : stops[j] = p
      <3>1. p < size
        BY <1>2
      <3>2. PICK j \in 0..(size - 1) : stops[j] = p
        BY <2>1, <2>2, <3>1
      <3>3. j \in 0..size
        OBVIOUS
      <3> QED
        BY <3>2, <3>3
    <2> QED
      BY <2>2, <2>3
  <1>8. {stops[i] : i \in 0..size} = E \cup {size}
    <2>1. \A i \in 0..size : stops[i] \in E \cup {size}
      BY <1>5
    <2>2. \A x \in E \cup {size} : \E i \in 0..size : stops[i] = x
      BY <1>7
    <2> QED
      BY <2>1, <2>2
  <1>9. \A i \in 1..size : stops[i - 1] < stops[i] \/ {stops[i - 1], stops[i]} = {size}
    BY <1>6
  <1> QED
    BY <1>8, <1>9 DEF VisitIsRight, stops, E

LEMMA EndsFacts ==
  ASSUME NEW v, NEW size \in Nat, Len(v.elements) = size, DOMAIN v.elements = 1..size,
         NEW first \in Objects(v.elements), NEW last \in Objects(v.elements),
         \A p \in Objects(v.elements) : first <= p /\ p <= last
  PROVE  FrontElement(v) = v.elements[first + 1] /\ BackElement(v) = v.elements[last + 1]
  <1>1. Objects(v.elements) = {p \in 0..(size - 1) : v.elements[p + 1] # None}
    BY DEF Objects
  <1>2. first \in 0..(size - 1) /\ last \in 0..(size - 1) /\ v.elements[first + 1] # None /\ v.elements[last + 1] # None
    BY <1>1
  <1>3. SkipNulls(v, 0) = first
    <2>1. PICK m : m = SkipNulls(v, 0) /\ m \in 0..size /\ (m = size \/ v.elements[m + 1] # None)
                   /\ \A k \in 0..(m - 1) : v.elements[k + 1] = None
      <3>1. 0 \in 0..size
        OBVIOUS
      <3>2. StopsAt(v, size, 0, SkipNulls(v, 0))
        BY <3>1, SkipFacts
      <3> QED
        BY <3>2 DEF StopsAt
    <2>2. m <= first
      BY <1>2, <2>1
    <2>3. m \in Objects(v.elements)
      BY <1>1, <1>2, <2>1, <2>2
    <2>4. first <= m
      BY <2>3
    <2> QED
      BY <1>2, <2>1, <2>2, <2>4
  <1> DEFINE IsLast(i) == v.elements[i] # None /\ \A j \in (i + 1)..size : v.elements[j] = None
  <1>4. last + 1 \in 1..size /\ IsLast(last + 1)
    <2>1. ASSUME NEW j \in (last + 1 + 1)..size, v.elements[j] # None PROVE FALSE
      <3>1. j - 1 \in 0..(size - 1) /\ j - 1 + 1 = j /\ last < j - 1
        BY <1>2
      <3>2. j - 1 \in Objects(v.elements)
        BY <1>1, <2>1, <3>1
      <3> QED
        BY <1>2, <3>1, <3>2
    <2> QED
      BY <1>2, <2>1
  <1>5. ASSUME NEW i \in 1..size, IsLast(i) PROVE i = last + 1
    <2>1. i - 1 \in 0..(size - 1) /\ i - 1 + 1 = i
      OBVIOUS
    <2>2. i - 1 \in Objects(v.elements)
      BY <1>1, <1>5, <2>1
    <2>3. i - 1 <= last
      BY <2>2
    <2>4. ~(last + 1 \in (i + 1)..size)
      BY <1>2, <1>5
    <2> QED
      BY <1>2, <2>3, <2>4
  <1>6. BackElement(v) = v.elements[CHOOSE i \in 1..size : IsLast(i)]
    BY DEF BackElement
  <1> HIDE DEF IsLast
  <1>7. (CHOOSE i \in 1..size : IsLast(i)) = last + 1
    BY <1>4, <1>5
  <1> QED
    BY <1>3, <1>6, <1>7 DEF FrontElement

\* What ChangePointers returns is right.
LEMMA PointersFacts ==
  ASSUME NEW m \in Nat, NEW changes \in [1..m -> Change], NEW nulls, Allowed(changes, nulls), NEW r,
         NEW v, v = VectorsOf(changes)[m], r.vector = v, r.destroyed = DestroyPtrVector(v).deleted,
         r.empty <=> EmptyNullCheck(v), r.released = Gone(changes, m), r.stops = StopsOf(v),
         r.ends = IF EmptyNullCheck(v) THEN <<>> ELSE <<FrontElement(v), BackElement(v)>>
  PROVE  PointersAreRight(changes, r)
  <1>1. PICK gone : gone = Gone(changes, m) /\ Followed(v, Given(changes), gone)
    <2>1. DOMAIN changes = 1..m
      OBVIOUS
    <2>2. Given(changes) = Brought(changes, m)
      BY <2>1 DEF Given, Brought
    <2> QED
      BY <2>2, HistoryFollowed
  <1>2. PICK e : e = v.elements /\ e \in Seq(Pool \cup {None}) /\ OwnsEachOnce(v)
    BY <1>1 DEF Followed, OwnsEachOnce, PtrVectors
  <1>3. PICK size \in Nat : size = Len(e) /\ DOMAIN e = 1..size
    BY <1>2, SequenceParts
  <1>4. /\ \A i, j \in DOMAIN r.destroyed : i # j => r.destroyed[i] # r.destroyed[j]
        /\ {r.destroyed[i] : i \in DOMAIN r.destroyed} = Given(changes) \ gone
    <2>1. DeletedOnce(DestroyPtrVector(v)) /\ Deleted(DestroyPtrVector(v)) = Deleted(v) \cup Owned(v)
      BY <1>2, DestroyFacts
    <2>2. Deleted(v) \cup Owned(v) = Given(changes) \ gone
      BY <1>1 DEF Followed
    <2> QED
      BY <2>1, <2>2 DEF DeletedOnce, Deleted
  <1>5. EmptyNullCheck(v) <=> Objects(e) = {}
    <2>1. EmptyNullCheck(v) <=> \A i \in 1..size : e[i] = None
      BY <1>2, <1>3 DEF EmptyNullCheck
    <2>2. Objects(e) = {p \in 0..(size - 1) : e[p + 1] # None}
      BY <1>3 DEF Objects
    <2>3. \A i \in 1..size : i - 1 \in 0..(size - 1) /\ i - 1 + 1 = i
      OBVIOUS
    <2>4. \A p \in 0..(size - 1) : p + 1 \in 1..size
      OBVIOUS
    <2>5. ASSUME NEW i \in 1..size, e[i] # None PROVE Objects(e) # {}
      BY <2>2, <2>3, <2>5
    <2>6. ASSUME NEW p \in Objects(e) PROVE \E i \in 1..size : e[i] # None
      BY <2>2, <2>4
    <2> QED
      BY <2>1, <2>5, <2>6
  <1>6. VisitIsRight(e, r.stops)
    BY <1>2, <1>3, VisitFacts
  <1>7. ASSUME NEW first \in Objects(e), NEW last \in Objects(e), \A p \in Objects(e) : first <= p /\ p <= last
        PROVE  r.ends = <<e[first + 1], e[last + 1]>>
    <2>1. FrontElement(v) = e[first + 1] /\ BackElement(v) = e[last + 1]
      BY <1>2, <1>3, <1>7, EndsFacts
    <2> QED
      BY <1>5, <2>1
  <1> QED
    BY <1>1, <1>2, <1>4, <1>5, <1>6, <1>7 DEF PointersAreRight

-----------------------------------------------------------------------------
(***************************************************************************)
(* Catalogs give each name one id.                                         *)
(***************************************************************************)
\* The catalog whose databases have the names of a sequence, each of them once.
Names(s) == {s[p] : p \in 1..Len(s)}
DatabaseAt(s, p) == [name |-> s[p], id |-> p - 1]
PlaceIn(s, name) == CHOOSE p \in 1..Len(s) : s[p] = name
CatalogOver(s, thrown) ==
  [vector |-> [elements |-> [p \in 1..Len(s) |-> DatabaseAt(s, p)], deleted |-> <<>>],
   byName |-> [name \in Names(s) |-> DatabaseAt(s, PlaceIn(s, name))],
   thrown |-> thrown]
Different(s) == \A p, q \in 1..Len(s) : s[p] = s[q] => p = q

LEMMA PlaceInFacts ==
  ASSUME NEW S, NEW s \in Seq(S), Different(s), NEW p \in 1..Len(s)
  PROVE  PlaceIn(s, s[p]) = p
  BY DEF PlaceIn, Different

LEMMA AppendNames ==
  ASSUME NEW S, NEW s \in Seq(S), Different(s), NEW x \in S, x \notin Names(s)
  PROVE  /\ Different(Append(s, x)) /\ Names(Append(s, x)) = Names(s) \cup {x}
         /\ PlaceIn(Append(s, x), x) = Len(s) + 1
         /\ \A name \in Names(s) : /\ PlaceIn(Append(s, x), name) = PlaceIn(s, name)
                                   /\ PlaceIn(s, name) \in 1..Len(s)
  <1>1. PICK n \in Nat : n = Len(s)
    BY SequenceParts
  <1>2. PICK t : /\ t = Append(s, x) /\ t \in Seq(S) /\ Len(t) = n + 1
                 /\ \A j \in 1..(n + 1) : t[j] = IF j = n + 1 THEN x ELSE s[j]
    <2>1. PICK t : t = Append(s, x)
      OBVIOUS
    <2>2. t \in Seq(S) /\ Len(t) = n + 1 /\ \A j \in 1..(n + 1) : t[j] = IF j = n + 1 THEN x ELSE s[j]
      BY <1>1, <2>1, AppendFacts
    <2> QED
      BY <2>1, <2>2
  <1>3. \A p \in 1..n : s[p] # x
    BY <1>1 DEF Names
  <1>4. Different(t)
    BY <1>1, <1>2, <1>3 DEF Different
  <1>5. Names(t) = Names(s) \cup {x}
    <2>1. \A p \in 1..n : s[p] \in Names(t)
      BY <1>2 DEF Names
    <2>2. x \in Names(t)
      BY <1>2 DEF Names
    <2>3. \A p \in 1..(n + 1) : t[p] \in Names(s) \cup {x}
      BY <1>1, <1>2 DEF Names
    <2> QED
      BY <1>1, <1>2, <2>1, <2>2, <2>3 DEF Names
  <1>6. PlaceIn(t, x) = n + 1
    <2>1. n + 1 \in 1..Len(t) /\ t[n + 1] = x
      BY <1>2
    <2> QED
      BY <1>2, <1>4, <2>1, PlaceInFacts
  <1>7. ASSUME NEW name \in Names(s) PROVE PlaceIn(t, name) = PlaceIn(s, name) /\ PlaceIn(s, name) \in 1..n
    <2>1. PICK p \in 1..n : s[p] = name
      BY <1>1 DEF Names
    <2>2. PlaceIn(s, name) = p
      BY <1>1, <2>1, PlaceInFacts
    <2>3. p \in 1..Len(t) /\ t[p] = name
      BY <1>2, <2>1
    <2>4. PlaceIn(t, name) = p
      BY <1>2, <1>4, <2>3, PlaceInFacts
    <2> QED
      BY <2>2, <2>4
  <1> QED
    BY <1>1, <1>2, <1>4, <1>5, <1>6, <1>7

\* A name the catalog has, or an id too many, is refused; any other is added.
LEMMA AddDatabaseFacts ==
  ASSUME NEW S, NEW s \in Seq(S), Different(s), NEW x \in S, NEW thrown
  PROVE  AddDatabase(CatalogOver(s, thrown), x) =
           IF x \in Names(s) \/ Len(s) > kCatalogMaxID THEN CatalogOver(s, TRUE)
           ELSE CatalogOver(Append(s, x), thrown)
  <1>1. PICK n \in Nat : n = Len(s)
    BY SequenceParts
  <1>2. PICK c : c = CatalogOver(s, thrown)
    OBVIOUS
  <1>3. PICK E : /\ E = [p \in 1..n |-> DatabaseAt(s, p)] /\ Len(E) = n /\ c.vector.elements = E
                 /\ c.vector = [elements |-> E, deleted |-> <<>>] /\ DOMAIN c.byName = Names(s)
    <2>1. c.vector.elements = [p \in 1..n |-> DatabaseAt(s, p)]
      BY <1>1, <1>2 DEF CatalogOver
    <2>2. Len([p \in 1..n |-> DatabaseAt(s, p)]) = n
      OBVIOUS
    <2> QED
      BY <1>1, <1>2, <2>1, <2>2 DEF CatalogOver
  <1>4. CASE x \in Names(s) \/ n > kCatalogMaxID
    <2>1. AddDatabase(c, x) = [c EXCEPT !.thrown = TRUE]
      BY <1>3, <1>4 DEF AddDatabase, HasDatabaseWithName
    <2>2. [c EXCEPT !.thrown = TRUE] = CatalogOver(s, TRUE)
      <3>1. PICK a, b : c = [vector |-> a, byName |-> b, thrown |-> thrown]
                        /\ CatalogOver(s, TRUE) = [vector |-> a, byName |-> b, thrown |-> TRUE]
        BY <1>2 DEF CatalogOver
      <3>2. PICK d, u : u = TRUE /\ d = [c EXCEPT !.thrown = u]
        OBVIOUS
      <3>3. c \in [vector : {a}, byName : {b}, thrown : {thrown}]
        BY <3>1
      <3>4. d = [vector |-> a, byName |-> b, thrown |-> u]
        BY <3>2, <3>3
      <3> QED
        BY <3>1, <3>2, <3>4
    <2> QED
      BY <1>1, <1>2, <1>4, <2>1, <2>2
  <1>5. CASE ~(x \in Names(s) \/ n > kCatalogMaxID)
    <2>1. PICK t : t = Append(s, x)
      OBVIOUS
    <2>2. /\ Len(t) = n + 1 /\ \A j \in 1..(n + 1) : t[j] = IF j = n + 1 THEN x ELSE s[j]
      BY <1>1, <2>1, SequenceParts
    <2>3. PICK db : db = [name |-> x, id |-> n]
      OBVIOUS
    <2>4. db = DatabaseAt(t, n + 1) /\ \A p \in 1..n : DatabaseAt(t, p) = DatabaseAt(s, p)
      BY <2>2, <2>3 DEF DatabaseAt
    <2>5. AddDatabase(c, x) = [c EXCEPT !.vector = PushBack(@, db), !.byName = Mapped(@, x, db)]
      BY <1>3, <1>5, <2>3 DEF AddDatabase, HasDatabaseWithName
    <2>6. PushBack(c.vector, db) = [elements |-> [p \in 1..(n + 1) |-> DatabaseAt(t, p)], deleted |-> <<>>]
      <3>1. Append(E, db) = [p \in 1..(n + 1) |-> DatabaseAt(t, p)]
        <4> DEFINE V == {DatabaseAt(t, p) : p \in 1..(n + 1)}
                   F == [p \in 1..(n + 1) |-> DatabaseAt(t, p)]
        <4>1. E \in Seq(V) /\ db \in V
          <5>1. E \in [1..n -> V]
            BY <1>3, <2>4
          <5> QED
            BY <2>4, <5>1
        <4>2. F \in Seq(V) /\ Len(F) = n + 1
          <5>1. \A p \in 1..(n + 1) : DatabaseAt(t, p) \in V
            OBVIOUS
          <5> HIDE DEF V
          <5>2. F \in [1..(n + 1) -> V]
            BY <5>1
          <5>3. n + 1 \in Nat
            OBVIOUS
          <5> HIDE DEF F
          <5> QED
            BY <5>2, <5>3
        <4>3. \A p \in 1..(n + 1) : F[p] = IF p = n + 1 THEN db ELSE E[p]
          BY <1>3, <2>4
        <4> HIDE DEF V, F
        <4>4. PICK G : G = Append(E, db) /\ G \in Seq(V) /\ Len(G) = n + 1 /\ \A p \in 1..(n + 1) : G[p] = IF p = n + 1 THEN db ELSE E[p]
          <5>1. PICK G : G = Append(E, db)
            OBVIOUS
          <5>2. G \in Seq(V) /\ Len(G) = n + 1 /\ \A p \in 1..(n + 1) : G[p] = IF p = n + 1 THEN db ELSE E[p]
            BY <1>3, <4>1, <5>1, AppendFacts
          <5> QED
            BY <5>1, <5>2
        <4>5. G = F
          BY <4>2, <4>3, <4>4
        <4> QED
          BY <4>4, <4>5 DEF F
      <3> QED
        <4>1. PICK F : F = [p \in 1..(n + 1) |-> DatabaseAt(t, p)] /\ F = Append(E, db)
          BY <3>1
        <4>2. PushBack(c.vector, db) = [elements |-> F, deleted |-> <<>>]
          <5>1. PICK v, d : v = c.vector /\ d = <<>> /\ v = [elements |-> E, deleted |-> d]
            BY <1>3
          <5>2. PushBack(v, db) = [v EXCEPT !.elements = F]
            <6>1. v.elements = E
              BY <5>1
            <6> QED
              BY <4>1, <6>1, Zenon DEF PushBack
          <5>3. v \in [elements : {E}, deleted : {d}]
            BY <5>1
          <5>4. [v EXCEPT !.elements = F] = [elements |-> F, deleted |-> d]
            BY <5>3
          <5> QED
            BY <5>1, <5>2, <5>4
        <4> QED
          BY <4>1, <4>2
    <2>7. Mapped(c.byName, x, db) = [name \in Names(t) |-> DatabaseAt(t, PlaceIn(t, name))]
      <3>1. /\ Names(t) = Names(s) \cup {x} /\ PlaceIn(t, x) = n + 1
            /\ \A name \in Names(s) : PlaceIn(t, name) = PlaceIn(s, name) /\ PlaceIn(s, name) \in 1..n
        BY <1>1, <1>5, <2>1, AppendNames
      <3>2. c.byName = [name \in Names(s) |-> DatabaseAt(s, PlaceIn(s, name))]
        BY <1>2 DEF CatalogOver
      <3>4. Mapped(c.byName, x, db) = [name \in Names(s) \cup {x} |-> IF name = x THEN db ELSE c.byName[name]]
        BY <3>2 DEF Mapped
      <3>5. \A name \in Names(s) \cup {x} :
              (IF name = x THEN db ELSE c.byName[name]) = DatabaseAt(t, PlaceIn(t, name))
        BY <2>4, <3>1, <3>2
      <3> QED
        BY <3>1, <3>4, <3>5
    <2>8. AddDatabase(c, x) = CatalogOver(t, thrown)
      BY <1>2, <2>2, <2>5, <2>6, <2>7 DEF CatalogOver
    <2> QED
      BY <1>1, <1>2, <1>5, <2>1, <2>8
  <1> QED
    BY <1>1, <1>4, <1>5

\* What a catalog holds when it was given the first k of some names: each of them once, as far
\* as ids reach.
HoldsNames(c, names, k, s, thrown) ==
  /\ s \in Seq(Names(names)) /\ Different(s) /\ Len(s) <= k /\ Len(s) <= kCatalogMaxID + 1
  /\ c = CatalogOver(s, thrown) /\ thrown \in BOOLEAN /\ (thrown <=> Len(s) < k)
  /\ Names(s) \subseteq {names[i] : i \in 1..k}
  /\ Len(s) <= kCatalogMaxID => Names(s) = {names[i] : i \in 1..k}
  /\ IsFiniteSet(Names(s)) /\ Cardinality(Names(s)) = Len(s)

LEMMA DatabaseAdded ==
  ASSUME NEW S, NEW s \in Seq(S), Different(s), NEW x \in S, NEW thrown,
         ~(x \in Names(s) \/ Len(s) > kCatalogMaxID)
  PROVE  AddDatabase(CatalogOver(s, thrown), x) = CatalogOver(Append(s, x), thrown)
  <1>1. AddDatabase(CatalogOver(s, thrown), x) =
           IF x \in Names(s) \/ Len(s) > kCatalogMaxID THEN CatalogOver(s, TRUE)
           ELSE CatalogOver(Append(s, x), thrown)
    BY AddDatabaseFacts, Zenon
  <1> QED
    BY <1>1, Zenon

LEMMA NameAdded ==
  ASSUME NEW names, NEW size \in Nat, Len(names) = size, NEW k \in 1..size, NEW c, NEW s, NEW thrown,
         HoldsNames(c, names, k - 1, s, thrown)
  PROVE  \E t, raised : HoldsNames(AddDatabase(c, names[k]), names, k, t, raised)
  <1>1. PICK x : x = names[k] /\ x \in Names(names)
    BY DEF Names
  <1>2. PICK n \in Nat : n = Len(s) /\ n <= k - 1
    <2>1. s \in Seq(Names(names)) /\ Len(s) <= k - 1
      BY DEF HoldsNames
    <2> QED
      BY <2>1, SequenceParts
  <1>3. PICK before, now : before = {names[i] : i \in 1..(k - 1)} /\ now = {names[i] : i \in 1..k} /\ now = before \cup {x}
    <2>1. 1..k = 1..(k - 1) \cup {k}
      OBVIOUS
    <2>2. PICK before, now : before = {names[i] : i \in 1..(k - 1)} /\ now = {names[i] : i \in 1..k}
      OBVIOUS
    <2>3. now = before \cup {x}
      BY <1>1, <2>1, <2>2
    <2> QED
      BY <2>2, <2>3
  <1>4. kCatalogMaxID \in Nat
    BY StructuresAssumption
  <1>5. CASE x \in Names(s) \/ n > kCatalogMaxID
    <2>1. PICK raised : raised = TRUE
      OBVIOUS
    <2>2. AddDatabase(c, x) = CatalogOver(s, raised)
      BY <1>1, <1>2, <1>5, <2>1, AddDatabaseFacts DEF HoldsNames
    <2>3. n < k
      BY <1>2
    <2>4. Names(s) \subseteq now
      BY <1>3 DEF HoldsNames
    <2>5. n <= kCatalogMaxID => Names(s) = now
      <3>1. ASSUME n <= kCatalogMaxID PROVE Names(s) = now
        <4>1. Names(s) = before
          BY <1>2, <1>3, <3>1 DEF HoldsNames
        <4>2. x \in Names(s)
          BY <1>2, <1>4, <1>5, <3>1
        <4> QED
          BY <1>3, <4>1, <4>2
      <3> QED
        BY <3>1
    <2>6. HoldsNames(AddDatabase(c, x), names, k, s, raised)
      BY <1>2, <1>3, <2>1, <2>2, <2>3, <2>4, <2>5 DEF HoldsNames
    <2> QED
      BY <1>1, <2>6
  <1>6. CASE ~(x \in Names(s) \/ n > kCatalogMaxID)
    <2>1. PICK t : t = Append(s, x)
      OBVIOUS
    <2>2. t \in Seq(Names(names)) /\ Len(t) = n + 1
      BY <1>1, <1>2, <2>1, AppendFacts DEF HoldsNames
    <2>3. Different(t) /\ Names(t) = Names(s) \cup {x}
      BY <1>1, <1>6, <2>1, AppendNames DEF HoldsNames
    <2>4. AddDatabase(c, x) = CatalogOver(t, thrown)
      <3>1. s \in Seq(Names(names)) /\ Different(s) /\ c = CatalogOver(s, thrown)
        BY DEF HoldsNames
      <3>2. ~(x \in Names(s) \/ Len(s) > kCatalogMaxID)
        BY <1>2, <1>6
      <3>3. AddDatabase(CatalogOver(s, thrown), x) = CatalogOver(Append(s, x), thrown)
        BY <1>1, <3>1, <3>2, DatabaseAdded, Zenon
      <3> QED
        BY <2>1, <3>1, <3>2, <3>3
    <2>5. IsFiniteSet(Names(t)) /\ Cardinality(Names(t)) = n + 1
      BY <1>2, <1>6, <2>3, FS_AddElement DEF HoldsNames
    <2>6. Names(s) = before
      BY <1>2, <1>3, <1>4, <1>6 DEF HoldsNames
    <2>7. n + 1 <= k /\ n + 1 <= kCatalogMaxID + 1 /\ (thrown <=> n + 1 < k) /\ thrown \in BOOLEAN
      <3>1. thrown \in BOOLEAN /\ (thrown <=> n < k - 1)
        BY <1>2 DEF HoldsNames
      <3>2. n + 1 < k <=> n < k - 1
        BY <1>2
      <3> QED
        BY <1>2, <1>4, <1>6, <3>1, <3>2
    <2>8. HoldsNames(AddDatabase(c, x), names, k, t, thrown)
      BY <1>3, <2>2, <2>3, <2>4, <2>5, <2>6, <2>7 DEF HoldsNames
    <2> QED
      BY <1>1, <2>8
  <1> QED
    BY <1>5, <1>6

LEMMA NewCatalogFacts ==
  ASSUME NEW S
  PROVE  \E e \in Seq(S) : /\ e = <<>> /\ Len(e) = 0 /\ Names(e) = {} /\ Different(e)
                           /\ NewCatalog = CatalogOver(e, FALSE)
  <1>1. PICK e \in Seq(S) : e = <<>> /\ Len(e) = 0
    <2>1. <<>> \in Seq(S) /\ Len(<<>>) = 0
      OBVIOUS
    <2> QED
      BY <2>1, Zenon
  <1>2. Names(e) = {} /\ Different(e)
    BY <1>1 DEF Names, Different
  <1>3. [p \in 1..Len(e) |-> DatabaseAt(e, p)] = e
    BY <1>1
  <1>4. [name \in Names(e) |-> DatabaseAt(e, PlaceIn(e, name))] = e
    BY <1>1, <1>2
  <1>5. NewCatalog = CatalogOver(e, FALSE)
    BY <1>1, <1>3, <1>4 DEF NewCatalog, NewPtrVector, CatalogOver
  <1> QED
    BY <1>1, <1>2, <1>5

\* Read from the loop: what the catalog holds after each name.
LEMMA CatalogHolds ==
  ASSUME NEW names, NEW size \in Nat, Len(names) = size
  PROVE  \E s, thrown : HoldsNames(CatalogsOf(names)[size], names, size, s, thrown)
  <1> DEFINE at == CatalogsOf(names)
             Good == {k \in 0..size : \E s, thrown : HoldsNames(at[k], names, k, s, thrown)}
  <1>1. at[0] = NewCatalog /\ \A k \in 1..size : at[k] = AddDatabase(at[k - 1], names[k])
    BY CatalogsSteps
  <1> HIDE DEF at
  <1>2. 0 \in Good
    <2>1. PICK e \in Seq(Names(names)) : /\ e = <<>> /\ Len(e) = 0 /\ Names(e) = {} /\ Different(e)
                                         /\ NewCatalog = CatalogOver(e, FALSE)
      BY NewCatalogFacts
    <2>2. PICK thrown \in BOOLEAN : thrown = FALSE
      OBVIOUS
    <2>3. {names[i] : i \in 1..0} = {}
      OBVIOUS
    <2>4. kCatalogMaxID \in Nat
      BY StructuresAssumption
    <2>5. at[0] = CatalogOver(e, thrown) /\ (thrown <=> Len(e) < 0) /\ Len(e) <= 0 /\ Len(e) <= kCatalogMaxID + 1
      <3>1. at[0] = CatalogOver(e, thrown)
        BY <1>1, <2>1, <2>2, Zenon
      <3>2. Len(e) <= 0 /\ Len(e) <= kCatalogMaxID + 1 /\ ~(Len(e) < 0)
        BY <2>1, <2>4
      <3> QED
        BY <2>2, <3>1, <3>2
    <2>6. Names(e) = {names[i] : i \in 1..0} /\ IsFiniteSet(Names(e)) /\ Cardinality(Names(e)) = Len(e)
      BY <2>1, <2>3, FS_EmptySet
    <2>7. HoldsNames(at[0], names, 0, e, thrown)
      BY <2>1, <2>5, <2>6 DEF HoldsNames
    <2> QED
      BY <2>7
  <1>3. ASSUME NEW k \in 1..size, k - 1 \in Good PROVE k \in Good
    <2>1. PICK s, thrown : HoldsNames(at[k - 1], names, k - 1, s, thrown)
      BY <1>3
    <2>2. \E t, raised : HoldsNames(AddDatabase(at[k - 1], names[k]), names, k, t, raised)
      BY <2>1, NameAdded
    <2> QED
      BY <1>1, <2>2
  <1>4. size \in Good
    <2> HIDE DEF Good
    <2>1. \A k \in 1..size : k - 1 \in Good => k \in Good
      BY <1>3
    <2>2. \A k \in 0..size : k \in Good
      BY <1>2, <2>1, UpTo, Zenon
    <2> QED
      BY <2>2
  <1> QED
    BY <1>4 DEF at

\* A catalog is read back from the names of its databases, but that it has refused none.
LEMMA CatalogReadBack ==
  ASSUME NEW S, NEW s \in Seq(S), Different(s), Len(s) <= kCatalogMaxID + 1
  PROVE  ReconstructCatalog(s) = CatalogOver(s, FALSE)
  <1>1. PICK n \in Nat : n = Len(s) /\ \A i \in 1..n : s[i] \in S
    BY SequenceParts
  <1>2. PICK f : /\ f[0] = NewCatalog /\ \A i \in 1..n : f[i] = AddDatabase(f[i - 1], s[i])
                 /\ ReconstructCatalog(s) = f[n]
    BY <1>1, ReconstructCatalogSteps
  <1> DEFINE Read(k) == CatalogOver(SubSeq(s, 1, k), FALSE)
             Good == {k \in 0..n : f[k] = Read(k)}
  <1>3. 0 \in Good
    <2>1. PICK e \in Seq(S) : e = <<>> /\ Len(e) = 0 /\ NewCatalog = CatalogOver(e, FALSE)
      BY NewCatalogFacts
    <2>2. SubSeq(s, 1, 0) = <<>>
      BY <1>1
    <2>3. f[0] = Read(0)
      BY <1>2, <2>1, <2>2
    <2> HIDE DEF Read
    <2> QED
      BY <2>3
  <1>4. ASSUME NEW k \in 1..n, k - 1 \in Good PROVE k \in Good
    <2>1. PICK a, b : a = SubSeq(s, 1, k - 1) /\ b = SubSeq(s, 1, k)
      OBVIOUS
    <2>2. /\ a \in Seq(S) /\ Len(a) = k - 1 /\ \A j \in 1..(k - 1) : a[j] = s[j]
      <3>1. k - 1 \in 0..Len(s)
        BY <1>1
      <3> QED
        BY <2>1, <3>1, PrefixFacts
    <2>3. /\ b \in Seq(S) /\ Len(b) = k /\ \A j \in 1..k : b[j] = s[j]
      <3>1. k \in 0..Len(s)
        BY <1>1
      <3> QED
        BY <2>1, <3>1, PrefixFacts
    <2>4. Different(a) /\ s[k] \notin Names(a) /\ Len(a) <= kCatalogMaxID
      <3>1. \A p, q \in 1..n : s[p] = s[q] => p = q
        BY <1>1 DEF Different
      <3>2. kCatalogMaxID \in Nat
        BY StructuresAssumption
      <3> QED
        BY <1>1, <2>2, <3>1, <3>2 DEF Different, Names
    <2>5. b = Append(a, s[k])
      <3>1. PICK t : t = Append(a, s[k])
        OBVIOUS
      <3>2. t \in Seq(S) /\ Len(t) = k - 1 + 1 /\ \A j \in 1..(k - 1 + 1) : t[j] = IF j = k - 1 + 1 THEN s[k] ELSE a[j]
        BY <1>1, <2>2, <3>1, AppendFacts
      <3>3. Len(t) = k /\ \A j \in 1..k : t[j] = s[j]
        BY <2>2, <3>2
      <3> QED
        BY <2>3, <3>1, <3>2, <3>3
    <2>6. AddDatabase(CatalogOver(a, FALSE), s[k]) = CatalogOver(b, FALSE)
      <3>1. s[k] \in S /\ ~(s[k] \in Names(a) \/ Len(a) > kCatalogMaxID)
        <4>1. kCatalogMaxID \in Nat
          BY StructuresAssumption
        <4> QED
          BY <1>1, <2>2, <2>4, <4>1
      <3>2. PICK y : y = s[k]
        OBVIOUS
      <3>3. a \in Seq(S) /\ Different(a) /\ y \in S /\ ~(y \in Names(a) \/ Len(a) > kCatalogMaxID)
        BY <2>2, <2>4, <3>1, <3>2
      <3>4. AddDatabase(CatalogOver(a, FALSE), y) = CatalogOver(Append(a, y), FALSE)
        BY <3>3, DatabaseAdded, Zenon
      <3> QED
        BY <2>5, <3>2, <3>4, Zenon
    <2>7. f[k] = AddDatabase(Read(k - 1), s[k])
      <3> HIDE DEF Read
      <3> QED
        BY <1>2, <1>4
    <2>8. f[k] = Read(k)
      BY <2>1, <2>6, <2>7
    <2> HIDE DEF Read
    <2> QED
      BY <2>8
  <1>5. n \in Good
    <2> HIDE DEF Good
    <2>1. \A k \in 1..n : k - 1 \in Good => k \in Good
      BY <1>4
    <2>2. \A k \in 0..n : k \in Good
      BY <1>3, <2>1, UpTo, Zenon
    <2> QED
      BY <2>2
  <1>6. SubSeq(s, 1, n) = s
    <2>1. n \in 0..Len(s)
      BY <1>1
    <2>2. PICK t : t = SubSeq(s, 1, n) /\ t \in Seq(S) /\ Len(t) = n /\ \A j \in 1..n : t[j] = s[j]
      <3>1. SubSeq(s, 1, n) \in Seq(S) /\ Len(SubSeq(s, 1, n)) = n /\ \A j \in 1..n : SubSeq(s, 1, n)[j] = s[j]
        BY <2>1, PrefixFacts, ZenonT(30)
      <3> QED
        BY <3>1
    <2> QED
      BY <1>1, <2>2, SMTT(30)
  <1> QED
    BY <1>2, <1>5, <1>6

\* What BuildCatalog returns is right.
LEMMA CatalogFacts ==
  ASSUME NEW names, NEW size \in Nat, Len(names) = size, DOMAIN names = 1..size, NEW r,
         r.catalog = CatalogsOf(names)[size], r.back = ReconstructCatalog(GetCatalogProto(r.catalog))
  PROVE  CatalogIsRight(names, r)
  <1>1. PICK c, s, thrown : c = r.catalog /\ HoldsNames(c, names, size, s, thrown)
    BY CatalogHolds
  <1>2. PICK n \in Nat : n = Len(s) /\ DOMAIN s = 1..n /\ s \in Seq(Names(names)) /\ Different(s)
    BY <1>1, SequenceParts DEF HoldsNames
  <1>3. /\ c.vector.elements = [p \in 1..n |-> DatabaseAt(s, p)] /\ Len(c.vector.elements) = n
        /\ c.byName = [name \in Names(s) |-> DatabaseAt(s, PlaceIn(s, name))] /\ c.thrown = thrown
        /\ c = CatalogOver(s, thrown)
    <2>1. c = CatalogOver(s, thrown)
      BY <1>1 DEF HoldsNames
    <2> QED
      BY <1>2, <2>1 DEF CatalogOver
  <1>4. kCatalogMaxID \in Nat
    BY StructuresAssumption
  <1>5. n = NumberIn(Cardinality({names[i] : i \in DOMAIN names}))
    <2>1. PICK all : all = {names[i] : i \in 1..size}
      OBVIOUS
    <2>2. IsFiniteSet(all) /\ Cardinality(all) \in Nat
      <3>1. IsFiniteSet(1..size)
        BY FS_Interval
      <3>2. IsFiniteSet(all)
        <4>1. PICK f : f = [i \in 1..size |-> names[i]]
          OBVIOUS
        <4>2. f \in Surjection(1..size, all)
          BY <2>1, <4>1 DEF Surjection
        <4> QED
          BY <3>1, <4>2, FS_Surjection
      <3> QED
        BY <3>2, FS_CardinalityType
    <2>3. Names(s) \subseteq all /\ Cardinality(Names(s)) = n /\ n <= kCatalogMaxID + 1
          /\ (n <= kCatalogMaxID => Names(s) = all)
      BY <1>1, <1>2, <2>1 DEF HoldsNames
    <2>4. n <= Cardinality(all)
      BY <2>2, <2>3, FS_Subset
    <2>5. NumberIn(Cardinality(all)) = n
      <3>1. CASE n <= kCatalogMaxID
        BY <1>4, <2>3, <3>1 DEF NumberIn
      <3>2. CASE n > kCatalogMaxID
        BY <1>4, <2>2, <2>3, <2>4, <3>2 DEF NumberIn
      <3> QED
        BY <1>4, <3>1, <3>2
    <2> QED
      BY <2>1, <2>5
  <1>6. c.thrown <=> n < Len(names)
    BY <1>1, <1>2, <1>3 DEF HoldsNames
  <1>7. ASSUME NEW id \in 0..(n - 1)
        PROVE  LET db == GetDatabaseById(c, id) IN db.id = id /\ GetDatabaseByName(c, db.name) = db
    <2>1. PICK p \in 1..n : p = id + 1 /\ id = p - 1
      OBVIOUS
    <2>2. PICK db : db = DatabaseAt(s, p) /\ db.id = id /\ db.name = s[p] /\ db # None
      <3>1. DatabaseAt(s, p).id = id /\ DatabaseAt(s, p).name = s[p]
        BY <2>1 DEF DatabaseAt
      <3>2. "id" \in DOMAIN DatabaseAt(s, p) /\ "id" \notin DOMAIN None
        BY DEF DatabaseAt, None
      <3>3. DatabaseAt(s, p) # None
        BY <3>2
      <3> QED
        BY <3>1, <3>3
    <2>3. GetDatabaseById(c, id) = db
      BY <1>3, <2>1, <2>2 DEF GetDatabaseById, ElementIsNull
    <2>4. s[p] \in Names(s) /\ PlaceIn(s, s[p]) = p
      BY <1>2, PlaceInFacts DEF Names
    <2>5. GetDatabaseByName(c, s[p]) = db
      BY <1>3, <2>2, <2>4 DEF GetDatabaseByName, HasDatabaseWithName
    <2> QED
      BY <2>2, <2>3, <2>5
  <1>8. r.back = [c EXCEPT !.thrown = FALSE]
    <2>1. GetCatalogProto(c) = s
      <3>1. PICK proto : proto = GetCatalogProto(c)
        OBVIOUS
      <3>2. DOMAIN c.vector.elements = 1..n /\ \A i \in 1..n : c.vector.elements[i].name = s[i]
        BY <1>3 DEF DatabaseAt
      <3>3. proto = [i \in 1..n |-> s[i]]
        BY <3>1, <3>2 DEF GetCatalogProto
      <3>4. s = [i \in 1..n |-> s[i]]
        BY <1>2
      <3> QED
        BY <3>1, <3>3, <3>4
    <2>2. Len(s) <= kCatalogMaxID + 1
      BY <1>1 DEF HoldsNames
    <2>3. r.back = CatalogOver(s, FALSE)
      BY <1>1, <1>2, <2>1, <2>2, CatalogReadBack
    <2>4. PICK a, b : c = [vector |-> a, byName |-> b, thrown |-> thrown]
                      /\ CatalogOver(s, FALSE) = [vector |-> a, byName |-> b, thrown |-> FALSE]
      BY <1>3 DEF CatalogOver
    <2>5. PICK d, u : u = FALSE /\ d = [c EXCEPT !.thrown = u]
      OBVIOUS
    <2>6. c \in [vector : {a}, byName : {b}, thrown : {thrown}]
      BY <2>4
    <2>7. d = [vector |-> a, byName |-> b, thrown |-> u]
      BY <2>5, <2>6
    <2> QED
      BY <2>3, <2>4, <2>5, <2>7
  <1> QED
    BY <1>1, <1>3, <1>5, <1>6, <1>7, <1>8 DEF CatalogIsRight

-----------------------------------------------------------------------------
(***************************************************************************)
(* Schemas keep, beside the attributes, what is computed from them one by  *)
(* one: names, NULL bits, variable length values, the fixed part, sums.    *)
(***************************************************************************)
\* The attributes that a schema is given, and the ones that it has numbered.
RelationAttributes ==
  [id : Int, name : {AttributeNames[i] : i \in DOMAIN AttributeNames}, type : RelationTypes, display : {NoName, "shown"}]
\* A schema whose attributes have these names in lower case.
SchemaOver(names) ==
  [id : {7}, name : {"relation"}, temporary : BOOLEAN,
   vector : [elements : Seq(RelationAttributes), deleted : {<<>>}], byName : [names -> Nat],
   nullables : Nat, variables : Nat, maximum : Nat, minimum : Nat, estimated : Nat, fixed : Nat,
   maximumVariable : Nat, minimumVariable : Nat, minimumNonNullable : Nat, estimatedVariable : Nat,
   offsets : Seq(Nat), maxLengths : Seq(Nat), nullableIndices : Seq(Int), currentNullable : Int,
   variableIndices : Seq(Int), currentVariable : Int]

LEMMA LengthFacts ==
  ASSUME NEW t \in RelationTypes
  PROVE  /\ MaximumByteLength(t) \in Nat /\ MinimumByteLength(t) \in Nat /\ EstimateAverageByteLength(t) \in Nat
         /\ IsVariableLength(t) <=> t.id = "VarChar"
         /\ ~IsVariableLength(t) => /\ MinimumByteLength(t) = MaximumByteLength(t)
                                    /\ EstimateAverageByteLength(t) = MaximumByteLength(t)
         /\ t.nullable \in BOOLEAN
  <1>1. /\ t.id \in TypeIDs /\ t.nullable \in BOOLEAN /\ t.length \in Nat
        /\ t.id \in StringIDs => t.length # 0
    BY StructuresAssumption DEF AllTypes
  <1>2. t.length \div 2 + 1 \in Nat
    BY <1>1
  <1> QED
    BY <1>1, <1>2 DEF MaximumByteLength, MinimumByteLength, EstimateAverageByteLength, IsVariableLength, TypeIDs, StringIDs

\* Resizing a sequence, shorter or longer.
Resized(r, S, s, n, x) ==
  /\ r \in Seq(S) /\ Len(r) = n
  /\ \A i \in 1..n : (i <= Len(s) => r[i] = s[i]) /\ (i > Len(s) => r[i] = x)
LEMMA ResizeFacts ==
  ASSUME NEW S, NEW s \in Seq(S), NEW n \in Nat, NEW x \in S
  PROVE  Resized(Resize(s, n, x), S, s, n, x)
  <1>1. PICK m \in Nat : m = Len(s) /\ DOMAIN s = 1..m /\ \A i \in 1..m : s[i] \in S
    <2>1. Len(s) \in Nat /\ DOMAIN s = 1..Len(s) /\ \A i \in 1..Len(s) : s[i] \in S
      BY SequenceParts
    <2> QED
      BY <2>1
  <1>2. CASE n <= m
    <2>1. PICK t : t = SubSeq(s, 1, n)
      OBVIOUS
    <2>2. t \in Seq(S) /\ Len(t) = n /\ \A i \in 1..n : t[i] = s[i]
      <3>1. n \in 0..Len(s)
        BY <1>1, <1>2
      <3> QED
        BY <2>1, <3>1, PrefixFacts
    <2>3. Resize(s, n, x) = t
      BY <1>1, <1>2, <2>1 DEF Resize
    <2> QED
      BY <1>1, <1>2, <2>2, <2>3 DEF Resized
  <1>3. CASE n > m
    <2>1. PICK u : u = [i \in 1..(n - m) |-> x]
      OBVIOUS
    <2>2. u \in Seq(S) /\ Len(u) = n - m
      BY <1>1, <1>3, <2>1
    <2>3. PICK t : t = s \o u
      OBVIOUS
    <2>4. t \in Seq(S) /\ Len(t) = n /\ \A i \in 1..n : t[i] = IF i <= m THEN s[i] ELSE u[i - m]
      BY <1>1, <1>3, <2>2, <2>3
    <2>5. Resize(s, n, x) = t
      BY <1>1, <1>3, <2>1, <2>3 DEF Resize
    <2>6. \A i \in 1..n : i > m => u[i - m] = x
      BY <1>1, <1>3, <2>1
    <2> QED
      BY <1>1, <1>3, <2>4, <2>5, <2>6 DEF Resized
  <1> QED
    BY <1>1, <1>2, <1>3

LengthPut(t, S, s, m, x) ==
  t \in Seq(S) /\ Len(t) = m /\ t[m] = x /\ \A i \in 1..(m - 1) : i <= Len(s) => t[i] = s[i]
LEMMA LengthPutFacts ==
  ASSUME NEW S, NEW s \in Seq(S), NEW m \in Nat, m > 0, NEW x \in S, NEW z \in S
  PROVE  LengthPut([Resize(s, m, z) EXCEPT ![m] = x], S, s, m, x)
  <1>1. PICK r \in Seq(S) : r = Resize(s, m, z) /\ Len(r) = m /\ \A i \in 1..m : i <= Len(s) => r[i] = s[i]
    <2>1. Resized(Resize(s, m, z), S, s, m, z)
      BY ResizeFacts
    <2> QED
      BY <2>1 DEF Resized
  <1>2. PICK t : t = [r EXCEPT ![m] = x]
    OBVIOUS
  <1>3. t \in Seq(S) /\ Len(t) = m /\ t[m] = x /\ \A i \in 1..(m - 1) : t[i] = r[i]
    BY <1>1, <1>2
  <1> QED
    BY <1>1, <1>2, <1>3 DEF LengthPut

\* What addAttribute() makes of the counters, split by what it does with them.
VariableAdded(c, d, t) ==
  /\ d.variables = c.variables + 1 /\ d.currentVariable = c.currentVariable + 1
  /\ d.variableIndices = Append(c.variableIndices, c.currentVariable + 1)
  /\ d.maximumVariable = c.maximumVariable + MaximumByteLength(t)
  /\ d.minimumVariable = c.minimumVariable + MinimumByteLength(t)
  /\ d.minimumNonNullable = c.minimumNonNullable + (IF t.nullable THEN 0 ELSE MinimumByteLength(t))
  /\ d.estimatedVariable = c.estimatedVariable + EstimateAverageByteLength(t)
  /\ d.offsets = c.offsets /\ d.fixed = c.fixed
FixedAdded(c, d, t) ==
  /\ d.variables = c.variables /\ d.currentVariable = c.currentVariable
  /\ d.variableIndices = Append(c.variableIndices, -1)
  /\ d.maximumVariable = c.maximumVariable /\ d.minimumVariable = c.minimumVariable
  /\ d.minimumNonNullable = c.minimumNonNullable /\ d.estimatedVariable = c.estimatedVariable
  /\ d.offsets = Resize(c.offsets, Len(c.vector.elements) + 1, c.fixed)
  /\ d.fixed = c.fixed + MaximumByteLength(t)
NullableCounted(c, d, t) ==
  IF t.nullable
  THEN /\ d.nullables = c.nullables + 1 /\ d.currentNullable = c.currentNullable + 1
       /\ d.nullableIndices = Append(c.nullableIndices, c.currentNullable + 1)
  ELSE /\ d.nullables = c.nullables /\ d.currentNullable = c.currentNullable
       /\ d.nullableIndices = Append(c.nullableIndices, -1)
TotalsAdded(c, d, t) ==
  /\ d.maximum = c.maximum + MaximumByteLength(t) /\ d.minimum = c.minimum + MinimumByteLength(t)
  /\ d.estimated = c.estimated + EstimateAverageByteLength(t)
  /\ d.maxLengths = [Resize(c.maxLengths, Len(c.vector.elements) + 1, 0) EXCEPT
                       ![Len(c.vector.elements) + 1] = MaximumByteLength(t)]
AttributeAdded(c, d, a) ==
  /\ d.vector.elements = Append(c.vector.elements, [a EXCEPT !.id = Len(c.vector.elements)])
  /\ d.byName = Mapped(c.byName, LowerOf(a.name), Len(c.vector.elements))
  /\ d.temporary = c.temporary
  /\ IF IsVariableLength(a.type) THEN VariableAdded(c, d, a.type) ELSE FixedAdded(c, d, a.type)
  /\ NullableCounted(c, d, a.type) /\ TotalsAdded(c, d, a.type)

LEMMA SchemaFields ==
  ASSUME NEW names, NEW c \in SchemaOver(names)
  PROVE  /\ c.vector.elements \in Seq(RelationAttributes) /\ c.vector.deleted = <<>>
         /\ c.byName \in [names -> Nat] /\ c.temporary \in BOOLEAN
         /\ c.nullables \in Nat /\ c.variables \in Nat /\ c.maximum \in Nat /\ c.minimum \in Nat
         /\ c.estimated \in Nat /\ c.fixed \in Nat /\ c.maximumVariable \in Nat /\ c.minimumVariable \in Nat
         /\ c.minimumNonNullable \in Nat /\ c.estimatedVariable \in Nat /\ c.offsets \in Seq(Nat)
         /\ c.maxLengths \in Seq(Nat) /\ c.nullableIndices \in Seq(Int) /\ c.currentNullable \in Int
         /\ c.variableIndices \in Seq(Int) /\ c.currentVariable \in Int
  BY DEF SchemaOver

TotalsTyped(c, x, y, z, u) ==
  /\ c.variables + 1 \in Nat /\ c.maximumVariable + x \in Nat /\ c.minimumVariable + y \in Nat
  /\ c.minimumNonNullable + u \in Nat /\ c.estimatedVariable + z \in Nat
LEMMA TotalsFacts ==
  ASSUME NEW names, NEW c \in SchemaOver(names), NEW x \in Nat, NEW y \in Nat, NEW z \in Nat, NEW u \in Nat
  PROVE  TotalsTyped(c, x, y, z, u)
  <1>1. /\ c.variables \in Nat /\ c.maximumVariable \in Nat /\ c.minimumVariable \in Nat
        /\ c.minimumNonNullable \in Nat /\ c.estimatedVariable \in Nat
    BY SchemaFields
  <1> QED
    BY <1>1 DEF TotalsTyped

\* addAttribute() keeps what a schema holds in its type, and adds to each part of it.
LEMMA AddAttributeFacts ==
  ASSUME NEW names, NEW c \in SchemaOver(names), NEW a \in RelationAttributes
  PROVE  /\ AddAttribute(c, a) \in SchemaOver(names \cup {LowerOf(a.name)})
         /\ AttributeAdded(c, AddAttribute(c, a), a)
  <1>1. PICK n \in Nat, e \in Seq(RelationAttributes) : e = c.vector.elements /\ n = Len(e)
    <2>1. c.vector.elements \in Seq(RelationAttributes)
      BY SchemaFields
    <2>2. Len(c.vector.elements) \in Nat
      BY <2>1, SequenceParts
    <2> QED
      BY <2>1, <2>2
  <1>2. PICK t \in RelationTypes : t = a.type
    BY DEF RelationAttributes
  <1>3. PICK most, least, likely \in Nat : /\ most = MaximumByteLength(t) /\ least = MinimumByteLength(t)
                                           /\ likely = EstimateAverageByteLength(t)
    BY LengthFacts
  <1>4. PICK more : more = names \cup {LowerOf(a.name)}
    OBVIOUS
  <1>5. PICK named : /\ named = [c EXCEPT !.vector = PushBack(@, [a EXCEPT !.id = n]),
                                          !.byName = Mapped(@, LowerOf(a.name), n)]
    OBVIOUS
  <1>6. /\ named \in SchemaOver(more)
        /\ named.vector.elements = Append(e, [a EXCEPT !.id = n])
        /\ named.byName = Mapped(c.byName, LowerOf(a.name), n)
        /\ named = [c EXCEPT !.vector = named.vector, !.byName = named.byName]
    <2>1. PICK b : b = [a EXCEPT !.id = n] /\ b \in RelationAttributes
      <3>1. [a EXCEPT !.id = n] \in RelationAttributes
        BY SMTT(20) DEF RelationAttributes
      <3> QED
        BY <3>1
    <2>2. PICK f \in Seq(RelationAttributes) : f = Append(e, b)
      BY <2>1, AppendFacts
    <2>3. PICK v : v = PushBack(c.vector, b) /\ v.elements = f /\ v \in [elements : Seq(RelationAttributes), deleted : {<<>>}]
      <3>1. PICK v : v = PushBack(c.vector, b)
        OBVIOUS
      <3>2. c.vector \in [elements : Seq(RelationAttributes), deleted : {<<>>}]
        BY DEF SchemaOver
      <3>3. v = [c.vector EXCEPT !.elements = f]
        BY <1>1, <2>2, <3>1 DEF PushBack
      <3>4. v.elements = f /\ v \in [elements : Seq(RelationAttributes), deleted : {<<>>}]
        BY <3>2, <3>3
      <3> QED
        BY <3>1, <3>4
    <2>4. PICK g : g = Mapped(c.byName, LowerOf(a.name), n) /\ g \in [more -> Nat]
      <3>1. c.byName \in [names -> Nat]
        BY DEF SchemaOver
      <3>2. Mapped(c.byName, LowerOf(a.name), n) \in [more -> Nat]
        BY <1>4, <3>1 DEF Mapped
      <3> QED
        BY <3>2
    <2>5. named = [c EXCEPT !.vector = v, !.byName = g]
      BY <1>5, <2>1, <2>3, <2>4
    <2>6. named \in SchemaOver(more) /\ named.vector = v /\ named.byName = g
      BY <2>3, <2>4, <2>5 DEF SchemaOver
    <2> QED
      BY <2>1, <2>2, <2>3, <2>4, <2>5, <2>6
  <1>7. PICK laid : laid = IF IsVariableLength(t) THEN AddVariable(named, t) ELSE AddFixed(named, t, n)
    OBVIOUS
  <1>8. /\ laid \in SchemaOver(more)
        /\ laid.vector = named.vector /\ laid.byName = named.byName /\ laid.temporary = c.temporary
        /\ IF IsVariableLength(t) THEN VariableAdded(c, laid, t) ELSE FixedAdded(c, laid, t)
        /\ laid.maximum = c.maximum /\ laid.minimum = c.minimum /\ laid.estimated = c.estimated
        /\ laid.nullables = c.nullables /\ laid.currentNullable = c.currentNullable
        /\ laid.nullableIndices = c.nullableIndices /\ laid.maxLengths = c.maxLengths
    <2>1. PICK indices \in Seq(Int), current \in Int : indices = c.variableIndices /\ current = c.currentVariable
      BY DEF SchemaOver
    <2>2. Append(indices, current + 1) \in Seq(Int) /\ Append(indices, -1) \in Seq(Int)
      BY AppendFacts
    <2>3. /\ c.offsets \in Seq(Nat) /\ c.fixed \in Nat
          /\ named.variableIndices = indices /\ named.currentVariable = current /\ named.offsets = c.offsets
          /\ named.fixed = c.fixed /\ named.variables = c.variables /\ named.maximumVariable = c.maximumVariable
          /\ named.minimumVariable = c.minimumVariable /\ named.minimumNonNullable = c.minimumNonNullable
          /\ named.estimatedVariable = c.estimatedVariable /\ named.maximum = c.maximum
          /\ named.minimum = c.minimum /\ named.estimated = c.estimated /\ named.nullables = c.nullables
          /\ named.currentNullable = c.currentNullable /\ named.nullableIndices = c.nullableIndices
          /\ named.maxLengths = c.maxLengths /\ named.temporary = c.temporary
      BY <1>6, <2>1 DEF SchemaOver
    <2>4. CASE IsVariableLength(t)
      <3>1. laid = AddVariable(named, t)
        BY <1>7, <2>4
      <3>2. laid \in SchemaOver(more)
        <4>1. PICK place \in Int, places \in Seq(Int) : place = current + 1 /\ places = Append(indices, current + 1)
          <5>1. current + 1 \in Int /\ Append(indices, current + 1) \in Seq(Int)
            BY <2>1, <2>2
          <5> QED
            BY <5>1
        <4>0. PICK bytes \in Nat : bytes = (IF t.nullable THEN 0 ELSE least)
          BY <1>3
        <4>2. PICK variables, longest, shortest, free, usual \in Nat :
                /\ variables = c.variables + 1 /\ longest = c.maximumVariable + most
                /\ shortest = c.minimumVariable + least /\ free = c.minimumNonNullable + bytes
                /\ usual = c.estimatedVariable + likely
          <5>1. /\ c.variables + 1 \in Nat /\ c.maximumVariable + most \in Nat /\ c.minimumVariable + least \in Nat
                /\ c.minimumNonNullable + bytes \in Nat /\ c.estimatedVariable + likely \in Nat
            <6>1. TotalsTyped(c, most, least, likely, bytes)
              BY TotalsFacts
            <6> QED
              BY <6>1, Zenon DEF TotalsTyped
          <5> QED
            BY <5>1
        <4>3. laid = [named EXCEPT !.variables = variables, !.currentVariable = place, !.variableIndices = places,
                        !.maximumVariable = longest, !.minimumVariable = shortest, !.minimumNonNullable = free,
                        !.estimatedVariable = usual]
          BY <1>3, <2>1, <2>3, <3>1, <4>0, <4>1, <4>2 DEF AddVariable
        <4> QED
          BY <1>6, <4>3 DEF SchemaOver
      <3>3. /\ laid.vector = named.vector /\ laid.byName = named.byName /\ laid.temporary = c.temporary
            /\ laid.maximum = c.maximum /\ laid.minimum = c.minimum /\ laid.estimated = c.estimated
            /\ laid.nullables = c.nullables /\ laid.currentNullable = c.currentNullable
            /\ laid.nullableIndices = c.nullableIndices /\ laid.maxLengths = c.maxLengths
        BY <1>6, <2>3, <3>1 DEF AddVariable, SchemaOver
      <3>4. VariableAdded(c, laid, t)
        BY <1>3, <1>6, <2>1, <2>3, <3>1 DEF AddVariable, VariableAdded, SchemaOver
      <3> QED
        BY <2>4, <3>2, <3>3, <3>4
    <2>5. CASE ~IsVariableLength(t)
      <3>1. laid = AddFixed(named, t, n)
        BY <1>7, <2>5
      <3>2. PICK offsets \in Seq(Nat) : offsets = Resize(c.offsets, n + 1, c.fixed)
        <4>1. n + 1 \in Nat
          BY <1>1
        <4>2. Resize(c.offsets, n + 1, c.fixed) \in Seq(Nat)
          BY <2>3, <4>1, ResizeFacts DEF Resized
        <4> QED
          BY <4>2
      <3>3. laid \in SchemaOver(more)
        <4>1. PICK places \in Seq(Int) : places = Append(indices, -1)
          BY <2>2
        <4>2. PICK fixed \in Nat : fixed = c.fixed + most
          BY <2>3
        <4>3. laid = [named EXCEPT !.variableIndices = places, !.offsets = offsets, !.fixed = fixed]
          BY <1>3, <2>1, <2>3, <3>1, <3>2, <4>1, <4>2 DEF AddFixed
        <4> QED
          BY <1>6, <4>3 DEF SchemaOver
      <3>4. /\ laid.vector = named.vector /\ laid.byName = named.byName /\ laid.temporary = c.temporary
            /\ laid.maximum = c.maximum /\ laid.minimum = c.minimum /\ laid.estimated = c.estimated
            /\ laid.nullables = c.nullables /\ laid.currentNullable = c.currentNullable
            /\ laid.nullableIndices = c.nullableIndices /\ laid.maxLengths = c.maxLengths
        BY <1>6, <2>3, <3>1 DEF AddFixed, SchemaOver
      <3>5. FixedAdded(c, laid, t)
        BY <1>1, <1>3, <1>6, <2>1, <2>3, <3>1, <3>2 DEF AddFixed, FixedAdded, SchemaOver
      <3> QED
        BY <2>5, <3>3, <3>4, <3>5
    <2> QED
      BY <2>4, <2>5
  <1>9. PICK sized : sized = [laid EXCEPT !.maximum = @ + most, !.minimum = @ + least, !.estimated = @ + likely]
    OBVIOUS
  <1>10. /\ sized \in SchemaOver(more)
         /\ sized.maximum = c.maximum + most /\ sized.minimum = c.minimum + least
         /\ sized.estimated = c.estimated + likely
         /\ sized.vector = laid.vector /\ sized.byName = laid.byName /\ sized.temporary = c.temporary
         /\ sized.nullables = c.nullables /\ sized.currentNullable = c.currentNullable
         /\ sized.nullableIndices = c.nullableIndices /\ sized.maxLengths = c.maxLengths
         /\ sized.variables = laid.variables /\ sized.currentVariable = laid.currentVariable
         /\ sized.variableIndices = laid.variableIndices /\ sized.maximumVariable = laid.maximumVariable
         /\ sized.minimumVariable = laid.minimumVariable /\ sized.minimumNonNullable = laid.minimumNonNullable
         /\ sized.estimatedVariable = laid.estimatedVariable /\ sized.offsets = laid.offsets
         /\ sized.fixed = laid.fixed
    <2>1. PICK x, y, z \in Nat : x = c.maximum + most /\ y = c.minimum + least /\ z = c.estimated + likely
      <3>1. c.maximum + most \in Nat /\ c.minimum + least \in Nat /\ c.estimated + likely \in Nat
        BY <1>3, SchemaFields, SMTT(20)
      <3> QED
        BY <3>1
    <2>2. sized = [laid EXCEPT !.maximum = x, !.minimum = y, !.estimated = z]
      BY <1>8, <1>9, <2>1
    <2> QED
      BY <1>8, <2>1, <2>2, ZenonT(30) DEF SchemaOver
  <1>11. PICK counted : counted = CountNullable(sized, t)
    OBVIOUS
  <1>12. /\ counted \in SchemaOver(more) /\ NullableCounted(c, counted, t)
         /\ counted.maximum = c.maximum + most /\ counted.minimum = c.minimum + least
         /\ counted.estimated = c.estimated + likely
         /\ counted.vector = laid.vector /\ counted.byName = laid.byName /\ counted.temporary = c.temporary
         /\ counted.maxLengths = c.maxLengths
         /\ counted.variables = laid.variables /\ counted.currentVariable = laid.currentVariable
         /\ counted.variableIndices = laid.variableIndices /\ counted.maximumVariable = laid.maximumVariable
         /\ counted.minimumVariable = laid.minimumVariable /\ counted.minimumNonNullable = laid.minimumNonNullable
         /\ counted.estimatedVariable = laid.estimatedVariable /\ counted.offsets = laid.offsets
         /\ counted.fixed = laid.fixed
    <2>1. PICK indices \in Seq(Int), current \in Int : indices = c.nullableIndices /\ current = c.currentNullable
      BY DEF SchemaOver
    <2>2. Append(indices, current + 1) \in Seq(Int) /\ Append(indices, -1) \in Seq(Int)
      BY AppendFacts
    <2>3. CASE t.nullable
      <3>1. PICK nullables \in Nat, place \in Int, places \in Seq(Int) :
              nullables = c.nullables + 1 /\ place = current + 1 /\ places = Append(indices, current + 1)
        <4>1. c.nullables + 1 \in Nat
          BY SchemaFields
        <4>2. current + 1 \in Int /\ Append(indices, current + 1) \in Seq(Int)
          BY <2>1, <2>2
        <4> QED
          BY <4>1, <4>2
      <3>2. counted = [sized EXCEPT !.nullables = nullables, !.currentNullable = place, !.nullableIndices = places]
        BY <1>10, <1>11, <2>1, <2>3, <3>1 DEF CountNullable
      <3>3. counted.nullables = nullables /\ counted.currentNullable = place /\ counted.nullableIndices = places
        BY <1>10, <3>2 DEF SchemaOver
      <3>4. NullableCounted(c, counted, t)
        BY <2>1, <2>3, <3>1, <3>3 DEF NullableCounted
      <3> QED
        BY <1>10, <3>2, <3>4 DEF SchemaOver
    <2>4. CASE ~t.nullable
      <3>1. PICK places \in Seq(Int) : places = Append(indices, -1)
        BY <2>2
      <3>2. counted = [sized EXCEPT !.nullableIndices = places]
        BY <1>10, <1>11, <2>1, <2>4, <3>1 DEF CountNullable
      <3>3. /\ counted.nullables = c.nullables /\ counted.currentNullable = c.currentNullable
            /\ counted.nullableIndices = places
        BY <1>10, <3>2 DEF SchemaOver
      <3>4. NullableCounted(c, counted, t)
        BY <2>1, <2>4, <3>1, <3>3 DEF NullableCounted
      <3> QED
        BY <1>10, <3>2, <3>4 DEF SchemaOver
    <2> QED
      BY <2>3, <2>4
  <1>13. PICK lengths \in Seq(Nat) : lengths = [Resize(c.maxLengths, n + 1, 0) EXCEPT ![n + 1] = most]
    <2>1. PICK s \in Seq(Nat), m \in Nat : s = c.maxLengths /\ m = n + 1 /\ m > 0
      <3>1. c.maxLengths \in Seq(Nat) /\ n + 1 \in Nat /\ n + 1 > 0
        BY SchemaFields
      <3> QED
        BY <3>1
    <2>2. [Resize(s, m, 0) EXCEPT ![m] = most] \in Seq(Nat)
      BY <2>1, LengthPutFacts DEF LengthPut
    <2> QED
      BY <2>1, <2>2
  <1>14. PICK d : d = [counted EXCEPT !.maxLengths = lengths]
    OBVIOUS
  <1>15. /\ d \in SchemaOver(more) /\ d.maxLengths = lengths
         /\ d.maximum = c.maximum + most /\ d.minimum = c.minimum + least
         /\ d.estimated = c.estimated + likely
         /\ d.vector = laid.vector /\ d.byName = laid.byName /\ d.temporary = c.temporary
         /\ d.nullables = counted.nullables /\ d.currentNullable = counted.currentNullable
         /\ d.nullableIndices = counted.nullableIndices
         /\ d.variables = laid.variables /\ d.currentVariable = laid.currentVariable
         /\ d.variableIndices = laid.variableIndices /\ d.maximumVariable = laid.maximumVariable
         /\ d.minimumVariable = laid.minimumVariable /\ d.minimumNonNullable = laid.minimumNonNullable
         /\ d.estimatedVariable = laid.estimatedVariable /\ d.offsets = laid.offsets
         /\ d.fixed = laid.fixed
    BY <1>12, <1>13, <1>14 DEF SchemaOver
  <1>16. AddAttribute(c, a) = d
    <2>1. laid = IF IsVariableLength(a.type) THEN AddVariable(named, a.type) ELSE AddFixed(named, a.type, n)
      BY <1>2, <1>7
    <2>2. sized = [laid EXCEPT !.maximum = @ + MaximumByteLength(a.type), !.minimum = @ + MinimumByteLength(a.type),
                               !.estimated = @ + EstimateAverageByteLength(a.type)]
      BY <1>2, <1>3, <1>9
    <2>3. d = [CountNullable(sized, a.type) EXCEPT
                 !.maxLengths = [Resize(@, n + 1, 0) EXCEPT ![n + 1] = MaximumByteLength(a.type)]]
      BY <1>2, <1>3, <1>11, <1>12, <1>13, <1>14
    <2> QED
      BY <1>1, <1>5, <2>1, <2>2, <2>3, ZenonT(60) DEF AddAttribute
  <1>17. AttributeAdded(c, d, a)
    <2>1. d.vector.elements = Append(c.vector.elements, [a EXCEPT !.id = Len(c.vector.elements)])
      BY <1>1, <1>6, <1>8, <1>15
    <2>2. d.byName = Mapped(c.byName, LowerOf(a.name), Len(c.vector.elements)) /\ d.temporary = c.temporary
      BY <1>1, <1>6, <1>8, <1>15
    <2>3. IF IsVariableLength(t) THEN VariableAdded(c, d, t) ELSE FixedAdded(c, d, t)
      BY <1>8, <1>15 DEF VariableAdded, FixedAdded
    <2>4. NullableCounted(c, d, t)
      BY <1>12, <1>15 DEF NullableCounted
    <2>5. TotalsAdded(c, d, t)
      BY <1>1, <1>3, <1>13, <1>15 DEF TotalsAdded
    <2> QED
      BY <1>2, <2>1, <2>2, <2>3, <2>4, <2>5 DEF AttributeAdded
  <1> QED
    BY <1>4, <1>15, <1>16, <1>17

\* Counting the ids of a set in order: those that have been counted below k.
Below(S, k) == {j \in S : j < k}
RankIn(S, id) == IF id \in S THEN Cardinality(Below(S, id)) ELSE -1
Counted(count, current, indices, S, k) ==
  /\ count = Cardinality(Below(S, k)) /\ current = count - 1
  /\ Len(indices) = k /\ \A id \in 0..(k - 1) : indices[id + 1] = RankIn(S, id)

NextBelow(S, k) ==
  /\ k \notin Below(S, k)
  /\ k \in S => Below(S, k + 1) = Below(S, k) \cup {k}
  /\ k \notin S => Below(S, k + 1) = Below(S, k)
LEMMA BelowNext ==
  ASSUME NEW n \in Nat, NEW S \in SUBSET (0..(n - 1)), NEW k \in 0..(n - 1)
  PROVE  NextBelow(S, k)
  <1>1. \A j \in S : j \in Nat /\ (j < k + 1 <=> j < k \/ j = k) /\ (j = k => ~(j < k))
    BY SMT
  <1> QED
    BY <1>1 DEF Below, NextBelow

LEMMA BelowFacts ==
  ASSUME NEW n \in Nat, NEW S \in SUBSET (0..(n - 1)), NEW k \in 0..(n - 1)
  PROVE  /\ Cardinality(Below(S, k)) \in Nat
         /\ k \in S => Cardinality(Below(S, k + 1)) = Cardinality(Below(S, k)) + 1
         /\ k \notin S => Below(S, k + 1) = Below(S, k)
  <1>1. PICK A, B : A = Below(S, k) /\ B = Below(S, k + 1)
    OBVIOUS
  <1>2. IsFiniteSet(A)
    <2>1. IsFiniteSet(0..(n - 1))
      BY FS_Interval
    <2>2. A \subseteq 0..(n - 1)
      BY <1>1 DEF Below
    <2> QED
      BY <2>1, <2>2, FS_Subset
  <1>3. k \notin A /\ (k \in S => B = A \cup {k}) /\ (k \notin S => B = A)
    BY <1>1, BelowNext DEF NextBelow
  <1>4. Cardinality(A) \in Nat /\ Cardinality(A \cup {k}) = Cardinality(A) + 1
    BY <1>2, <1>3, FS_CardinalityType, FS_AddElement
  <1> QED
    BY <1>1, <1>3, <1>4

\* One more id is counted, or is not in the set.
LEMMA CountStep ==
  ASSUME NEW n \in Nat, NEW S \in SUBSET (0..(n - 1)), NEW k \in 0..(n - 1),
         NEW count, NEW current, NEW indices \in Seq(Int), Counted(count, current, indices, S, k),
         NEW count2, NEW current2, NEW indices2,
         k \in S => count2 = count + 1 /\ current2 = current + 1 /\ indices2 = Append(indices, current + 1),
         k \notin S => count2 = count /\ current2 = current /\ indices2 = Append(indices, -1)
  PROVE  Counted(count2, current2, indices2, S, k + 1)
  <1>1. PICK c \in Nat : c = Cardinality(Below(S, k)) /\ count = c /\ current = c - 1
    BY BelowFacts DEF Counted
  <1>2. PICK x \in Int : x = (IF k \in S THEN c ELSE -1) /\ indices2 = Append(indices, x)
    BY <1>1
  <1>3. Len(indices2) = k + 1 /\ \A j \in 1..(k + 1) : indices2[j] = IF j = k + 1 THEN x ELSE indices[j]
    <2>1. Len(indices) = k
      BY DEF Counted
    <2>2. PICK I : I = Int
      OBVIOUS
    <2>3. indices \in Seq(I) /\ x \in I
      BY <2>2
    <2>4. /\ Len(Append(indices, x)) = Len(indices) + 1
          /\ \A j \in 1..(Len(indices) + 1) : Append(indices, x)[j] = IF j = Len(indices) + 1 THEN x ELSE indices[j]
      BY <2>3, AppendFacts
    <2> QED
      BY <1>2, <2>1, <2>4
  <1>4. ASSUME NEW id \in 0..k PROVE indices2[id + 1] = RankIn(S, id)
    <2>1. CASE id = k
      BY <1>1, <1>2, <1>3, <2>1 DEF RankIn
    <2>2. CASE id # k
      BY <1>3, <2>2 DEF Counted
    <2> QED
      BY <2>1, <2>2
  <1>5. count2 = Cardinality(Below(S, k + 1)) /\ current2 = count2 - 1
    <2>0. PICK d : d = Cardinality(Below(S, k + 1))
      OBVIOUS
    <2>1. CASE k \in S
      <3>1. d = c + 1
        BY <1>1, <2>0, <2>1, BelowFacts
      <3> QED
        BY <1>1, <2>0, <2>1, <3>1
    <2>2. CASE k \notin S
      <3>1. d = c
        BY <1>1, <2>0, <2>2, BelowFacts
      <3> QED
        BY <1>1, <2>0, <2>2, <3>1
    <2> QED
      BY <2>1, <2>2
  <1>6. \A id \in 0..(k + 1 - 1) : indices2[id + 1] = RankIn(S, id)
    BY <1>4
  <1> QED
    BY <1>3, <1>5, <1>6 DEF Counted

\* How far the fixed part is laid out: the places below k of a set take its bytes, each once.
BytesAt(offsets, lengths, id) == offsets[id + 1]..(offsets[id + 1] + lengths[id + 1] - 1)
LaidOut(offsets, lengths, fixed, F, k) ==
  /\ Len(lengths) = k /\ Len(offsets) <= k
  /\ \A id \in Below(F, k) : id < Len(offsets) /\ offsets[id + 1] + lengths[id + 1] <= fixed
  /\ \A byte \in 0..(fixed - 1) : \E id \in Below(F, k) : byte \in BytesAt(offsets, lengths, id)
  /\ \A id, other \in Below(F, k) :
       id # other => BytesAt(offsets, lengths, id) \cap BytesAt(offsets, lengths, other) = {}

\* One more attribute is laid out behind the others, or takes no fixed bytes.
LEMMA LayoutStep ==
  ASSUME NEW n \in Nat, NEW F \in SUBSET (0..(n - 1)), NEW k \in 0..(n - 1),
         NEW offsets \in Seq(Nat), NEW lengths \in Seq(Nat), NEW fixed \in Nat, NEW most \in Nat,
         LaidOut(offsets, lengths, fixed, F, k), NEW offsets2, NEW lengths2, NEW fixed2,
         lengths2 = [Resize(lengths, k + 1, 0) EXCEPT ![k + 1] = most],
         k \in F => offsets2 = Resize(offsets, k + 1, fixed) /\ fixed2 = fixed + most,
         k \notin F => offsets2 = offsets /\ fixed2 = fixed
  PROVE  LaidOut(offsets2, lengths2, fixed2, F, k + 1)
  <1>0. NextBelow(F, k)
    BY BelowNext
  <1>1. PICK N : N = Nat
    OBVIOUS
  <1>2. PICK m \in Nat : m = k + 1
    OBVIOUS
  <1>3. Len(lengths2) = m /\ lengths2[m] = most /\ \A i \in 1..k : lengths2[i] = lengths[i]
    <2>1. lengths \in Seq(N) /\ most \in N /\ 0 \in N /\ m > 0 /\ Len(lengths) = k
      BY <1>1, <1>2 DEF LaidOut
    <2>2. lengths2 = [Resize(lengths, m, 0) EXCEPT ![m] = most]
      BY <1>2
    <2>3. Len(lengths2) = m /\ lengths2[m] = most /\ \A i \in 1..(m - 1) : i <= Len(lengths) => lengths2[i] = lengths[i]
      <3>1. LengthPut([Resize(lengths, m, 0) EXCEPT ![m] = most], N, lengths, m, most)
        BY <2>1, LengthPutFacts
      <3> QED
        BY <2>2, <3>1 DEF LengthPut
    <2> QED
      BY <1>2, <2>1, <2>3
  <1>4. PICK size \in 0..k : size = Len(offsets)
    BY DEF LaidOut
  <1>5. ASSUME k \in F
        PROVE  Len(offsets2) = m /\ offsets2[m] = fixed /\ \A i \in 1..size : offsets2[i] = offsets[i]
    <2>1. offsets \in Seq(N) /\ fixed \in N
      BY <1>1
    <2>2. Resized(Resize(offsets, m, fixed), N, offsets, m, fixed)
      BY <2>1, ResizeFacts
    <2>3. offsets2 = Resize(offsets, m, fixed)
      BY <1>2, <1>5
    <2>4. /\ Len(offsets2) = m
          /\ \A i \in 1..m : (i <= size => offsets2[i] = offsets[i]) /\ (i > size => offsets2[i] = fixed)
      BY <1>4, <2>2, <2>3 DEF Resized
    <2> QED
      BY <1>2, <1>4, <2>4
  <1>6. ASSUME NEW id \in Below(F, k)
        PROVE  /\ id \in 0..(k - 1) /\ id < size /\ id < Len(offsets2)
               /\ offsets2[id + 1] = offsets[id + 1] /\ lengths2[id + 1] = lengths[id + 1]
               /\ BytesAt(offsets2, lengths2, id) = BytesAt(offsets, lengths, id)
               /\ offsets[id + 1] \in Nat /\ lengths[id + 1] \in Nat
               /\ offsets[id + 1] + lengths[id + 1] <= fixed
    <2>1. id \in 0..(k - 1) /\ id \in F
      BY DEF Below
    <2>2. id < size /\ offsets[id + 1] + lengths[id + 1] <= fixed /\ Len(lengths) = k
      BY <1>4 DEF LaidOut
    <2>3. id + 1 \in 1..size /\ id + 1 \in 1..k
      BY <2>1, <2>2
    <2>4. offsets[id + 1] \in Nat /\ lengths[id + 1] \in Nat
      BY <1>4, <2>2, <2>3
    <2>5. offsets2[id + 1] = offsets[id + 1] /\ id < Len(offsets2)
      <3>1. CASE k \in F
        BY <1>2, <1>4, <1>5, <2>1, <2>3, <3>1
      <3>2. CASE k \notin F
        BY <1>4, <2>2, <3>2
      <3> QED
        BY <3>1, <3>2
    <2>6. lengths2[id + 1] = lengths[id + 1]
      BY <1>3, <2>3
    <2> QED
      BY <2>1, <2>2, <2>4, <2>5, <2>6 DEF BytesAt
  <1>7. CASE k \in F
    <2>1. Below(F, k + 1) = Below(F, k) \cup {k} /\ k \notin Below(F, k)
      BY <1>0, <1>7 DEF NextBelow
    <2>2. BytesAt(offsets2, lengths2, k) = fixed..(fixed + most - 1) /\ k < Len(offsets2)
      BY <1>2, <1>3, <1>5, <1>7 DEF BytesAt
    <2>3. \A id \in Below(F, k + 1) : id < Len(offsets2) /\ offsets2[id + 1] + lengths2[id + 1] <= fixed + most
      <3>1. ASSUME NEW id \in Below(F, k)
            PROVE  id < Len(offsets2) /\ offsets2[id + 1] + lengths2[id + 1] <= fixed + most
        <4>1. PICK p, q \in Nat : p = offsets2[id + 1] /\ q = lengths2[id + 1] /\ p + q <= fixed
          BY <1>6
        <4> QED
          BY <1>6, <4>1, SMTT(20)
      <3>2. offsets2[k + 1] + lengths2[k + 1] <= fixed + most
        BY <1>2, <1>3, <1>5, <1>7
      <3> QED
        BY <2>1, <2>2, <3>1, <3>2
    <2>4. ASSUME NEW byte \in 0..(fixed + most - 1)
          PROVE  \E id \in Below(F, k + 1) : byte \in BytesAt(offsets2, lengths2, id)
      <3>1. CASE byte < fixed
        <4>1. PICK id \in Below(F, k) : byte \in BytesAt(offsets, lengths, id)
          BY <3>1 DEF LaidOut
        <4>2. byte \in BytesAt(offsets2, lengths2, id) /\ id \in Below(F, k + 1)
          BY <1>6, <2>1, <4>1
        <4> QED
          BY <4>2
      <3>2. CASE byte >= fixed
        <4>1. byte \in BytesAt(offsets2, lengths2, k) /\ k \in Below(F, k + 1)
          BY <2>1, <2>2, <3>2
        <4> QED
          BY <4>1
      <3>3. byte < fixed \/ byte >= fixed
        OBVIOUS
      <3> QED
        BY <3>1, <3>2, <3>3, Zenon
    <2>5. ASSUME NEW id \in Below(F, k)
          PROVE  BytesAt(offsets2, lengths2, id) \cap BytesAt(offsets2, lengths2, k) = {}
      <3>1. /\ BytesAt(offsets2, lengths2, id) = offsets[id + 1]..(offsets[id + 1] + lengths[id + 1] - 1)
            /\ offsets[id + 1] \in Nat /\ lengths[id + 1] \in Nat
            /\ offsets[id + 1] + lengths[id + 1] <= fixed
        BY <1>6 DEF BytesAt
      <3> QED
        BY <2>2, <3>1, SMTT(30)
    <2>6. ASSUME NEW id \in Below(F, k + 1), NEW other \in Below(F, k + 1), id # other
          PROVE  BytesAt(offsets2, lengths2, id) \cap BytesAt(offsets2, lengths2, other) = {}
      <3>1. CASE id \in Below(F, k) /\ other \in Below(F, k)
        <4>1. BytesAt(offsets, lengths, id) \cap BytesAt(offsets, lengths, other) = {}
          BY <2>6, <3>1 DEF LaidOut
        <4> QED
          BY <1>6, <3>1, <4>1
      <3>2. CASE id \in Below(F, k) /\ other = k
        BY <2>5, <3>2
      <3>3. CASE id = k /\ other \in Below(F, k)
        BY <2>5, <3>3
      <3> QED
        BY <2>1, <2>6, <3>1, <3>2, <3>3
    <2>7. fixed2 = fixed + most /\ Len(offsets2) = k + 1 /\ Len(lengths2) = k + 1
      BY <1>2, <1>3, <1>5, <1>7
    <2>8. \A byte \in 0..(fixed2 - 1) : \E id \in Below(F, k + 1) : byte \in BytesAt(offsets2, lengths2, id)
      <3>1. \A byte \in 0..(fixed + most - 1) : \E id \in Below(F, k + 1) : byte \in BytesAt(offsets2, lengths2, id)
        BY <2>4
      <3>2. 0..(fixed2 - 1) = 0..(fixed + most - 1)
        BY <2>7
      <3> QED
        BY <3>1, <3>2, Zenon
    <2>9. \A id, other \in Below(F, k + 1) :
            id # other => BytesAt(offsets2, lengths2, id) \cap BytesAt(offsets2, lengths2, other) = {}
      BY <2>6, Zenon
    <2>10. /\ Len(lengths2) = k + 1 /\ Len(offsets2) <= k + 1
           /\ \A id \in Below(F, k + 1) : id < Len(offsets2) /\ offsets2[id + 1] + lengths2[id + 1] <= fixed2
      BY <2>3, <2>7
    <2> QED
      BY <2>8, <2>9, <2>10, Zenon DEF LaidOut
  <1>8. CASE k \notin F
    <2>1. Below(F, k + 1) = Below(F, k)
      BY <1>0, <1>8 DEF NextBelow
    <2>2. fixed2 = fixed /\ Len(offsets2) <= k + 1 /\ Len(lengths2) = k + 1
      BY <1>2, <1>3, <1>4, <1>8
    <2>3. \A id \in Below(F, k) : id < Len(offsets2) /\ offsets2[id + 1] + lengths2[id + 1] <= fixed
      BY <1>6
    <2>4. ASSUME NEW byte \in 0..(fixed - 1)
          PROVE  \E id \in Below(F, k) : byte \in BytesAt(offsets2, lengths2, id)
      <3>1. PICK id \in Below(F, k) : byte \in BytesAt(offsets, lengths, id)
        BY DEF LaidOut
      <3> QED
        BY <1>6, <3>1
    <2>5. ASSUME NEW id \in Below(F, k), NEW other \in Below(F, k), id # other
          PROVE  BytesAt(offsets2, lengths2, id) \cap BytesAt(offsets2, lengths2, other) = {}
      <3>1. BytesAt(offsets, lengths, id) \cap BytesAt(offsets, lengths, other) = {}
        BY <2>5 DEF LaidOut
      <3> QED
        BY <1>6, <3>1
    <2>6. \A byte \in 0..(fixed2 - 1) : \E id \in Below(F, k + 1) : byte \in BytesAt(offsets2, lengths2, id)
      BY <2>1, <2>2, <2>4, Zenon
    <2>7. \A id, other \in Below(F, k + 1) :
            id # other => BytesAt(offsets2, lengths2, id) \cap BytesAt(offsets2, lengths2, other) = {}
      BY <2>1, <2>5, Zenon
    <2>8. /\ Len(lengths2) = k + 1 /\ Len(offsets2) <= k + 1
          /\ \A id \in Below(F, k + 1) : id < Len(offsets2) /\ offsets2[id + 1] + lengths2[id + 1] <= fixed2
      BY <2>1, <2>2, <2>3
    <2> QED
      BY <2>6, <2>7, <2>8, Zenon DEF LaidOut
  <1> QED
    BY <1>7, <1>8

\* What a schema is when it has been given the first k of n attributes.
LowerNames(k) == {LowerOf(AttributeNames[i]) : i \in 1..k}
NumberedAttribute(i, types, displayed) == [AttributeOf(i, types[i], displayed) EXCEPT !.id = i - 1]
VariableIds(types, n) == {id \in 0..(n - 1) : types[id + 1].id = "VarChar"}
NullableIds(types, n) == {id \in 0..(n - 1) : types[id + 1].nullable}
FixedIds(types, n)    == (0..(n - 1)) \ VariableIds(types, n)
Listed(s, types, temporary, displayed, k) ==
  /\ s \in SchemaOver(LowerNames(k)) /\ s.temporary = temporary
  /\ Len(s.vector.elements) = k
  /\ \A i \in 1..k : s.vector.elements[i] = NumberedAttribute(i, types, displayed)
  /\ \A i \in 1..k : s.byName[LowerOf(AttributeNames[i])] = i - 1
Summed(s) ==
  /\ s.maximum = s.fixed + s.maximumVariable /\ s.minimum = s.fixed + s.minimumVariable
  /\ s.estimated = s.fixed + s.estimatedVariable /\ s.minimumNonNullable <= s.minimumVariable
Described(s, types, temporary, displayed, n, k) ==
  /\ Listed(s, types, temporary, displayed, k)
  /\ Counted(s.variables, s.currentVariable, s.variableIndices, VariableIds(types, n), k)
  /\ Counted(s.nullables, s.currentNullable, s.nullableIndices, NullableIds(types, n), k)
  /\ LaidOut(s.offsets, s.maxLengths, s.fixed, FixedIds(types, n), k)
  /\ Summed(s)

LEMMA AttributeTyped ==
  ASSUME NEW i \in DOMAIN AttributeNames, NEW type \in RelationTypes, NEW displayed
  PROVE  /\ AttributeOf(i, type, displayed) \in RelationAttributes
         /\ AttributeOf(i, type, displayed).name = AttributeNames[i]
         /\ AttributeOf(i, type, displayed).type = type
  <1>1. PICK shown : shown = (IF displayed THEN "shown" ELSE NoName) /\ shown \in {NoName, "shown"}
    OBVIOUS
  <1>2. PICK a : a = AttributeOf(i, type, displayed) /\ a = [id |-> -1, name |-> AttributeNames[i], type |-> type, display |-> shown]
    BY <1>1 DEF AttributeOf, Attribute
  <1>3. a \in RelationAttributes /\ a.name = AttributeNames[i] /\ a.type = type
    BY <1>1, <1>2 DEF RelationAttributes
  <1> QED
    BY <1>2, <1>3

LEMMA ListedStep ==
  ASSUME NEW types, NEW temporary, NEW displayed, NEW k \in Nat, k + 1 <= Len(AttributeNames),
         NEW c, Listed(c, types, temporary, displayed, k), types[k + 1] \in RelationTypes,
         NEW a, a = AttributeOf(k + 1, types[k + 1], displayed), NEW d, d = AddAttribute(c, a)
  PROVE  /\ Listed(d, types, temporary, displayed, k + 1) /\ AttributeAdded(c, d, a)
  <1>1. k + 1 \in DOMAIN AttributeNames /\ \A i \in 1..(k + 1) : i \in DOMAIN AttributeNames
    BY StructuresAssumption
  <1>2. a \in RelationAttributes /\ a.name = AttributeNames[k + 1] /\ a.type = types[k + 1]
    BY <1>1, AttributeTyped
  <1>3. c \in SchemaOver(LowerNames(k))
    BY DEF Listed
  <1>4. d \in SchemaOver(LowerNames(k) \cup {LowerOf(a.name)}) /\ AttributeAdded(c, d, a)
    BY <1>2, <1>3, AddAttributeFacts
  <1>5. LowerNames(k + 1) = LowerNames(k) \cup {LowerOf(a.name)}
    <2>1. 1..(k + 1) = 1..k \cup {k + 1}
      OBVIOUS
    <2> QED
      BY <1>2, <2>1 DEF LowerNames
  <1>6. PICK e \in Seq(RelationAttributes), b \in RelationAttributes :
          /\ e = c.vector.elements /\ Len(e) = k /\ b = NumberedAttribute(k + 1, types, displayed)
          /\ d.vector.elements = Append(e, b)
    <2>1. c.vector.elements \in Seq(RelationAttributes)
      BY <1>3, SchemaFields
    <2>2. Len(c.vector.elements) = k
      BY DEF Listed
    <2>3. [a EXCEPT !.id = k] \in RelationAttributes
      BY <1>2 DEF RelationAttributes
    <2>4. NumberedAttribute(k + 1, types, displayed) = [a EXCEPT !.id = k]
      <3>1. k + 1 - 1 = k
        OBVIOUS
      <3> QED
        BY <3>1 DEF NumberedAttribute
    <2>5. d.vector.elements = Append(c.vector.elements, [a EXCEPT !.id = k])
      BY <1>4, <2>2 DEF AttributeAdded
    <2> QED
      BY <2>1, <2>2, <2>3, <2>4, <2>5
  <1>7. /\ Len(d.vector.elements) = k + 1
        /\ \A i \in 1..(k + 1) : d.vector.elements[i] = NumberedAttribute(i, types, displayed)
    <2>1. /\ Len(Append(e, b)) = k + 1
          /\ \A j \in 1..(k + 1) : Append(e, b)[j] = IF j = k + 1 THEN b ELSE e[j]
      BY <1>6, AppendFacts
    <2>2. \A i \in 1..k : e[i] = NumberedAttribute(i, types, displayed)
      BY <1>6 DEF Listed
    <2>3. ASSUME NEW i \in 1..(k + 1) PROVE Append(e, b)[i] = NumberedAttribute(i, types, displayed)
      <3>1. CASE i = k + 1
        BY <1>6, <2>1, <3>1
      <3>2. CASE i # k + 1
        <4>1. i \in 1..k
          BY <3>2
        <4> QED
          BY <2>1, <2>2, <3>2, <4>1
      <3> QED
        BY <3>1, <3>2
    <2> QED
      BY <1>6, <2>1, <2>3
  <1>8. ASSUME NEW i \in 1..(k + 1) PROVE d.byName[LowerOf(AttributeNames[i])] = i - 1
    <2>1. PICK f : f = c.byName /\ DOMAIN f = LowerNames(k) /\ \A j \in 1..k : f[LowerOf(AttributeNames[j])] = j - 1
      <3>1. c.byName \in [LowerNames(k) -> Nat]
        BY <1>3, SchemaFields
      <3>2. \A j \in 1..k : c.byName[LowerOf(AttributeNames[j])] = j - 1
        BY DEF Listed
      <3> QED
        BY <3>1, <3>2
    <2>2. d.byName = [x \in LowerNames(k) \cup {LowerOf(AttributeNames[k + 1])} |->
                        IF x = LowerOf(AttributeNames[k + 1]) THEN k ELSE f[x]]
      <3>1. d.byName = Mapped(c.byName, LowerOf(a.name), k)
        BY <1>4, <1>6 DEF AttributeAdded
      <3>2. PICK name : name = LowerOf(AttributeNames[k + 1])
        OBVIOUS
      <3>3. d.byName = [x \in LowerNames(k) \cup {name} |-> IF x = name THEN k ELSE f[x]]
        <4>1. d.byName = Mapped(f, name, k)
          BY <1>2, <2>1, <3>1, <3>2
        <4> QED
          BY <2>1, <4>1, Zenon DEF Mapped
      <3> QED
        BY <3>2, <3>3
    <2>3. CASE i = k + 1
      BY <2>2, <2>3
    <2>4. CASE i # k + 1
      <3>1. i \in 1..k
        BY <2>4
      <3>2. LowerOf(AttributeNames[i]) \in LowerNames(k)
        BY <3>1 DEF LowerNames
      <3>3. LowerOf(AttributeNames[i]) # LowerOf(AttributeNames[k + 1])
        <4>1. i \in DOMAIN AttributeNames
          BY <1>1
        <4> QED
          BY <1>1, <2>4, <4>1, StructuresAssumption
      <3> QED
        BY <2>1, <2>2, <3>1, <3>2, <3>3
    <2> QED
      BY <2>3, <2>4
  <1>9. d.temporary = temporary
    BY <1>4 DEF AttributeAdded, Listed
  <1>10. Listed(d, types, temporary, displayed, k + 1)
    BY <1>4, <1>5, <1>7, <1>8, <1>9 DEF Listed
  <1> QED
    BY <1>4, <1>10

\* The sums are those of the attributes so far.
LEMMA SummedStep ==
  ASSUME NEW names, NEW c \in SchemaOver(names), NEW more, NEW d \in SchemaOver(more), NEW a, a.type \in RelationTypes,
         AttributeAdded(c, d, a), Summed(c)
  PROVE  Summed(d)
  <1>1. PICK t \in RelationTypes : t = a.type
    OBVIOUS
  <1>2. PICK most, least, likely \in Nat : /\ most = MaximumByteLength(t) /\ least = MinimumByteLength(t)
                                           /\ likely = EstimateAverageByteLength(t)
    BY LengthFacts
  <1>3. PICK maximum, minimum, estimated, fixed, longest, shortest, free, usual \in Nat :
          /\ maximum = c.maximum /\ minimum = c.minimum /\ estimated = c.estimated /\ fixed = c.fixed
          /\ longest = c.maximumVariable /\ shortest = c.minimumVariable /\ free = c.minimumNonNullable
          /\ usual = c.estimatedVariable
    BY SchemaFields
  <1>4. maximum = fixed + longest /\ minimum = fixed + shortest /\ estimated = fixed + usual /\ free <= shortest
    BY <1>3 DEF Summed
  <1>5. d.maximum = maximum + most /\ d.minimum = minimum + least /\ d.estimated = estimated + likely
    BY <1>1, <1>2, <1>3 DEF AttributeAdded, TotalsAdded
  <1>6. CASE IsVariableLength(t)
    <2>1. VariableAdded(c, d, t)
      BY <1>1, <1>6 DEF AttributeAdded
    <2>2. PICK bytes \in 0..least : bytes = IF t.nullable THEN 0 ELSE least
      OBVIOUS
    <2>3. /\ d.fixed = fixed /\ d.maximumVariable = longest + most /\ d.minimumVariable = shortest + least
          /\ d.estimatedVariable = usual + likely /\ d.minimumNonNullable = free + bytes
      BY <1>2, <1>3, <2>1, <2>2 DEF VariableAdded
    <2> QED
      BY <1>4, <1>5, <2>3 DEF Summed
  <1>7. CASE ~IsVariableLength(t)
    <2>1. FixedAdded(c, d, t)
      BY <1>1, <1>7 DEF AttributeAdded
    <2>2. least = most /\ likely = most
      BY <1>2, <1>7, LengthFacts
    <2>3. /\ d.fixed = fixed + most /\ d.maximumVariable = longest /\ d.minimumVariable = shortest
          /\ d.estimatedVariable = usual /\ d.minimumNonNullable = free
      BY <1>2, <1>3, <2>1 DEF FixedAdded
    <2> QED
      BY <1>4, <1>5, <2>2, <2>3 DEF Summed
  <1> QED
    BY <1>6, <1>7

\* addAttribute() hands the description on to the next attribute.
LEMMA DescribedStep ==
  ASSUME NEW types, NEW temporary, NEW displayed, NEW n \in Nat, n <= Len(AttributeNames), NEW k \in 0..(n - 1),
         \A i \in 1..n : types[i] \in RelationTypes,
         NEW c, Described(c, types, temporary, displayed, n, k)
  PROVE  Described(AddAttribute(c, AttributeOf(k + 1, types[k + 1], displayed)), types, temporary, displayed, n, k + 1)
  <1>1. PICK a, d, t : a = AttributeOf(k + 1, types[k + 1], displayed) /\ d = AddAttribute(c, a) /\ t = types[k + 1]
    OBVIOUS
  <1>2. t \in RelationTypes /\ k + 1 <= Len(AttributeNames) /\ k + 1 \in DOMAIN AttributeNames
    <2>1. k + 1 \in 1..n
      OBVIOUS
    <2> QED
      BY <1>1, <2>1, StructuresAssumption
  <1>3. Listed(d, types, temporary, displayed, k + 1) /\ AttributeAdded(c, d, a)
    BY <1>1, <1>2, ListedStep DEF Described
  <1>4. a.type = t
    BY <1>1, <1>2, AttributeTyped
  <1>5. c \in SchemaOver(LowerNames(k)) /\ d \in SchemaOver(LowerNames(k + 1)) /\ Len(c.vector.elements) = k
    BY <1>3 DEF Described, Listed
  <1>6. Summed(d)
    BY <1>2, <1>3, <1>4, <1>5, SummedStep DEF Described
  <1>7. /\ k \in VariableIds(types, n) <=> IsVariableLength(t)
        /\ k \in FixedIds(types, n) <=> ~IsVariableLength(t)
        /\ k \in NullableIds(types, n) <=> t.nullable
    BY <1>1, <1>2, LengthFacts DEF VariableIds, FixedIds, NullableIds
  <1>8. /\ VariableIds(types, n) \in SUBSET (0..(n - 1)) /\ FixedIds(types, n) \in SUBSET (0..(n - 1))
        /\ NullableIds(types, n) \in SUBSET (0..(n - 1))
    BY DEF VariableIds, FixedIds, NullableIds
  <1>9. Counted(d.variables, d.currentVariable, d.variableIndices, VariableIds(types, n), k + 1)
    <2>1. IsVariableLength(t) => /\ d.variables = c.variables + 1 /\ d.currentVariable = c.currentVariable + 1
                                 /\ d.variableIndices = Append(c.variableIndices, c.currentVariable + 1)
      BY <1>3, <1>4 DEF AttributeAdded, VariableAdded
    <2>2. ~IsVariableLength(t) => /\ d.variables = c.variables /\ d.currentVariable = c.currentVariable
                                  /\ d.variableIndices = Append(c.variableIndices, -1)
      BY <1>3, <1>4 DEF AttributeAdded, FixedAdded
    <2>3. c.variableIndices \in Seq(Int)
      BY <1>5, SchemaFields
    <2>4. Counted(c.variables, c.currentVariable, c.variableIndices, VariableIds(types, n), k)
      BY DEF Described
    <2>5. PICK S \in SUBSET (0..(n - 1)), indices \in Seq(Int) : S = VariableIds(types, n) /\ indices = c.variableIndices
      BY <1>8, <2>3
    <2>0. PICK count, current, indices2, count2, current2 :
            /\ count = c.variables /\ current = c.currentVariable
            /\ indices2 = d.variableIndices /\ count2 = d.variables /\ current2 = d.currentVariable
      OBVIOUS
    <2>6. /\ k \in S => count2 = count + 1 /\ current2 = current + 1 /\ indices2 = Append(indices, current + 1)
          /\ k \notin S => count2 = count /\ current2 = current /\ indices2 = Append(indices, -1)
      BY <1>7, <2>0, <2>1, <2>2, <2>5
    <2>7. Counted(count, current, indices, S, k)
      BY <2>0, <2>4, <2>5
    <2>8. Counted(count2, current2, indices2, S, k + 1)
      BY <2>6, <2>7, CountStep
    <2> QED
      BY <2>0, <2>5, <2>8
  <1>10. Counted(d.nullables, d.currentNullable, d.nullableIndices, NullableIds(types, n), k + 1)
    <2>1. t.nullable => /\ d.nullables = c.nullables + 1 /\ d.currentNullable = c.currentNullable + 1
                        /\ d.nullableIndices = Append(c.nullableIndices, c.currentNullable + 1)
      BY <1>3, <1>4 DEF AttributeAdded, NullableCounted
    <2>2. ~t.nullable => /\ d.nullables = c.nullables /\ d.currentNullable = c.currentNullable
                         /\ d.nullableIndices = Append(c.nullableIndices, -1)
      BY <1>3, <1>4 DEF AttributeAdded, NullableCounted
    <2>3. c.nullableIndices \in Seq(Int)
      BY <1>5, SchemaFields
    <2>4. Counted(c.nullables, c.currentNullable, c.nullableIndices, NullableIds(types, n), k)
      BY DEF Described
    <2>5. PICK S \in SUBSET (0..(n - 1)), indices \in Seq(Int) : S = NullableIds(types, n) /\ indices = c.nullableIndices
      BY <1>8, <2>3
    <2>0. PICK count, current, indices2, count2, current2 :
            /\ count = c.nullables /\ current = c.currentNullable
            /\ indices2 = d.nullableIndices /\ count2 = d.nullables /\ current2 = d.currentNullable
      OBVIOUS
    <2>6. /\ k \in S => count2 = count + 1 /\ current2 = current + 1 /\ indices2 = Append(indices, current + 1)
          /\ k \notin S => count2 = count /\ current2 = current /\ indices2 = Append(indices, -1)
      BY <1>7, <2>0, <2>1, <2>2, <2>5
    <2>7. Counted(count, current, indices, S, k)
      BY <2>0, <2>4, <2>5
    <2>8. Counted(count2, current2, indices2, S, k + 1)
      BY <2>6, <2>7, CountStep
    <2> QED
      BY <2>0, <2>5, <2>8
  <1>11. LaidOut(d.offsets, d.maxLengths, d.fixed, FixedIds(types, n), k + 1)
    <2>1. PICK most \in Nat : most = MaximumByteLength(t)
      BY <1>2, LengthFacts
    <2>2. d.maxLengths = [Resize(c.maxLengths, k + 1, 0) EXCEPT ![k + 1] = most]
      BY <1>3, <1>4, <1>5, <2>1 DEF AttributeAdded, TotalsAdded
    <2>3. ~IsVariableLength(t) => d.offsets = Resize(c.offsets, k + 1, c.fixed) /\ d.fixed = c.fixed + most
      BY <1>3, <1>4, <1>5, <2>1 DEF AttributeAdded, FixedAdded
    <2>4. IsVariableLength(t) => d.offsets = c.offsets /\ d.fixed = c.fixed
      BY <1>3, <1>4 DEF AttributeAdded, VariableAdded
    <2>5. c.offsets \in Seq(Nat) /\ c.maxLengths \in Seq(Nat) /\ c.fixed \in Nat
      BY <1>5, SchemaFields
    <2>6. LaidOut(c.offsets, c.maxLengths, c.fixed, FixedIds(types, n), k)
      BY DEF Described
    <2> QED
      BY <1>7, <1>8, <2>2, <2>3, <2>4, <2>5, <2>6, LayoutStep
  <1>12. Described(d, types, temporary, displayed, n, k + 1)
    BY <1>3, <1>6, <1>9, <1>10, <1>11 DEF Described
  <1> QED
    BY <1>1, <1>12

LEMMA NewSchemaFacts ==
  ASSUME NEW temporary \in BOOLEAN, NEW n \in Nat
  PROVE  LET s == NewSchema(7, "relation", temporary, n)
         IN  /\ s \in SchemaOver({}) /\ s.temporary = temporary /\ s.vector.elements = <<>> /\ s.byName = <<>>
             /\ s.nullables = 0 /\ s.variables = 0 /\ s.maximum = 0 /\ s.minimum = 0 /\ s.estimated = 0 /\ s.fixed = 0
             /\ s.maximumVariable = 0 /\ s.minimumVariable = 0 /\ s.minimumNonNullable = 0
             /\ s.estimatedVariable = 0 /\ s.offsets = <<>> /\ s.nullableIndices = <<>>
             /\ s.currentNullable = -1 /\ s.variableIndices = <<>> /\ s.currentVariable = -1
             /\ Len(s.maxLengths) = n
  <1>1. PICK e : /\ e = <<>> /\ e \in Seq(RelationAttributes) /\ e \in Seq(Nat) /\ e \in Seq(Int) /\ e \in [{} -> Nat]
    <2>1. /\ <<>> \in Seq(RelationAttributes) /\ <<>> \in Seq(Nat) /\ <<>> \in Seq(Int) /\ <<>> \in [{} -> Nat]
      OBVIOUS
    <2> QED
      BY <2>1, Zenon
  <1>2. PICK lengths \in Seq(Nat) : lengths = [i \in 1..n |-> 0] /\ Len(lengths) = n
    <2>1. [i \in 1..n |-> 0] \in Seq(Nat) /\ Len([i \in 1..n |-> 0]) = n
      OBVIOUS
    <2> QED
      BY <2>1
  <1>3. PICK v \in [elements : Seq(RelationAttributes), deleted : {<<>>}] : v = NewPtrVector /\ v.elements = <<>>
    <2>1. NewPtrVector \in [elements : Seq(RelationAttributes), deleted : {<<>>}] /\ NewPtrVector.elements = <<>>
      BY <1>1 DEF NewPtrVector
    <2> QED
      BY <2>1
  <1>4. PICK s : s = NewSchema(7, "relation", temporary, n)
    OBVIOUS
  <1>5. PICK minus \in Int : minus = -1
    OBVIOUS
  <1>6. s = [id |-> 7, name |-> "relation", temporary |-> temporary, vector |-> v, byName |-> e,
             nullables |-> 0, variables |-> 0,
             maximum |-> 0, minimum |-> 0, estimated |-> 0, fixed |-> 0,
             maximumVariable |-> 0, minimumVariable |-> 0, minimumNonNullable |-> 0, estimatedVariable |-> 0,
             offsets |-> e, maxLengths |-> lengths,
             nullableIndices |-> e, currentNullable |-> minus, variableIndices |-> e, currentVariable |-> minus]
    BY <1>1, <1>2, <1>3, <1>4, <1>5, Zenon DEF NewSchema
  <1>7. s \in SchemaOver({})
    BY <1>1, <1>6 DEF SchemaOver
  <1>8. /\ s.temporary = temporary /\ s.vector.elements = <<>> /\ s.byName = <<>>
        /\ s.nullables = 0 /\ s.variables = 0 /\ s.maximum = 0 /\ s.minimum = 0 /\ s.estimated = 0 /\ s.fixed = 0
        /\ s.maximumVariable = 0 /\ s.minimumVariable = 0 /\ s.minimumNonNullable = 0
        /\ s.estimatedVariable = 0 /\ s.offsets = <<>> /\ s.nullableIndices = <<>>
        /\ s.currentNullable = -1 /\ s.variableIndices = <<>> /\ s.currentVariable = -1
        /\ Len(s.maxLengths) = n
    BY <1>1, <1>2, <1>3, <1>5, <1>6
  <1> QED
    BY <1>4, <1>7, <1>8

LEMMA NothingCounted ==
  ASSUME NEW n \in Nat, NEW S \in SUBSET (0..(n - 1)), NEW indices, indices = <<>>
  PROVE  Counted(0, -1, indices, S, 0)
  <1>1. Below(S, 0) = {}
    <2>1. \A j \in S : j \in Nat /\ ~(j < 0)
      BY SMT
    <2> QED
      BY <2>1 DEF Below
  <1>2. Cardinality(Below(S, 0)) = 0
    BY <1>1, FS_EmptySet
  <1> QED
    BY <1>2 DEF Counted

LEMMA NewSchemaDescribed ==
  ASSUME NEW types, NEW temporary \in BOOLEAN, NEW displayed, NEW n \in Nat
  PROVE  Described(NewSchema(7, "relation", temporary, 0), types, temporary, displayed, n, 0)
  <1>1. PICK s : s = NewSchema(7, "relation", temporary, 0)
    OBVIOUS
  <1>2. /\ s \in SchemaOver({}) /\ s.temporary = temporary /\ s.vector.elements = <<>> /\ s.byName = <<>>
        /\ s.nullables = 0 /\ s.variables = 0 /\ s.maximum = 0 /\ s.minimum = 0 /\ s.estimated = 0 /\ s.fixed = 0
        /\ s.maximumVariable = 0 /\ s.minimumVariable = 0 /\ s.minimumNonNullable = 0
        /\ s.estimatedVariable = 0 /\ s.offsets = <<>> /\ s.nullableIndices = <<>>
        /\ s.currentNullable = -1 /\ s.variableIndices = <<>> /\ s.currentVariable = -1
        /\ Len(s.maxLengths) = 0
    <2>1. 0 \in Nat
      OBVIOUS
    <2> QED
      BY <1>1, <2>1, NewSchemaFacts, ZenonT(30)
  <1>3. Listed(s, types, temporary, displayed, 0)
    <2>1. 1..0 = {}
      OBVIOUS
    <2>2. LowerNames(0) = {} /\ Len(s.vector.elements) = 0
      BY <1>2, <2>1 DEF LowerNames
    <2>3. s \in SchemaOver(LowerNames(0)) /\ s.temporary = temporary
      BY <1>2, <2>2
    <2> QED
      BY <2>1, <2>2, <2>3, Zenon DEF Listed
  <1>4. Summed(s)
    BY <1>2 DEF Summed
  <1>5. /\ VariableIds(types, n) \in SUBSET (0..(n - 1)) /\ FixedIds(types, n) \in SUBSET (0..(n - 1))
        /\ NullableIds(types, n) \in SUBSET (0..(n - 1))
    BY DEF VariableIds, FixedIds, NullableIds
  <1>6. /\ Counted(0, -1, s.variableIndices, VariableIds(types, n), 0)
        /\ Counted(0, -1, s.nullableIndices, NullableIds(types, n), 0)
    BY <1>2, <1>5, NothingCounted
  <1>7. LaidOut(s.offsets, s.maxLengths, s.fixed, FixedIds(types, n), 0)
    <2>1. \A j \in FixedIds(types, n) : j \in Nat /\ ~(j < 0)
      BY DEF FixedIds
    <2>2. Below(FixedIds(types, n), 0) = {}
      BY <2>1 DEF Below
    <2>3. Len(s.offsets) = 0 /\ 0..(s.fixed - 1) = {}
      BY <1>2
    <2> QED
      BY <1>2, <2>2, <2>3 DEF LaidOut
  <1> QED
    BY <1>1, <1>2, <1>3, <1>4, <1>6, <1>7 DEF Described

\* So a schema is described, and as far as ids reach.
LEMMA SchemaDescribed ==
  ASSUME NEW m \in Nat, m <= Len(AttributeNames), NEW types \in [1..m -> RelationTypes],
         NEW temporary \in BOOLEAN, NEW displayed, NEW n, n = NumberIn(m), NEW at, at = SchemasOf(types, temporary, displayed)
  PROVE  /\ \A k \in 0..n : Described(at[k], types, temporary, displayed, n, k)
         /\ \A k \in 1..n : at[k] = AddAttribute(at[k - 1], AttributeOf(k, types[k], displayed))
         /\ at[m] = at[n] /\ at[0] = NewSchema(7, "relation", temporary, 0)
  <1>1. n \in 0..m /\ n <= kCatalogMaxID + 1 /\ (n < m => n = kCatalogMaxID + 1) /\ kCatalogMaxID \in Nat
    BY StructuresAssumption DEF NumberIn
  <1>2. Len(types) = m
    OBVIOUS
  <1>3. /\ at[0] = NewSchema(7, "relation", temporary, 0)
        /\ \A k \in 1..m : at[k] = IF ~CanAddAttribute(at[k - 1]) THEN at[k - 1]
                                   ELSE AddAttribute(at[k - 1], AttributeOf(k, types[k], displayed))
    BY <1>2, SchemasSteps
  <1> DEFINE Good == {k \in 0..n : /\ Described(at[k], types, temporary, displayed, n, k)
                                   /\ k > 0 => at[k] = AddAttribute(at[k - 1], AttributeOf(k, types[k], displayed))}
  <1>4. 0 \in Good
    BY <1>1, <1>3, NewSchemaDescribed
  <1>5. ASSUME NEW k \in 1..n, k - 1 \in Good PROVE k \in Good
    <2>1. PICK j \in 0..(n - 1) : j = k - 1 /\ k = j + 1
      BY <1>1
    <2>2. Described(at[j], types, temporary, displayed, n, j)
      BY <1>5, <2>1
    <2>3. CanAddAttribute(at[j])
      <3>1. Len(at[j].vector.elements) = j
        BY <2>2 DEF Described, Listed
      <3> QED
        BY <1>1, <2>1, <3>1 DEF CanAddAttribute
    <2>4. at[k] = AddAttribute(at[j], AttributeOf(k, types[k], displayed))
      <3>1. k \in 1..m
        BY <1>1
      <3> QED
        BY <1>3, <2>1, <2>3, <3>1
    <2>5. \A i \in 1..n : types[i] \in RelationTypes
      BY <1>1
    <2>6. Described(AddAttribute(at[j], AttributeOf(j + 1, types[j + 1], displayed)), types, temporary, displayed, n, j + 1)
      <3>1. n \in Nat /\ n <= Len(AttributeNames)
        <4>1. Len(AttributeNames) \in Nat
          BY StructuresAssumption
        <4> QED
          BY <1>1, <4>1
      <3> QED
        BY <2>2, <2>5, <3>1, DescribedStep
    <2> QED
      BY <2>1, <2>4, <2>6
  <1>6. \A k \in 0..n : k \in Good
    <2> HIDE DEF Good
    <2>1. \A k \in 1..n : k - 1 \in Good => k \in Good
      BY <1>5
    <2>2. n \in Nat
      BY <1>1
    <2> QED
      BY <1>4, <2>1, <2>2, UpTo, Zenon
  <1>7. at[m] = at[n]
    <2> DEFINE Same == {k \in 0..(m - n) : at[n + k] = at[n]}
    <2>1. 0 \in Same
      BY <1>1
    <2>2. ASSUME NEW k \in 1..(m - n), k - 1 \in Same PROVE k \in Same
      <3>1. at[n + (k - 1)] = at[n] /\ n = kCatalogMaxID + 1 /\ n + k \in 1..m /\ n + k - 1 = n + (k - 1)
        BY <1>1, <2>2
      <3>2. Len(at[n].vector.elements) = n
        <4>1. Described(at[n], types, temporary, displayed, n, n)
          BY <1>1, <1>6
        <4> QED
          BY <4>1 DEF Described, Listed
      <3>3. ~CanAddAttribute(at[n + k - 1])
        BY <1>1, <3>1, <3>2 DEF CanAddAttribute
      <3>4. at[n + k] = at[n + k - 1]
        BY <1>3, <3>1, <3>3
      <3> QED
        BY <3>1, <3>4
    <2>3. m - n \in Nat /\ n + (m - n) = m
      BY <1>1
    <2>4. \A k \in 0..(m - n) : k \in Same
      <3> HIDE DEF Same
      <3>1. \A k \in 1..(m - n) : k - 1 \in Same => k \in Same
        BY <2>2
      <3> QED
        BY <2>1, <2>3, <3>1, UpTo, Zenon
    <2>5. m - n \in Same
      BY <2>3, <2>4
    <2> QED
      BY <2>3, <2>5
  <1>8. \A k \in 1..n : at[k] = AddAttribute(at[k - 1], AttributeOf(k, types[k], displayed))
    BY <1>1, <1>6
  <1> QED
    BY <1>3, <1>6, <1>7, <1>8

\* Two schemas are the same if all they keep is.
LEMMA SameSchema ==
  ASSUME NEW names, NEW c \in SchemaOver(names), NEW d \in SchemaOver(names),
         c.temporary = d.temporary, c.vector = d.vector, c.byName = d.byName, c.nullables = d.nullables,
         c.variables = d.variables, c.maximum = d.maximum, c.minimum = d.minimum, c.estimated = d.estimated,
         c.fixed = d.fixed, c.maximumVariable = d.maximumVariable, c.minimumVariable = d.minimumVariable,
         c.minimumNonNullable = d.minimumNonNullable, c.estimatedVariable = d.estimatedVariable,
         c.offsets = d.offsets, c.maxLengths = d.maxLengths, c.nullableIndices = d.nullableIndices,
         c.currentNullable = d.currentNullable, c.variableIndices = d.variableIndices,
         c.currentVariable = d.currentVariable
  PROVE  c = d
  <1>1. c.id = d.id /\ c.name = d.name
    BY DEF SchemaOver
  <1>2. /\ DOMAIN c = {"id", "name", "temporary", "vector", "byName", "nullables", "variables", "maximum", "minimum",
                       "estimated", "fixed", "maximumVariable", "minimumVariable", "minimumNonNullable",
                       "estimatedVariable", "offsets", "maxLengths", "nullableIndices", "currentNullable",
                       "variableIndices", "currentVariable"}
        /\ DOMAIN d = DOMAIN c /\ c = [f \in DOMAIN c |-> c[f]] /\ d = [f \in DOMAIN d |-> d[f]]
    BY DEF SchemaOver
  <1>3. \A f \in DOMAIN c : c[f] = d[f]
    BY <1>1, <1>2
  <1> QED
    BY <1>2, <1>3

\* The first attribute makes the lengths that were allocated one.
LEMMA FirstAttribute ==
  ASSUME NEW temporary \in BOOLEAN, NEW n \in Nat, n > 0, NEW a \in RelationAttributes
  PROVE  AddAttribute(NewSchema(7, "relation", temporary, n), a) = AddAttribute(NewSchema(7, "relation", temporary, 0), a)
  <1>1. PICK c, z : c = NewSchema(7, "relation", temporary, 0) /\ z = NewSchema(7, "relation", temporary, n)
    OBVIOUS
  <1>2. /\ c \in SchemaOver({}) /\ z \in SchemaOver({}) /\ c.temporary = z.temporary
        /\ c.vector.elements = <<>> /\ z.vector.elements = <<>> /\ c.byName = z.byName
        /\ c.nullables = z.nullables /\ c.variables = z.variables /\ c.maximum = z.maximum
        /\ c.minimum = z.minimum /\ c.estimated = z.estimated /\ c.fixed = z.fixed
        /\ c.maximumVariable = z.maximumVariable /\ c.minimumVariable = z.minimumVariable
        /\ c.minimumNonNullable = z.minimumNonNullable /\ c.estimatedVariable = z.estimatedVariable
        /\ c.offsets = z.offsets /\ c.nullableIndices = z.nullableIndices
        /\ c.currentNullable = z.currentNullable /\ c.variableIndices = z.variableIndices
        /\ c.currentVariable = z.currentVariable
    BY <1>1, NewSchemaFacts
  <1>3. PICK d, y, more : d = AddAttribute(c, a) /\ y = AddAttribute(z, a) /\ more = {} \cup {LowerOf(a.name)}
    OBVIOUS
  <1>4. d \in SchemaOver(more) /\ y \in SchemaOver(more) /\ AttributeAdded(c, d, a) /\ AttributeAdded(z, y, a)
    BY <1>2, <1>3, AddAttributeFacts
  <1>5. PICK t \in RelationTypes : t = a.type
    BY DEF RelationAttributes
  <1>6. d.vector = y.vector
    <2>1. d.vector.elements = y.vector.elements
      BY <1>2, <1>4 DEF AttributeAdded
    <2>2. /\ d.vector \in [elements : Seq(RelationAttributes), deleted : {<<>>}]
          /\ y.vector \in [elements : Seq(RelationAttributes), deleted : {<<>>}]
      BY <1>4 DEF SchemaOver
    <2> QED
      BY <2>1, <2>2
  <1>7. d.byName = y.byName /\ d.temporary = y.temporary
    BY <1>2, <1>4 DEF AttributeAdded
  <1>8. /\ d.variables = y.variables /\ d.currentVariable = y.currentVariable
        /\ d.variableIndices = y.variableIndices /\ d.maximumVariable = y.maximumVariable
        /\ d.minimumVariable = y.minimumVariable /\ d.minimumNonNullable = y.minimumNonNullable
        /\ d.estimatedVariable = y.estimatedVariable /\ d.offsets = y.offsets /\ d.fixed = y.fixed
    <2>1. CASE IsVariableLength(t)
      <3>1. VariableAdded(c, d, t) /\ VariableAdded(z, y, t)
        BY <1>4, <1>5, <2>1 DEF AttributeAdded
      <3> QED
        BY <1>2, <3>1 DEF VariableAdded
    <2>2. CASE ~IsVariableLength(t)
      <3>1. FixedAdded(c, d, t) /\ FixedAdded(z, y, t)
        BY <1>4, <1>5, <2>2 DEF AttributeAdded
      <3> QED
        BY <1>2, <3>1 DEF FixedAdded
    <2> QED
      BY <2>1, <2>2
  <1>9. /\ d.nullables = y.nullables /\ d.currentNullable = y.currentNullable
        /\ d.nullableIndices = y.nullableIndices
    <2>1. NullableCounted(c, d, t) /\ NullableCounted(z, y, t)
      BY <1>4, <1>5 DEF AttributeAdded
    <2> QED
      BY <1>2, <2>1, SMTT(20) DEF NullableCounted
  <1>10. d.maximum = y.maximum /\ d.minimum = y.minimum /\ d.estimated = y.estimated
    BY <1>2, <1>4 DEF AttributeAdded, TotalsAdded
  <1>11. d.maxLengths = y.maxLengths
    <2>1. PICK most \in Nat : most = MaximumByteLength(t)
      BY <1>5, LengthFacts
    <2>2. PICK N : N = Nat
      OBVIOUS
    <2>3. Len(c.vector.elements) + 1 = 1 /\ Len(z.vector.elements) + 1 = 1
      BY <1>2
    <2>4. /\ d.maxLengths = [Resize(c.maxLengths, 1, 0) EXCEPT ![1] = most]
          /\ y.maxLengths = [Resize(z.maxLengths, 1, 0) EXCEPT ![1] = most]
      BY <1>4, <1>5, <2>1, <2>3 DEF AttributeAdded, TotalsAdded
    <2>5. c.maxLengths \in Seq(N) /\ z.maxLengths \in Seq(N) /\ most \in N /\ 0 \in N
      BY <1>2, <2>2, SchemaFields
    <2>6. PICK one \in Nat : one = 1 /\ one > 0
      OBVIOUS
    <2>7. /\ LengthPut([Resize(c.maxLengths, one, 0) EXCEPT ![one] = most], N, c.maxLengths, one, most)
          /\ LengthPut([Resize(z.maxLengths, one, 0) EXCEPT ![one] = most], N, z.maxLengths, one, most)
      BY <2>5, <2>6, LengthPutFacts
    <2>8. PICK u, w : u = d.maxLengths /\ w = y.maxLengths
      OBVIOUS
    <2>9. /\ u \in Seq(N) /\ Len(u) = 1 /\ u[1] = most
          /\ w \in Seq(N) /\ Len(w) = 1 /\ w[1] = most
      BY <2>4, <2>6, <2>7, <2>8 DEF LengthPut
    <2>10. u = w
      BY <2>9
    <2> QED
      BY <2>8, <2>10
  <1>12. d = y
    BY <1>4, <1>6, <1>7, <1>8, <1>9, <1>10, <1>11, SameSchema
  <1> QED
    BY <1>1, <1>3, <1>12

\* An attribute is read back from its message, but for its id.
LEMMA AttributeReadBack ==
  ASSUME NEW i \in DOMAIN AttributeNames, NEW types, types[i] \in RelationTypes, NEW displayed \in BOOLEAN,
         NEW a, a = NumberedAttribute(i, types, displayed)
  PROVE  /\ a # None /\ a.id = i - 1 /\ a.type = types[i] /\ a.name = AttributeNames[i]
         /\ GetDisplayName(a) = IF displayed THEN "shown" ELSE a.name
         /\ Initialized(GetAttributeProto(a)) /\ AttributeProtoIsValid(GetAttributeProto(a))
         /\ ReconstructAttribute(GetAttributeProto(a)) = AttributeOf(i, types[i], displayed)
  <1>1. PICK t \in RelationTypes : t = types[i]
    OBVIOUS
  <1>2. PICK shown : shown = (IF displayed THEN "shown" ELSE NoName) /\ (displayed <=> shown # NoName)
    <2>1. displayed => (IF displayed THEN "shown" ELSE NoName) # NoName
      BY DEF NoName
    <2>2. ~displayed => (IF displayed THEN "shown" ELSE NoName) = NoName
      OBVIOUS
    <2> QED
      BY <2>1, <2>2, Zenon
  <1>3. AttributeOf(i, types[i], displayed) = [id |-> -1, name |-> AttributeNames[i], type |-> t, display |-> shown]
    BY <1>1, <1>2 DEF AttributeOf, Attribute
  <1>4. a = [id |-> i - 1, name |-> AttributeNames[i], type |-> t, display |-> shown]
    BY <1>3 DEF NumberedAttribute
  <1>5. a # None /\ a.id = i - 1 /\ a.type = types[i] /\ a.name = AttributeNames[i] /\ a.display = shown
    <2>1. DOMAIN a # DOMAIN None
      BY <1>4 DEF None
    <2> QED
      BY <1>1, <1>4, <2>1
  <1>6. GetDisplayName(a) = IF displayed THEN "shown" ELSE a.name
    BY <1>2, <1>5 DEF GetDisplayName
  <1>7. TypeProtoIsValid(GetTypeProto(t)) /\ ReconstructType(GetTypeProto(t)) = t
    BY StructuresAssumption, TypesReadBack
  <1>8. PICK p : p = GetAttributeProto(a)
    OBVIOUS
  <1>9. /\ {"name", "type"} \subseteq DOMAIN p /\ p.type = GetTypeProto(t) /\ p.name = AttributeNames[i]
        /\ (IF "display_name" \in DOMAIN p THEN p.display_name ELSE NoName) = shown
    <2>1. CASE shown = NoName
      <3>1. p = [name |-> AttributeNames[i], type |-> GetTypeProto(t)]
        BY <1>1, <1>5, <1>8, <2>1 DEF GetAttributeProto
      <3>2. DOMAIN p = {"name", "type"} /\ p.type = GetTypeProto(t) /\ p.name = AttributeNames[i]
        BY <3>1
      <3>3. "display_name" \notin DOMAIN p
        BY <3>2
      <3> QED
        BY <2>1, <3>2, <3>3
    <2>2. CASE shown # NoName
      <3>1. p = [name |-> AttributeNames[i], type |-> GetTypeProto(t), display_name |-> shown]
        BY <1>1, <1>5, <1>8, <2>2 DEF GetAttributeProto
      <3>2. DOMAIN p = {"name", "type", "display_name"} /\ p.type = GetTypeProto(t) /\ p.name = AttributeNames[i]
            /\ p.display_name = shown
        BY <3>1
      <3> QED
        BY <3>2
    <2> QED
      BY <2>1, <2>2
  <1>10. Initialized(p) /\ AttributeProtoIsValid(p)
    BY <1>7, <1>9 DEF Initialized, AttributeProtoIsValid
  <1>11. ReconstructAttribute(p) = AttributeOf(i, types[i], displayed)
    BY <1>3, <1>7, <1>9 DEF ReconstructAttribute, Attribute
  <1> QED
    BY <1>5, <1>6, <1>8, <1>10, <1>11

\* The elements of a described schema: attributes, and no NULL.
ElementsOf(e, types, displayed, n) ==
  /\ e \in Seq(RelationAttributes) /\ Len(e) = n /\ DOMAIN e = 1..n
  /\ \A i \in 1..n : /\ i \in DOMAIN AttributeNames
                     /\ e[i] = NumberedAttribute(i, types, displayed) /\ e[i] # None
  /\ Objects(e) = 0..(n - 1)
LEMMA DescribedElements ==
  ASSUME NEW types, NEW temporary, NEW displayed \in BOOLEAN, NEW n \in Nat, n <= Len(AttributeNames),
         \A i \in 1..n : types[i] \in RelationTypes, NEW s, Described(s, types, temporary, displayed, n, n)
  PROVE  ElementsOf(s.vector.elements, types, displayed, n)
  <1>1. /\ s.vector.elements \in Seq(RelationAttributes) /\ Len(s.vector.elements) = n
        /\ \A i \in 1..n : s.vector.elements[i] = NumberedAttribute(i, types, displayed)
    <2>1. s \in SchemaOver(LowerNames(n))
      BY DEF Described, Listed
    <2> QED
      BY <2>1, SchemaFields DEF Described, Listed
  <1>2. DOMAIN s.vector.elements = 1..n
    BY <1>1, SequenceParts
  <1>3. \A i \in 1..n : i \in DOMAIN AttributeNames
    BY StructuresAssumption
  <1>4. ASSUME NEW i \in 1..n PROVE s.vector.elements[i] # None
    BY <1>1, <1>3, AttributeReadBack
  <1>5. Objects(s.vector.elements) = {p \in 0..(n - 1) : s.vector.elements[p + 1] # None}
    BY <1>1 DEF Objects
  <1>6. ASSUME NEW p \in 0..(n - 1) PROVE s.vector.elements[p + 1] # None
    <2>1. p + 1 \in 1..n
      OBVIOUS
    <2> QED
      BY <1>4, <2>1
  <1>7. Objects(s.vector.elements) = 0..(n - 1)
    BY <1>5, <1>6
  <1> QED
    BY <1>1, <1>2, <1>3, <1>4, <1>7 DEF ElementsOf

\* A schema is read back as it was saved.
LEMMA SchemaReadBack ==
  ASSUME NEW m \in Nat, m <= Len(AttributeNames), NEW types \in [1..m -> RelationTypes],
         NEW temporary \in BOOLEAN, NEW displayed \in BOOLEAN,
         NEW s, s = SchemasOf(types, temporary, displayed)[m]
  PROVE  ReconstructSchema(GetSchemaProto(s)) = s /\ SchemaProtoIsValid(GetSchemaProto(s))
  <1>1. PICK n : n = NumberIn(m) /\ n \in 0..m /\ \A i \in 1..n : types[i] \in RelationTypes
    BY StructuresAssumption DEF NumberIn
  <1>2. PICK at : at = SchemasOf(types, temporary, displayed)
    OBVIOUS
  <1>3. /\ \A k \in 0..n : Described(at[k], types, temporary, displayed, n, k)
        /\ \A k \in 1..n : at[k] = AddAttribute(at[k - 1], AttributeOf(k, types[k], displayed))
        /\ s = at[n] /\ at[0] = NewSchema(7, "relation", temporary, 0)
    BY <1>1, <1>2, SchemaDescribed
  <1>4. n \in Nat /\ n <= Len(AttributeNames) /\ Described(s, types, temporary, displayed, n, n)
    <2>1. Len(AttributeNames) \in Nat
      BY StructuresAssumption
    <2> QED
      BY <1>1, <1>3, <2>1
  <1>5. PICK e : e = s.vector.elements /\ DOMAIN e = 1..n
                 /\ \A i \in 1..n : i \in DOMAIN AttributeNames /\ e[i] = NumberedAttribute(i, types, displayed) /\ e[i] # None
    <2>1. ElementsOf(s.vector.elements, types, displayed, n)
      BY <1>1, <1>4, DescribedElements
    <2> QED
      BY <2>1 DEF ElementsOf
  <1>6. PICK proto : proto = GetSchemaProto(s)
    OBVIOUS
  <1>7. /\ proto.relation_id = 7 /\ proto.name = "relation" /\ proto.temporary = temporary
        /\ proto.attributes = [i \in 1..n |-> IF e[i] = None THEN <<>> ELSE GetAttributeProto(e[i])]
    <2>1. s.id = 7 /\ s.name = "relation" /\ s.temporary = temporary
      BY <1>4 DEF Described, Listed, SchemaOver
    <2>2. proto = [relation_id |-> s.id, name |-> s.name, temporary |-> s.temporary,
                   attributes |-> [i \in 1..n |-> IF e[i] = None THEN <<>> ELSE GetAttributeProto(e[i])]]
      BY <1>5, <1>6 DEF GetSchemaProto
    <2> QED
      BY <2>1, <2>2
  <1>8. PICK attributes : /\ attributes = proto.attributes /\ DOMAIN attributes = 1..n /\ Len(attributes) = n
                          /\ \A i \in 1..n : attributes[i] = GetAttributeProto(e[i])
    <2>1. \A i \in 1..n : proto.attributes[i] = GetAttributeProto(e[i])
      BY <1>5, <1>7
    <2>2. DOMAIN proto.attributes = 1..n /\ Len(proto.attributes) = n
      BY <1>4, <1>7
    <2> QED
      BY <2>1, <2>2
  <1>9. ASSUME NEW i \in 1..n
        PROVE  /\ Initialized(attributes[i]) /\ AttributeProtoIsValid(attributes[i])
               /\ ReconstructAttribute(attributes[i]) = AttributeOf(i, types[i], displayed)
    <2>1. PICK a : a = e[i] /\ a = NumberedAttribute(i, types, displayed) /\ attributes[i] = GetAttributeProto(a)
                   /\ i \in DOMAIN AttributeNames /\ types[i] \in RelationTypes
      BY <1>1, <1>5, <1>8
    <2>2. /\ Initialized(GetAttributeProto(a)) /\ AttributeProtoIsValid(GetAttributeProto(a))
          /\ ReconstructAttribute(GetAttributeProto(a)) = AttributeOf(i, types[i], displayed)
      BY <2>1, AttributeReadBack
    <2> QED
      BY <2>1, <2>2
  <1>10. SchemaProtoIsValid(proto)
    BY <1>7, <1>8, <1>9 DEF SchemaProtoIsValid
  <1>11. PICK f : /\ f[0] = NewSchema(7, "relation", temporary, n)
                  /\ \A i \in 1..n : f[i] = IF Initialized(attributes[i])
                                            THEN AddAttribute(f[i - 1], ReconstructAttribute(attributes[i]))
                                            ELSE [f[i - 1] EXCEPT !.vector = PushBack(@, None)]
                  /\ ReconstructSchema(proto) = f[n]
    <2>1. Len(proto.attributes) = n /\ Len(proto.attributes) \in Nat
      BY <1>4, <1>8
    <2>2. PICK f : ReadsSchema(f, proto)
      BY <2>1, ReconstructSchemaSteps
    <2> QED
      BY <1>7, <1>8, <2>1, <2>2 DEF ReadsSchema
  <1>12. \A i \in 1..n : f[i] = AddAttribute(f[i - 1], AttributeOf(i, types[i], displayed))
    BY <1>9, <1>11
  <1>13. f[n] = at[n]
    <2>1. CASE n = 0
      BY <1>3, <1>11, <2>1
    <2>2. CASE n > 0
      <3> DEFINE Same == {k \in 0..(n - 1) : f[k + 1] = at[k + 1]}
      <3>1. 0 \in Same
        <4>1. 1 \in 1..n /\ 1 - 1 = 0
          BY <1>4, <2>2
        <4>2. AttributeOf(1, types[1], displayed) \in RelationAttributes
          BY <1>1, <1>5, <4>1, AttributeTyped
        <4>3. f[1] = AddAttribute(f[0], AttributeOf(1, types[1], displayed))
          BY <1>12, <4>1
        <4>4. at[1] = AddAttribute(at[0], AttributeOf(1, types[1], displayed))
          BY <1>3, <4>1
        <4>5. f[1] = at[1]
          BY <1>3, <1>4, <1>11, <2>2, <4>2, <4>3, <4>4, FirstAttribute
        <4> QED
          BY <1>4, <2>2, <4>5
      <3>2. ASSUME NEW k \in 1..(n - 1), k - 1 \in Same PROVE k \in Same
        <4>1. k + 1 \in 1..n /\ k + 1 - 1 = k /\ f[k] = at[k]
          BY <1>4, <3>2
        <4>2. f[k + 1] = AddAttribute(f[k], AttributeOf(k + 1, types[k + 1], displayed))
          BY <1>12, <4>1
        <4>3. at[k + 1] = AddAttribute(at[k], AttributeOf(k + 1, types[k + 1], displayed))
          BY <1>3, <4>1
        <4> QED
          BY <4>1, <4>2, <4>3
      <3>3. n - 1 \in Nat /\ n - 1 + 1 = n
        BY <1>4, <2>2
      <3>4. \A k \in 0..(n - 1) : k \in Same
        <4> HIDE DEF Same
        <4>1. \A k \in 1..(n - 1) : k - 1 \in Same => k \in Same
          BY <3>2
        <4> QED
          BY <3>1, <3>3, <4>1, UpTo, Zenon
      <3>5. n - 1 \in Same
        BY <3>3, <3>4
      <3> QED
        BY <3>3, <3>5
    <2> QED
      BY <1>4, <2>1, <2>2
  <1> QED
    BY <1>3, <1>6, <1>10, <1>11, <1>13

\* Lower case names find the ids they were given.
LEMMA LowerNamesCounted ==
  ASSUME NEW n \in Nat, n <= Len(AttributeNames)
  PROVE  Cardinality(LowerNames(n)) = n
  <1> DEFINE Good == {k \in 0..n : IsFiniteSet(LowerNames(k)) /\ Cardinality(LowerNames(k)) = k}
  <1>1. 0 \in Good
    <2>1. 1..0 = {}
      OBVIOUS
    <2>2. LowerNames(0) = {}
      BY <2>1 DEF LowerNames
    <2> QED
      BY <2>2, FS_EmptySet
  <1>2. ASSUME NEW k \in 1..n, k - 1 \in Good PROVE k \in Good
    <2>1. PICK A, x : A = LowerNames(k - 1) /\ x = LowerOf(AttributeNames[k])
      OBVIOUS
    <2>2. LowerNames(k) = A \cup {x}
      <3>1. 1..k = 1..(k - 1) \cup {k}
        OBVIOUS
      <3> QED
        BY <2>1, <3>1 DEF LowerNames
    <2>3. x \notin A
      <3>1. ASSUME NEW i \in 1..(k - 1), x = LowerOf(AttributeNames[i]) PROVE FALSE
        <4>1. i \in DOMAIN AttributeNames /\ k \in DOMAIN AttributeNames /\ i # k
          BY StructuresAssumption
        <4> QED
          BY <2>1, <3>1, <4>1, StructuresAssumption
      <3> QED
        BY <2>1, <3>1 DEF LowerNames
    <2>4. IsFiniteSet(A) /\ Cardinality(A) = k - 1
      BY <1>2, <2>1
    <2>5. IsFiniteSet(A \cup {x}) /\ Cardinality(A \cup {x}) = Cardinality(A) + 1
      BY <2>3, <2>4, FS_AddElement
    <2>6. Cardinality(A \cup {x}) = k
      BY <2>4, <2>5
    <2>7. k \in 0..n /\ IsFiniteSet(LowerNames(k)) /\ Cardinality(LowerNames(k)) = k
      BY <2>2, <2>5, <2>6
    <2> QED
      BY <2>7
  <1>3. \A k \in 0..n : k \in Good
    <2> HIDE DEF Good
    <2>1. \A k \in 1..n : k - 1 \in Good => k \in Good
      BY <1>2
    <2> QED
      BY <1>1, <2>1, UpTo, Zenon
  <1> QED
    BY <1>3

\* Bytes of the fixed part, once in one attribute.
LEMMA LayoutDescribed ==
  ASSUME NEW types, NEW temporary, NEW displayed, NEW n \in Nat,
         NEW s, Described(s, types, temporary, displayed, n, n)
  PROVE  LayoutIsRight(s, types, n)
  <1>1. PICK ids, variable, nullable, fixed :
          /\ ids = 0..(n - 1) /\ variable = VariableIds(types, n) /\ nullable = NullableIds(types, n)
          /\ fixed = ids \ variable
    OBVIOUS
  <1>2. variable = {id \in ids : types[id + 1].id = "VarChar"} /\ nullable = {id \in ids : types[id + 1].nullable}
    BY <1>1 DEF VariableIds, NullableIds
  <1>3. Below(variable, n) = variable /\ Below(nullable, n) = nullable /\ Below(fixed, n) = fixed
    <2>1. \A j \in ids : j < n
      BY <1>1
    <2> QED
      BY <1>1, <1>2, <2>1 DEF Below
  <1>4. s.variables = Cardinality(variable) /\ s.nullables = Cardinality(nullable)
    BY <1>1, <1>3 DEF Described, Counted
  <1>5. LaidOut(s.offsets, s.maxLengths, s.fixed, fixed, n)
    BY <1>1 DEF Described, FixedIds
  <1>6. \A id : BytesOf(s, id) = BytesAt(s.offsets, s.maxLengths, id)
    BY DEF BytesOf, BytesAt
  <1>7. ASSUME NEW byte \in 0..(s.fixed - 1) PROVE Cardinality({id \in fixed : byte \in BytesOf(s, id)}) = 1
    <2>1. PICK id \in fixed : byte \in BytesOf(s, id)
      BY <1>3, <1>5, <1>6 DEF LaidOut
    <2>2. ASSUME NEW other \in fixed, byte \in BytesOf(s, other), other # id PROVE FALSE
      <3>1. BytesAt(s.offsets, s.maxLengths, id) \cap BytesAt(s.offsets, s.maxLengths, other) = {}
        BY <1>3, <1>5, <2>2 DEF LaidOut
      <3> QED
        BY <1>6, <2>1, <2>2, <3>1
    <2>3. {i \in fixed : byte \in BytesOf(s, i)} = {id}
      BY <2>1, <2>2
    <2>4. Cardinality({id}) = 1
      BY FS_Singleton
    <2> QED
      BY <2>3, <2>4
  <1>8. \A id \in fixed : s.offsets[id + 1] + s.maxLengths[id + 1] <= s.fixed
    BY <1>3, <1>5 DEF LaidOut
  <1>9. Summed(s)
    BY DEF Described
  <1> QED
    BY <1>1, <1>2, <1>4, <1>7, <1>8, <1>9, Zenon DEF LayoutIsRight, Summed

\* Attributes by id and by name, and their caches.
AttributesAreRight(s, types, displayed, n) ==
  /\ GetMaxAttributeId(s) = n - 1 /\ ~GapsInAttributeSequence(s)
  /\ \A id \in 0..(n - 1) : AttributeIsRight(s, types, displayed, n, id)
  /\ \A id \in {-1, n} : GetAttributeById(s, id) = None
LEMMA AttributesDescribed ==
  ASSUME NEW types, NEW temporary, NEW displayed \in BOOLEAN, NEW n \in Nat, n <= Len(AttributeNames),
         \A i \in 1..n : types[i] \in RelationTypes,
         NEW s, Described(s, types, temporary, displayed, n, n)
  PROVE  AttributesAreRight(s, types, displayed, n)
  <1>1. PICK e : /\ e = s.vector.elements /\ e \in Seq(RelationAttributes) /\ Len(e) = n /\ DOMAIN e = 1..n
                 /\ \A i \in 1..n : /\ i \in DOMAIN AttributeNames
                                    /\ e[i] = NumberedAttribute(i, types, displayed) /\ e[i] # None
                 /\ Objects(e) = 0..(n - 1)
    <2>1. ElementsOf(s.vector.elements, types, displayed, n)
      BY DescribedElements
    <2> QED
      BY <2>1 DEF ElementsOf
  <1>2. s \in SchemaOver(LowerNames(n))
    BY DEF Described, Listed
  <1>3. DOMAIN s.byName = LowerNames(n)
    BY <1>2, SchemaFields
  <1>4. \A id \in 0..(n - 1) : GetAttributeById(s, id) = e[id + 1]
    <2>1. ASSUME NEW id \in 0..(n - 1) PROVE GetAttributeById(s, id) = e[id + 1]
      <3>1. id + 1 \in 1..n
        OBVIOUS
      <3>2. HasAttributeWithId(s, id)
        BY <1>1, <3>1 DEF HasAttributeWithId, ElementIsNull
      <3> QED
        BY <1>1, <3>2 DEF GetAttributeById
    <2> QED
      BY <2>1
  <1>5. \A id \in {-1, n} : GetAttributeById(s, id) = None
    BY <1>1 DEF GetAttributeById, HasAttributeWithId
  <1>6. ~GapsInAttributeSequence(s)
    BY <1>1, <1>3, LowerNamesCounted DEF GapsInAttributeSequence
  <1>7. GetMaxAttributeId(s) = n - 1
    <2>1. CASE n = 0
      <3>1. 1..0 = {}
        OBVIOUS
      <3>2. LowerNames(n) = {}
        BY <2>1, <3>1 DEF LowerNames
      <3> QED
        BY <1>3, <2>1, <3>2 DEF GetMaxAttributeId
    <2>2. CASE n > 0
      <3>1. LowerNames(n) # {}
        <4>1. 1 \in 1..n
          BY <2>2
        <4> QED
          BY <4>1 DEF LowerNames
      <3>2. 0 \in Objects(e) /\ n - 1 \in Objects(e) /\ \A p \in Objects(e) : 0 <= p /\ p <= n - 1
        BY <1>1, <2>2
      <3>3. PICK last : last = n - 1 /\ last \in Objects(e)
        BY <3>2
      <3>4. BackElement(s.vector) = e[last + 1]
        BY <1>1, <3>2, <3>3, EndsFacts
      <3>5. n \in 1..n /\ types[n] \in RelationTypes /\ last + 1 = n
        BY <2>2, <3>3
      <3>6. e[n].id = n - 1
        BY <1>1, <3>5, AttributeReadBack
      <3> QED
        BY <1>3, <3>1, <3>4, <3>5, <3>6 DEF GetMaxAttributeId
    <2> QED
      BY <2>1, <2>2
  <1>8. ASSUME NEW id \in 0..(n - 1) PROVE AttributeIsRight(s, types, displayed, n, id)
    <2>1. PICK a : a = GetAttributeById(s, id)
      OBVIOUS
    <2>2. PICK i \in 1..n : i = id + 1 /\ types[i] \in RelationTypes /\ i \in DOMAIN AttributeNames
      BY <1>1
    <2>3. a = e[i] /\ a = NumberedAttribute(i, types, displayed)
      BY <1>1, <1>4, <2>1, <2>2
    <2>4. /\ a.id = i - 1 /\ a.type = types[i] /\ a.name = AttributeNames[i]
          /\ GetDisplayName(a) = IF displayed THEN "shown" ELSE a.name
      BY <2>2, <2>3, AttributeReadBack
    <2>5. GetAttributeByName(s, LowerOf(a.name)) = a
      <3>1. PICK low : low = LowerOf(AttributeNames[i]) /\ low \in LowerNames(n) /\ LowerOf(low) = low
        BY <2>2, StructuresAssumption DEF LowerNames
      <3>2. s.byName[low] = i - 1
        BY <2>2, <3>1 DEF Described, Listed
      <3>3. i - 1 = id
        BY <2>2
      <3> QED
        BY <1>3, <2>1, <2>4, <3>1, <3>2, <3>3 DEF GetAttributeByName
    <2>6. /\ s.variableIndices[id + 1] = RankIn(VariableIds(types, n), id)
          /\ s.nullableIndices[id + 1] = RankIn(NullableIds(types, n), id)
      BY DEF Described, Counted
    <2>7. a.id = id /\ a.type = types[id + 1] /\ a.name = AttributeNames[id + 1]
      BY <2>2, <2>4
    <2> QED
      BY <2>1, <2>4, <2>5, <2>6, <2>7, Zenon DEF AttributeIsRight, RankIn, Below, VariableIds, NullableIds
  <1> QED
    BY <1>5, <1>6, <1>7, <1>8 DEF AttributesAreRight

\* What BuildSchema returns is right.
LEMMA SchemaFacts ==
  ASSUME NEW m \in Nat, m <= Len(AttributeNames), NEW types \in [1..m -> RelationTypes],
         NEW temporary \in BOOLEAN, NEW displayed \in BOOLEAN,
         NEW r, r.schema = SchemasOf(types, temporary, displayed)[m],
         r.valid = SchemaProtoIsValid(GetSchemaProto(r.schema)),
         r.back = ReconstructSchema(GetSchemaProto(r.schema))
  PROVE  SchemaIsRight(types, displayed, r)
  <1>1. PICK s : s = r.schema /\ s = SchemasOf(types, temporary, displayed)[m]
    OBVIOUS
  <1>2. PICK n : n = NumberIn(m) /\ n \in 0..m /\ n \in Nat /\ \A i \in 1..n : types[i] \in RelationTypes
    BY StructuresAssumption DEF NumberIn
  <1>3. n <= Len(AttributeNames)
    <2>1. Len(AttributeNames) \in Nat
      BY StructuresAssumption
    <2> QED
      BY <1>2, <2>1
  <1>4. Described(s, types, temporary, displayed, n, n)
    <2>1. PICK at : at = SchemasOf(types, temporary, displayed)
      OBVIOUS
    <2>2. \A k \in 0..n : Described(at[k], types, temporary, displayed, n, k)
      BY <1>2, <2>1, SchemaDescribed
    <2>3. at[m] = at[n]
      BY <1>2, <2>1, SchemaDescribed
    <2> QED
      BY <1>1, <1>2, <2>1, <2>2, <2>3
  <1>5. r.valid /\ r.back = s
    BY <1>1, SchemaReadBack
  <1>6. AttributesAreRight(s, types, displayed, n)
    BY <1>2, <1>3, <1>4, AttributesDescribed
  <1>7. LayoutIsRight(s, types, n)
    BY <1>2, <1>4, LayoutDescribed
  <1>8. Len(types) = m
    OBVIOUS
  <1> QED
    BY <1>1, <1>2, <1>5, <1>6, <1>7, <1>8, Zenon DEF SchemaIsRight, AttributesAreRight

-----------------------------------------------------------------------------
(***************************************************************************)
(* What operations, functions and comparisons say of types.  The ids of    *)
(* the arguments decide that of the result; an unknown argument stands for *)
(* every id an operand may have.                                           *)
(***************************************************************************)
OperandIDs == NumericIDs \cup IntervalIDs \cup {"Datetime"}

\* The ids of the arguments decide that of the result.
ResultID(op, i, j) ==
  IF i \in NumericIDs /\ j \in NumericIDs THEN NumericTypeUnifier(i, j)
  ELSE IF op = "Add" /\ ((i = "Datetime" /\ j \in IntervalIDs) \/ (i \in IntervalIDs /\ j = "Datetime")) THEN "Datetime"
  ELSE IF op \in {"Add", "Subtract"} /\ i \in IntervalIDs /\ j = i THEN i
  ELSE IF op = "Subtract" /\ i = "Datetime" /\ j = "Datetime" THEN "DatetimeInterval"
  ELSE IF op = "Subtract" /\ i = "Datetime" /\ j \in IntervalIDs THEN "Datetime"
  ELSE IF op = "Multiply" /\ i \in NumericIDs /\ j \in IntervalIDs THEN j
  ELSE IF op \in {"Multiply", "Divide"} /\ i \in IntervalIDs /\ j \in NumericIDs THEN i
  ELSE "none"

LEMMA TypesOfIDs ==
  ASSUME NEW t \in AllTypes, t.id \notin StringIDs
  PROVE  t = TypeOf(t.id, t.nullable)
  BY DEF AllTypes, TypeOf

LEMMA NumberAsNullable ==
  ASSUME NEW t \in AllTypes, t.id \in NumericIDs, NEW n \in BOOLEAN, t.nullable => n
  PROVE  AsNullable(t, n) \in AllTypes /\ AsNullable(t, n) = TypeOf(t.id, n)
  <1>1. PICK a \in AllTypes : a = AsNullable(t, n) /\ a.id = t.id /\ a.nullable = n
    BY AsNullableFacts
  <1>2. a.id \notin StringIDs
    BY <1>1 DEF NumericIDs, StringIDs
  <1> QED
    BY <1>1, <1>2, TypesOfIDs

LEMMA NumbersUnified ==
  ASSUME NEW l \in AllTypes, NEW r \in AllTypes, l.id \in NumericIDs, r.id \in NumericIDs
  PROVE  GetUnifyingType(l, r) = TypeOf(NumericTypeUnifier(l.id, r.id), l.nullable \/ r.nullable)
  <1> DEFINE n == l.nullable \/ r.nullable
  <1>1. PICK i \in NumericIDs, j \in NumericIDs : i = l.id /\ j = r.id
    OBVIOUS
  <1>2. PICK a \in AllTypes : a = AsNullable(l, n) /\ a = TypeOf(i, n)
    BY <1>1, NumberAsNullable
  <1>3. PICK b \in AllTypes : b = AsNullable(r, n) /\ b = TypeOf(j, n)
    BY <1>1, NumberAsNullable
  <1>4. PICK u \in NumericIDs : u = NumericTypeUnifier(i, j)
    BY DEF NumericTypeUnifier, NumericIDs
  <1>5. /\ IsSafelyCoercibleFrom(a, b) <=> i = u
        /\ IsSafelyCoercibleFrom(b, a) <=> j = u
        /\ {i, j} = {"Long", "Float"} <=> i # u /\ j # u
    <2>1. a.id = i /\ a.nullable = n /\ b.id = j /\ b.nullable = n
      BY <1>2, <1>3 DEF TypeOf
    <2>2. /\ IsSafelyCoercibleFrom(a, b) <=> i = u
          /\ IsSafelyCoercibleFrom(b, a) <=> j = u
      BY <1>4, <2>1 DEF IsSafelyCoercibleFrom, NullCoercibilityCheck, NumericTypeUnifier, NumericIDs,
           IntHolds, LongHolds, FloatHolds, DoubleHolds
    <2>3. {i, j} = {"Long", "Float"} <=> i # u /\ j # u
      <3>1. CASE i = "Int"
        BY <1>4, <3>1 DEF NumericTypeUnifier, NumericIDs
      <3>2. CASE i = "Long"
        BY <1>4, <3>2 DEF NumericTypeUnifier, NumericIDs
      <3>3. CASE i = "Float"
        BY <1>4, <3>3 DEF NumericTypeUnifier, NumericIDs
      <3>4. CASE i = "Double"
        BY <1>4, <3>4 DEF NumericTypeUnifier, NumericIDs
      <3> QED
        BY <1>4, <3>1, <3>2, <3>3, <3>4 DEF NumericIDs
    <2> QED
      BY <2>2, <2>3
  <1>6. i # u /\ j # u => u = "Double"
    BY <1>4 DEF NumericTypeUnifier, NumericIDs
  <1>7. GetMostSpecificType(a, b) = IF i = u THEN a ELSE IF j = u THEN b ELSE NoType
    BY <1>5 DEF GetMostSpecificType
  <1>8. a # NoType /\ b # NoType
    BY NoTypeIsNone
  <1> QED
    BY <1>1, <1>2, <1>3, <1>4, <1>5, <1>6, <1>7, <1>8, UnifyingByCases

LEMMA ResultTypeIs ==
  ASSUME NEW op \in BinaryOperationIDs, NEW l \in AllTypes, NEW r \in AllTypes
  PROVE  ResultType(op, l, r) = IF ResultID(op, l.id, r.id) = "none" THEN NoType
                                ELSE TypeOf(ResultID(op, l.id, r.id), l.nullable \/ r.nullable)
  <1>1. PICK i \in TypeIDs, j \in TypeIDs : i = l.id /\ j = r.id
    BY DEF AllTypes
  <1>2. /\ IsNumeric(l) <=> i \in NumericIDs
        /\ IsNumeric(r) <=> j \in NumericIDs
    BY <1>1 DEF IsNumeric, SuperTypeID, NumericIDs, StringIDs
  <1>3. CASE i \in NumericIDs /\ j \in NumericIDs
    <2>1. PICK u \in NumericIDs : u = NumericTypeUnifier(i, j)
      BY <1>3 DEF NumericTypeUnifier, NumericIDs
    <2>2. ResultID(op, i, j) = u /\ u # "none"
      BY <1>3, <2>1 DEF ResultID, NumericIDs
    <2>3. ResultType(op, l, r) = GetUnifyingType(l, r)
      <3>1. /\ IsNumeric(l) /\ IsNumeric(r) /\ l.id \notin IntervalIDs /\ r.id \notin IntervalIDs
            /\ \A k \in {"Datetime", "DatetimeInterval", "YearMonthInterval"} : Ids(l, r)[1] # k
        BY <1>1, <1>2, <1>3 DEF Ids, IntervalIDs, NumericIDs
      <3>2. /\ Ids(l, r) \notin ({"Datetime"} \X IntervalIDs) \cup (IntervalIDs \X {"Datetime"})
            /\ Ids(l, r) \notin {<<"Datetime", "Datetime">>, <<"DatetimeInterval", "DatetimeInterval">>}
            /\ Ids(l, r) # <<"YearMonthInterval", "YearMonthInterval">>
        BY <3>1 DEF IntervalIDs
      <3>3. /\ AddResultType(l, r) = GetUnifyingType(l, r)
            /\ SubtractResultType(l, r) = GetUnifyingType(l, r)
            /\ MultiplyResultType(l, r) = GetUnifyingType(l, r)
            /\ DivideResultType(l, r) = GetUnifyingType(l, r)
            /\ ModuloResultType(l, r) = GetUnifyingType(l, r)
        <4>1. Ids(l, r) \notin {"Datetime"} \X IntervalIDs
          BY <3>2
        <4> QED
          BY <3>1, <3>2, <4>1 DEF AddResultType, SubtractResultType, MultiplyResultType,
             DivideResultType, ModuloResultType
      <3> QED
        BY <3>3 DEF ResultType
    <2> QED
      BY <1>1, <1>3, <2>1, <2>2, <2>3, NumbersUnified
  <1>4. CASE ~(i \in NumericIDs /\ j \in NumericIDs)
    <2> DEFINE n == l.nullable \/ r.nullable
    <2>1. Either(l, r) = n /\ Ids(l, r) = <<i, j>>
      BY <1>1 DEF Either, Ids
    <2>2. CASE op = "Add"
      <3>1. ResultType(op, l, r) = AddResultType(l, r)
        BY <2>2 DEF ResultType
      <3>2. Ids(l, r) \in ({"Datetime"} \X IntervalIDs) \cup (IntervalIDs \X {"Datetime"})
              <=> (i = "Datetime" /\ j \in IntervalIDs) \/ (i \in IntervalIDs /\ j = "Datetime")
        BY <2>1
      <3> QED
        BY <1>1, <1>2, <1>4, <2>1, <2>2, <3>1, <3>2 DEF AddResultType, ResultID, IntervalIDs, NumericIDs
    <2>3. CASE op = "Subtract"
      <3>1. ResultType(op, l, r) = SubtractResultType(l, r)
        BY <2>3 DEF ResultType
      <3>2. /\ Ids(l, r) \in {<<"Datetime", "Datetime">>, <<"DatetimeInterval", "DatetimeInterval">>}
                 <=> i \in {"Datetime", "DatetimeInterval"} /\ j = i
            /\ Ids(l, r) \in {"Datetime"} \X IntervalIDs <=> i = "Datetime" /\ j \in IntervalIDs
            /\ Ids(l, r) = <<"YearMonthInterval", "YearMonthInterval">> <=> i = "YearMonthInterval" /\ j = i
        BY <2>1
      <3> QED
        BY <1>1, <1>2, <1>4, <2>1, <2>3, <3>1, <3>2 DEF SubtractResultType, ResultID, IntervalIDs, NumericIDs
    <2>4. CASE op = "Multiply"
      BY <1>1, <1>2, <1>4, <2>1, <2>4 DEF ResultType, MultiplyResultType, ResultID, IntervalIDs, NumericIDs
    <2>5. CASE op = "Divide"
      BY <1>1, <1>2, <1>4, <2>1, <2>5 DEF ResultType, DivideResultType, ResultID, IntervalIDs, NumericIDs
    <2>6. CASE op = "Modulo"
      BY <1>1, <1>2, <1>4, <2>1, <2>6 DEF ResultType, ModuloResultType, ResultID, IntervalIDs, NumericIDs
    <2> QED
      BY <2>2, <2>3, <2>4, <2>5, <2>6 DEF BinaryOperationIDs
  <1> QED
    BY <1>3, <1>4

LEMMA CanApplyIs ==
  ASSUME NEW op \in BinaryOperationIDs, NEW l \in AllTypes, NEW r \in AllTypes
  PROVE  CanApplyToTypes(op, l, r) <=> ResultID(op, l.id, r.id) # "none"
  <1>1. PICK i \in TypeIDs, j \in TypeIDs : i = l.id /\ j = r.id
    BY DEF AllTypes
  <1>2. IsNumeric(r) <=> j \in NumericIDs
    BY <1>1 DEF IsNumeric, SuperTypeID, NumericIDs, StringIDs
  <1>3. NumericTypeUnifier(i, j) # "none"
    BY DEF NumericTypeUnifier
  <1>4. CASE op = "Add"
    BY <1>1, <1>2, <1>3, <1>4 DEF CanApplyToTypes, AddCanApply, ResultID, NumericIDs, IntervalIDs
  <1>5. CASE op = "Subtract"
    BY <1>1, <1>2, <1>3, <1>5 DEF CanApplyToTypes, SubtractCanApply, ResultID, NumericIDs, IntervalIDs
  <1>6. CASE op = "Multiply"
    BY <1>1, <1>2, <1>3, <1>6 DEF CanApplyToTypes, MultiplyCanApply, ResultID, NumericIDs, IntervalIDs
  <1>7. CASE op = "Divide"
    BY <1>1, <1>2, <1>3, <1>7 DEF CanApplyToTypes, DivideCanApply, ResultID, NumericIDs, IntervalIDs
  <1>8. CASE op = "Modulo"
    BY <1>1, <1>2, <1>3, <1>8 DEF CanApplyToTypes, ModuloCanApply, ResultID, NumericIDs, IntervalIDs
  <1> QED
    BY <1>4, <1>5, <1>6, <1>7, <1>8 DEF BinaryOperationIDs

LEMMA OperatorIs ==
  ASSUME NEW op \in BinaryOperationIDs, NEW l \in AllTypes, NEW r \in AllTypes
  PROVE  /\ MakeUnchecked(op, l, r) # NoOperator <=> ResultID(op, l.id, r.id) # "none"
         /\ MakeUnchecked(op, l, r) # NoOperator => MakeUnchecked(op, l, r).result = ResultID(op, l.id, r.id)
  <1>1. PICK i \in TypeIDs, j \in TypeIDs : i = l.id /\ j = r.id
    BY DEF AllTypes
  <1>2. AreNumeric(l, r) <=> i \in NumericIDs /\ j \in NumericIDs
    BY <1>1 DEF AreNumeric
  <1>3. NumericTypeUnifier(i, j) # "none"
    BY DEF NumericTypeUnifier
  <1>4. ASSUME NEW o \in {"+", "-", "*", "/", "%", "fmod"}, NEW k
        PROVE  Operator(o, k, l, r) # NoOperator /\ Operator(o, k, l, r).result = k
    BY DEF Operator, NoOperator
  <1>5. CASE i \in NumericIDs /\ j \in NumericIDs
    <2>1. PICK o \in {"+", "-", "*", "/", "%", "fmod"} :
            MakeUnchecked(op, l, r) = Operator(o, NumericTypeUnifier(i, j), l, r)
      <3>1. AreNumeric(l, r) /\ l.id \notin IntervalIDs /\ r.id \notin IntervalIDs /\ l.id # "Datetime"
        BY <1>1, <1>2, <1>5 DEF IntervalIDs, NumericIDs
      <3>2. \A o : NumericOperator(o, l, r) = Operator(o, NumericTypeUnifier(i, j), l, r)
        BY <1>1, <1>5 DEF NumericOperator, NumericOperatorInner
      <3>3. ASSUME {l.id, r.id} \subseteq {"Int", "Long"}
            PROVE  IntegerOperator("%", l, r) = Operator("%", NumericTypeUnifier(i, j), l, r)
        BY <1>1, <3>3 DEF IntegerOperator, IntegerOperatorInner
      <3>4. /\ AddUnchecked(l, r) = NumericOperator("+", l, r)
            /\ SubtractUnchecked(l, r) = NumericOperator("-", l, r)
            /\ MultiplyUnchecked(l, r) = NumericOperator("*", l, r)
            /\ DivideUnchecked(l, r) = NumericOperator("/", l, r)
            /\ ModuloUnchecked(l, r) \in {IntegerOperator("%", l, r), NumericOperator("fmod", l, r)}
            /\ ~({l.id, r.id} \subseteq {"Int", "Long"}) => ModuloUnchecked(l, r) = NumericOperator("fmod", l, r)
        BY <3>1 DEF AddUnchecked, SubtractUnchecked, MultiplyUnchecked, DivideUnchecked, ModuloUnchecked
      <3> QED
        BY <3>2, <3>3, <3>4 DEF MakeUnchecked
    <2> QED
      BY <1>1, <1>3, <1>4, <1>5, <2>1 DEF ResultID
  <1>6. ASSUME ~(i \in NumericIDs /\ j \in NumericIDs)
        PROVE  \/ ResultID(op, i, j) = "none" /\ MakeUnchecked(op, l, r) = NoOperator
               \/ /\ ResultID(op, i, j) # "none"
                  /\ \E o \in {"+", "-", "*", "/", "%", "fmod"} : MakeUnchecked(op, l, r) = Operator(o, ResultID(op, i, j), l, r)
    <2>1. CASE op = "Add"
      BY <1>1, <1>2, <1>6, <2>1 DEF MakeUnchecked, AddUnchecked, LiteralOperatorFor, ResultID, IntervalIDs, NumericIDs
    <2>2. CASE op = "Subtract"
      BY <1>1, <1>2, <1>6, <2>2 DEF MakeUnchecked, SubtractUnchecked, LiteralOperatorFor, ResultID, IntervalIDs, NumericIDs
    <2>3. CASE op = "Multiply"
      BY <1>1, <1>2, <1>6, <2>3 DEF MakeUnchecked, MultiplyUnchecked, LiteralOperatorFor, ResultID, IntervalIDs, NumericIDs
    <2>4. CASE op = "Divide"
      BY <1>1, <1>2, <1>6, <2>4 DEF MakeUnchecked, DivideUnchecked, LiteralOperatorFor, ResultID, IntervalIDs, NumericIDs
    <2>5. CASE op = "Modulo"
      <3>1. ~({i, j} \subseteq {"Int", "Long"})
        BY <1>6 DEF NumericIDs
      <3> QED
        BY <1>1, <1>2, <1>6, <2>5, <3>1 DEF MakeUnchecked, ModuloUnchecked, ResultID, IntervalIDs, NumericIDs
    <2> QED
      BY <2>1, <2>2, <2>3, <2>4, <2>5 DEF BinaryOperationIDs
  <1> QED
    BY <1>1, <1>4, <1>5, <1>6

LEMMA OperandsOnly ==
  ASSUME NEW op, NEW i, NEW j, ResultID(op, i, j) # "none"
  PROVE  i \in OperandIDs /\ j \in OperandIDs /\ ResultID(op, i, j) \in OperandIDs
  <1>1. NumericTypeUnifier(i, j) \in NumericIDs
    BY DEF NumericTypeUnifier, NumericIDs
  <1> QED
    BY <1>1 DEF ResultID, OperandIDs, IntervalIDs

\* The ids that matter of the types an argument may have, and those of the results.
IDs(type) == IF type = NoType THEN OperandIDs ELSE {type.id}
ResultIDs(op, l, r) == {ResultID(op, i, j) : i \in IDs(l), j \in IDs(r)} \ {"none"}
MayBeNull(l, r) == l = NoType \/ r = NoType \/ l.nullable = TRUE \/ r.nullable = TRUE

LEMMA CompletionFacts ==
  ASSUME NEW type \in CallTypes \cup {NoType}
  PROVE  /\ \A t \in Completions(type) : /\ t \in AllTypes /\ (t.id \in OperandIDs => t.id \in IDs(type))
                                       /\ IF type = NoType THEN t.nullable = TRUE ELSE t = type
         /\ \A i \in IDs(type) : \E t \in Completions(type) : t.id = i
  <1>1. CASE type = NoType
    <2>1. ASSUME NEW i \in OperandIDs PROVE \E t \in Completions(type) : t.id = i
      <3>1. i \in NumericIDs \cup TimeIDs
        BY DEF OperandIDs, IntervalIDs, TimeIDs
      <3>2. PICK t \in CallTypes : t = TypeOf(i, TRUE)
        BY <3>1, OperationsAssumption
      <3>3. t.id = i /\ t.nullable
        BY <3>2 DEF TypeOf
      <3> QED
        BY <1>1, <3>3 DEF Completions
    <2>2. ASSUME NEW t \in Completions(type) PROVE t \in AllTypes /\ t.nullable = TRUE
      <3>1. t \in CallTypes /\ t.nullable
        BY <1>1 DEF Completions
      <3> QED
        BY <3>1, ArgumentsAssumption DEF AllTypes
    <2> QED
      BY <1>1, <2>1, <2>2 DEF IDs
  <1>2. CASE type # NoType
    <2>1. Completions(type) = {type} /\ IDs(type) = {type.id} /\ type \in AllTypes
      BY <1>2, ArgumentsAssumption DEF Completions, IDs
    <2> QED
      BY <1>2, <2>1
  <1> QED
    BY <1>1, <1>2

LEMMA ResultsAre ==
  ASSUME NEW op \in BinaryOperationIDs, NEW l \in CallTypes \cup {NoType}, NEW r \in CallTypes \cup {NoType}
  PROVE  Results(op, l, r) = {TypeOf(k, MayBeNull(l, r)) : k \in ResultIDs(op, l, r)}
  <1>1. ASSUME NEW s \in Completions(l), NEW t \in Completions(r)
        PROVE  /\ s \in AllTypes /\ t \in AllTypes
               /\ (s.nullable \/ t.nullable) = MayBeNull(l, r)
    <2>1. /\ s \in AllTypes /\ (IF l = NoType THEN s.nullable = TRUE ELSE s = l)
          /\ t \in AllTypes /\ (IF r = NoType THEN t.nullable = TRUE ELSE t = r)
      BY CompletionFacts
    <2>2. s.nullable \in BOOLEAN /\ t.nullable \in BOOLEAN
      BY <2>1 DEF AllTypes
    <2> QED
      BY <2>1, <2>2 DEF MayBeNull
  <1>2. ASSUME NEW w \in Results(op, l, r) PROVE w \in {TypeOf(k, MayBeNull(l, r)) : k \in ResultIDs(op, l, r)}
    <2>1. PICK s \in Completions(l), t \in Completions(r) : w = ResultType(op, s, t) /\ w # NoType
      BY DEF Results
    <2>2. PICK k : k = ResultID(op, s.id, t.id) /\ k # "none" /\ w = TypeOf(k, s.nullable \/ t.nullable)
      BY <1>1, <2>1, ResultTypeIs
    <2>3. s.id \in IDs(l) /\ t.id \in IDs(r)
      <3>1. s.id \in OperandIDs /\ t.id \in OperandIDs
        BY <2>2, OperandsOnly
      <3> QED
        BY <3>1, CompletionFacts
    <2>4. k \in ResultIDs(op, l, r)
      BY <2>2, <2>3 DEF ResultIDs
    <2>5. w = TypeOf(k, MayBeNull(l, r))
      BY <1>1, <2>2
    <2> QED
      BY <2>4, <2>5
  <1>3. ASSUME NEW k \in ResultIDs(op, l, r) PROVE TypeOf(k, MayBeNull(l, r)) \in Results(op, l, r)
    <2>1. PICK i \in IDs(l), j \in IDs(r) : k = ResultID(op, i, j) /\ k # "none"
      BY DEF ResultIDs
    <2>2. PICK s \in Completions(l) : s.id = i
      BY CompletionFacts
    <2>3. PICK t \in Completions(r) : t.id = j
      BY CompletionFacts
    <2>4. ResultType(op, s, t) = TypeOf(k, s.nullable \/ t.nullable)
      BY <1>1, <2>1, <2>2, <2>3, ResultTypeIs
    <2>5. ResultType(op, s, t) = TypeOf(k, MayBeNull(l, r))
      BY <1>1, <2>4
    <2>6. TypeOf(k, MayBeNull(l, r)) # NoType
      BY <2>1 DEF TypeOf, NoType
    <2> QED
      BY <2>2, <2>3, <2>5, <2>6 DEF Results
  <1> QED
    BY <1>2, <1>3

\* Operand by operand, what can come of an argument beside one that is unknown.
OfAnyLeft(op, j, k) ==
  \/ k = ResultID(op, "Int", j)
  \/ k = ResultID(op, "Long", j)
  \/ k = ResultID(op, "Float", j)
  \/ k = ResultID(op, "Double", j)
  \/ k = ResultID(op, "DatetimeInterval", j)
  \/ k = ResultID(op, "YearMonthInterval", j)
  \/ k = ResultID(op, "Datetime", j)
OfAnyRight(op, i, k) ==
  \/ k = ResultID(op, i, "Int")
  \/ k = ResultID(op, i, "Long")
  \/ k = ResultID(op, i, "Float")
  \/ k = ResultID(op, i, "Double")
  \/ k = ResultID(op, i, "DatetimeInterval")
  \/ k = ResultID(op, i, "YearMonthInterval")
  \/ k = ResultID(op, i, "Datetime")

LEMMA UnknownArguments ==
  ASSUME NEW op \in BinaryOperationIDs, NEW t \in AllTypes, NEW k
  PROVE  /\ k \in ResultIDs(op, NoType, t) <=> k # "none" /\ OfAnyLeft(op, t.id, k)
         /\ k \in ResultIDs(op, t, NoType) <=> k # "none" /\ OfAnyRight(op, t.id, k)
         /\ k \in ResultIDs(op, NoType, NoType) <=> k # "none" /\ \E j \in OperandIDs : OfAnyLeft(op, j, k)
  <1>1. t # NoType
    BY NoTypeIsNone
  <1>2. IDs(t) = {t.id} /\ IDs(NoType) = OperandIDs
    BY <1>1 DEF IDs
  <1>3. \A j : OfAnyLeft(op, j, k) <=> \E i \in OperandIDs : k = ResultID(op, i, j)
    BY DEF OfAnyLeft, OperandIDs, NumericIDs, IntervalIDs
  <1>4. \A i : OfAnyRight(op, i, k) <=> \E j \in OperandIDs : k = ResultID(op, i, j)
    BY DEF OfAnyRight, OperandIDs, NumericIDs, IntervalIDs
  <1>5. \A l, r : k \in ResultIDs(op, l, r) <=> k # "none" /\ \E i \in IDs(l), j \in IDs(r) : k = ResultID(op, i, j)
    BY DEF ResultIDs
  <1>6. k \in ResultIDs(op, NoType, t) <=> k # "none" /\ OfAnyLeft(op, t.id, k)
    BY <1>2, <1>3, <1>5
  <1>7. k \in ResultIDs(op, t, NoType) <=> k # "none" /\ OfAnyRight(op, t.id, k)
    BY <1>2, <1>4, <1>5
  <1>8. k \in ResultIDs(op, NoType, NoType) <=> k # "none" /\ \E j \in OperandIDs : OfAnyLeft(op, j, k)
    BY <1>2, <1>3, <1>5
  <1> QED
    BY <1>6, <1>7, <1>8

LEMMA BothUnknown ==
  ASSUME NEW op \in BinaryOperationIDs
  PROVE  ResultIDs(op, NoType, NoType) = CASE op \in {"Add", "Subtract"} -> OperandIDs
                                           [] op \in {"Multiply", "Divide"} -> NumericIDs \cup IntervalIDs
                                           [] OTHER -> NumericIDs
  <1>1. PICK S \in SUBSET OperandIDs : S = CASE op \in {"Add", "Subtract"} -> OperandIDs
                                              [] op \in {"Multiply", "Divide"} -> NumericIDs \cup IntervalIDs
                                              [] OTHER -> NumericIDs
    BY DEF OperandIDs
  <1>2. IDs(NoType) = OperandIDs
    BY DEF IDs
  <1>3. ASSUME NEW k \in ResultIDs(op, NoType, NoType) PROVE k \in S
    <2>1. PICK i \in OperandIDs, j \in OperandIDs : k = ResultID(op, i, j) /\ k # "none"
      BY <1>2 DEF ResultIDs
    <2>2. NumericTypeUnifier(i, j) \in NumericIDs
      BY DEF NumericTypeUnifier, NumericIDs
    <2> QED
      BY <1>1, <2>1, <2>2 DEF ResultID, OperandIDs, IntervalIDs, BinaryOperationIDs
  <1>4. ASSUME NEW k \in S PROVE k \in ResultIDs(op, NoType, NoType)
    <2>1. \E i, j \in OperandIDs : ResultID(op, i, j) = k
      <3>1. CASE k \in NumericIDs
        <4>1. ResultID(op, k, k) = k
          BY <3>1 DEF ResultID, NumericTypeUnifier, NumericIDs
        <4> QED
          BY <3>1, <4>1 DEF OperandIDs
      <3>2. CASE k \in IntervalIDs /\ op \in {"Add", "Subtract"}
        <4>1. ResultID(op, k, k) = k
          BY <3>2 DEF ResultID, IntervalIDs, NumericIDs
        <4> QED
          BY <3>2, <4>1 DEF OperandIDs
      <3>3. CASE k \in IntervalIDs /\ op \in {"Multiply", "Divide"}
        <4>1. ResultID(op, k, "Int") = k
          BY <3>3 DEF ResultID, IntervalIDs, NumericIDs
        <4> QED
          BY <3>3, <4>1 DEF OperandIDs, NumericIDs
      <3>4. CASE k = "Datetime" /\ op \in {"Add", "Subtract"}
        <4>1. ResultID(op, k, "DatetimeInterval") = k
          BY <3>4 DEF ResultID, IntervalIDs, NumericIDs
        <4> QED
          BY <3>4, <4>1 DEF OperandIDs, IntervalIDs
      <3> QED
        BY <1>1, <3>1, <3>2, <3>3, <3>4 DEF OperandIDs, BinaryOperationIDs, IntervalIDs, NumericIDs
    <2>2. k # "none"
      BY <1>1 DEF OperandIDs, NumericIDs, IntervalIDs
    <2> QED
      BY <1>2, <2>1, <2>2 DEF ResultIDs
  <1> QED
    BY <1>1, <1>3, <1>4

\* A type that is known for some other argument is the type for all of them.
LEMMA PartialTypesAre ==
  ASSUME NEW op \in BinaryOperationIDs, NEW l \in AllTypes \cup {NoType}, NEW r \in AllTypes \cup {NoType},
         PartialType(op, l, r) # NoType
  PROVE  \E k : ResultIDs(op, l, r) = {k} /\ PartialType(op, l, r) = TypeOf(k, MayBeNull(l, r))
  <1>1. CASE l # NoType /\ r # NoType
    <2>1. PartialType(op, l, r) = ResultType(op, l, r)
      BY <1>1 DEF PartialType, ResultType, AddPartialType, SubtractPartialType, MultiplyPartialType,
         DividePartialType, ModuloPartialType
    <2>2. PICK k : k = ResultID(op, l.id, r.id) /\ k # "none" /\ ResultType(op, l, r) = TypeOf(k, l.nullable \/ r.nullable)
      BY <1>1, <2>1, ResultTypeIs
    <2>3. ResultIDs(op, l, r) = {k}
      BY <1>1, <2>2 DEF ResultIDs, IDs
    <2>4. l.nullable \in BOOLEAN /\ r.nullable \in BOOLEAN
      BY <1>1 DEF AllTypes
    <2>5. (l.nullable \/ r.nullable) = MayBeNull(l, r)
      BY <1>1, <2>4 DEF MayBeNull
    <2> QED
      BY <2>1, <2>2, <2>3, <2>5
  <1>2. CASE l = NoType /\ r = NoType
    BY <1>2 DEF PartialType, AddPartialType, SubtractPartialType, MultiplyPartialType, DividePartialType,
       ModuloPartialType, IfAmong, NoType
  <1>3. ASSUME l = NoType, r # NoType PROVE \E k : ResultIDs(op, l, r) = {k} /\ PartialType(op, l, r) = TypeOf(k, TRUE)
    <2>1. PICK j : j = r.id
      OBVIOUS
    <2>2. PICK k : /\ PartialType(op, l, r) = TypeOf(k, TRUE)
                   /\ \/ op = "Add" /\ j \in {"Double", "Datetime"} /\ k = j
                      \/ op = "Subtract" /\ j = "Datetime" /\ k = "DatetimeInterval"
                      \/ op = "Subtract" /\ j = "Double" /\ k = j
                      \/ op = "Multiply" /\ j \in IntervalIDs /\ k = j
      BY <1>3, <2>1 DEF PartialType, AddPartialType, SubtractPartialType, MultiplyPartialType, DividePartialType,
         ModuloPartialType, IfAmong, Known, BinaryOperationIDs
    <2>3. \A x : x # "none" /\ OfAnyLeft(op, j, x) <=> x = k
      BY <2>2 DEF OfAnyLeft, ResultID, NumericTypeUnifier, NumericIDs, IntervalIDs
    <2>4. ResultIDs(op, l, r) = {k}
      BY <1>3, <2>1, <2>3, UnknownArguments
    <2> QED
      BY <2>2, <2>4
  <1>4. ASSUME l # NoType, r = NoType PROVE \E k : ResultIDs(op, l, r) = {k} /\ PartialType(op, l, r) = TypeOf(k, TRUE)
    <2>1. PICK i : i = l.id
      OBVIOUS
    <2>2. PICK k : /\ PartialType(op, l, r) = TypeOf(k, TRUE) /\ k = i
                   /\ \/ op = "Add" /\ i \in {"Double", "Datetime"}
                      \/ op \in {"Subtract", "Divide"} /\ i \in {"Double"} \cup IntervalIDs
                      \/ op = "Multiply" /\ i \in IntervalIDs
                      \/ op = "Modulo" /\ i = "Double"
      BY <1>4, <2>1 DEF PartialType, AddPartialType, SubtractPartialType, MultiplyPartialType, DividePartialType,
         ModuloPartialType, IfAmong, Known, BinaryOperationIDs
    <2>3. \A x : x # "none" /\ OfAnyRight(op, i, x) <=> x = k
      BY <2>2 DEF OfAnyRight, ResultID, NumericTypeUnifier, NumericIDs, IntervalIDs
    <2>4. ResultIDs(op, l, r) = {k}
      BY <1>4, <2>1, <2>3, UnknownArguments
    <2> QED
      BY <2>2, <2>4
  <1>5. l = NoType \/ r = NoType => MayBeNull(l, r) = TRUE
    BY DEF MayBeNull
  <1> QED
    BY <1>1, <1>2, <1>3, <1>4, <1>5

\* A type is among those an operation can have: its id can, and it is nullable as it must be.
Fits(op, t, l, r) == t.id \in ResultIDs(op, l, r) /\ t.nullable = MayBeNull(l, r)

LEMMA CompleteSignatures ==
  ASSUME NEW op \in BinaryOperationIDs, NEW t \in AllTypes \cup {NoType}, NEW l \in AllTypes, NEW r \in AllTypes
  PROVE  Complete(t, ResultType(op, l, r)) <=>
           IF t = NoType THEN ResultIDs(op, l, r) # {} ELSE Fits(op, t, l, r)
  <1>1. l # NoType /\ r # NoType
    BY NoTypeIsNone
  <1>2. PICK n \in BOOLEAN : n = (l.nullable \/ r.nullable) /\ n = MayBeNull(l, r)
    <2>1. l.nullable \in BOOLEAN /\ r.nullable \in BOOLEAN
      BY DEF AllTypes
    <2> QED
      BY <1>1, <2>1 DEF MayBeNull
  <1>3. PICK k : k = ResultID(op, l.id, r.id)
    OBVIOUS
  <1>4. ResultIDs(op, l, r) = {k} \ {"none"}
    BY <1>1, <1>3 DEF ResultIDs, IDs
  <1>5. ResultType(op, l, r) = IF k = "none" THEN NoType ELSE TypeOf(k, n)
    BY <1>2, <1>3, ResultTypeIs
  <1>6. CASE k = "none"
    BY <1>4, <1>5, <1>6 DEF Complete, Fits
  <1>7. CASE k # "none"
    <2>1. ResultType(op, l, r) # NoType /\ k \in OperandIDs
      BY <1>3, <1>5, <1>7, OperandsOnly DEF TypeOf, NoType
    <2>2. t # NoType => (t = TypeOf(k, n) <=> t.id = k /\ t.nullable = n)
      <3>1. k \notin StringIDs
        BY <2>1 DEF OperandIDs, NumericIDs, IntervalIDs, StringIDs
      <3>2. t = TypeOf(k, n) => t.id = k /\ t.nullable = n
        BY DEF TypeOf
      <3> QED
        BY <3>1, <3>2, TypesOfIDs
    <2> QED
      BY <1>2, <1>4, <1>5, <1>7, <2>1, <2>2 DEF Complete, Fits
  <1> QED
    BY <1>6, <1>7

LEMMA NumericResultsAre ==
  ASSUME NEW i, NEW k
  PROVE  /\ DOMAIN NumericResults = NumericIDs
         /\ i \in NumericIDs => (k \in NumericResults[i] <=> \E j \in NumericIDs : k = NumericTypeUnifier(i, j))
  <1>1. DOMAIN NumericResults = NumericIDs
    BY DEF NumericResults, NumericIDs
  <1>2. /\ NumericResults["Int"] = NumericIDs /\ NumericResults["Long"] = {"Long", "Double"}
        /\ NumericResults["Float"] = {"Float", "Double"} /\ NumericResults["Double"] = {"Double"}
    BY DEF NumericResults
  <1>3. (\E j \in NumericIDs : k = NumericTypeUnifier(i, j)) <=>
           \/ k = NumericTypeUnifier(i, "Int") \/ k = NumericTypeUnifier(i, "Long")
           \/ k = NumericTypeUnifier(i, "Float") \/ k = NumericTypeUnifier(i, "Double")
    BY DEF NumericIDs
  <1>4. ASSUME i \in NumericIDs
        PROVE  k \in NumericResults[i] <=> \E j \in NumericIDs : k = NumericTypeUnifier(i, j)
    <2>1. CASE i = "Int"
      <3>1. /\ NumericTypeUnifier("Int", "Int") = "Int" /\ NumericTypeUnifier("Int", "Long") = "Long"
            /\ NumericTypeUnifier("Int", "Float") = "Float" /\ NumericTypeUnifier("Int", "Double") = "Double"
        BY DEF NumericTypeUnifier
      <3> QED
        BY <1>2, <1>3, <2>1, <3>1 DEF NumericIDs
    <2>2. CASE i = "Long"
      <3>1. /\ NumericTypeUnifier("Long", "Int") = "Long" /\ NumericTypeUnifier("Long", "Long") = "Long"
            /\ NumericTypeUnifier("Long", "Float") = "Double" /\ NumericTypeUnifier("Long", "Double") = "Double"
        BY DEF NumericTypeUnifier
      <3> QED
        BY <1>2, <1>3, <2>2, <3>1 DEF NumericIDs
    <2>3. CASE i = "Float"
      <3>1. /\ NumericTypeUnifier("Float", "Int") = "Float" /\ NumericTypeUnifier("Float", "Long") = "Double"
            /\ NumericTypeUnifier("Float", "Float") = "Float" /\ NumericTypeUnifier("Float", "Double") = "Double"
        BY DEF NumericTypeUnifier
      <3> QED
        BY <1>2, <1>3, <2>3, <3>1 DEF NumericIDs
    <2>4. CASE i = "Double"
      <3>1. /\ NumericTypeUnifier("Double", "Int") = "Double" /\ NumericTypeUnifier("Double", "Long") = "Double"
            /\ NumericTypeUnifier("Double", "Float") = "Double" /\ NumericTypeUnifier("Double", "Double") = "Double"
        BY DEF NumericTypeUnifier
      <3> QED
        BY <1>2, <1>3, <2>4, <3>1 DEF NumericIDs
    <2> QED
      BY <1>4, <2>1, <2>2, <2>3, <2>4 DEF NumericIDs
  <1> QED
    BY <1>1, <1>4

\* What the plausibility rules say of one argument, of type j on the right or i on the left.
NumbersLead(i, k) == i \in NumericIDs /\ \E j \in NumericIDs : k = NumericTypeUnifier(i, j)
FromRight(op, j, k) ==
  \/ NumbersLead(j, k)
  \/ op = "Add" /\ ((k = "Datetime" /\ j \in {"Datetime"} \cup IntervalIDs) \/ (k \in IntervalIDs /\ j = k))
  \/ op = "Subtract" /\ ((j = "Datetime" /\ k = "DatetimeInterval") \/ (j \in IntervalIDs /\ k \in {"Datetime", j}))
  \/ op \in {"Multiply", "Divide"} /\ j \in NumericIDs /\ k \in IntervalIDs
  \/ op = "Multiply" /\ j \in IntervalIDs /\ k = j
FromLeft(op, i, k) ==
  \/ NumbersLead(i, k)
  \/ op = "Add" /\ ((k = "Datetime" /\ i \in {"Datetime"} \cup IntervalIDs) \/ (k \in IntervalIDs /\ i = k))
  \/ op = "Subtract" /\ ((i = "Datetime" /\ k \in {"Datetime", "DatetimeInterval"}) \/ (i \in IntervalIDs /\ k = i))
  \/ op = "Multiply" /\ i \in NumericIDs /\ k \in IntervalIDs
  \/ op \in {"Multiply", "Divide"} /\ i \in IntervalIDs /\ k = i

LEMMA UnknownLeads ==
  ASSUME NEW op \in BinaryOperationIDs, NEW i, NEW k
  PROVE  /\ FromRight(op, i, k) <=> k # "none" /\ OfAnyLeft(op, i, k)
         /\ FromLeft(op, i, k) <=> k # "none" /\ OfAnyRight(op, i, k)
  <1>1. /\ NumericTypeUnifier(i, "Int") = NumericTypeUnifier("Int", i)
        /\ NumericTypeUnifier(i, "Long") = NumericTypeUnifier("Long", i)
        /\ NumericTypeUnifier(i, "Float") = NumericTypeUnifier("Float", i)
        /\ NumericTypeUnifier(i, "Double") = NumericTypeUnifier("Double", i)
        /\ \A j : NumericTypeUnifier(i, j) # "none"
    <2>1. \A j : {i, j} = {j, i}
      OBVIOUS
    <2> QED
      BY <2>1 DEF NumericTypeUnifier
  <1>2. NumbersLead(i, k) <=> /\ i \in NumericIDs
                             /\ \/ k = NumericTypeUnifier(i, "Int") \/ k = NumericTypeUnifier(i, "Long")
                                \/ k = NumericTypeUnifier(i, "Float") \/ k = NumericTypeUnifier(i, "Double")
    BY DEF NumbersLead, NumericIDs
  <1>3. FromRight(op, i, k) <=> k # "none" /\ OfAnyLeft(op, i, k)
    <2>1. CASE op = "Add"
      BY <1>1, <1>2, <2>1 DEF FromRight, OfAnyLeft, ResultID, NumericIDs, IntervalIDs
    <2>2. CASE op = "Subtract"
      BY <1>1, <1>2, <2>2 DEF FromRight, OfAnyLeft, ResultID, NumericIDs, IntervalIDs
    <2>3. CASE op = "Multiply"
      BY <1>1, <1>2, <2>3 DEF FromRight, OfAnyLeft, ResultID, NumericIDs, IntervalIDs
    <2>4. CASE op = "Divide"
      BY <1>1, <1>2, <2>4 DEF FromRight, OfAnyLeft, ResultID, NumericIDs, IntervalIDs
    <2>5. CASE op = "Modulo"
      BY <1>1, <1>2, <2>5 DEF FromRight, OfAnyLeft, ResultID, NumericIDs, IntervalIDs
    <2> QED
      BY <2>1, <2>2, <2>3, <2>4, <2>5 DEF BinaryOperationIDs
  <1>4. FromLeft(op, i, k) <=> k # "none" /\ OfAnyRight(op, i, k)
    <2>1. CASE op = "Add"
      BY <1>1, <1>2, <2>1 DEF FromLeft, OfAnyRight, ResultID, NumericIDs, IntervalIDs
    <2>2. CASE op = "Subtract"
      BY <1>1, <1>2, <2>2 DEF FromLeft, OfAnyRight, ResultID, NumericIDs, IntervalIDs
    <2>3. CASE op = "Multiply"
      BY <1>1, <1>2, <2>3 DEF FromLeft, OfAnyRight, ResultID, NumericIDs, IntervalIDs
    <2>4. CASE op = "Divide"
      BY <1>1, <1>2, <2>4 DEF FromLeft, OfAnyRight, ResultID, NumericIDs, IntervalIDs
    <2>5. CASE op = "Modulo"
      BY <1>1, <1>2, <2>5 DEF FromLeft, OfAnyRight, ResultID, NumericIDs, IntervalIDs
    <2> QED
      BY <2>1, <2>2, <2>3, <2>4, <2>5 DEF BinaryOperationIDs
  <1> QED
    BY <1>3, <1>4

\* The tables of the plausibility rules.
SumsFrom == [Int |-> {"Int"}, Long |-> {"Int", "Long"}, Float |-> {"Int", "Float"},
             Double |-> NumericIDs, Datetime |-> {"Datetime"} \cup IntervalIDs,
             DatetimeInterval |-> {"DatetimeInterval"},
             YearMonthInterval |-> {"YearMonthInterval"}]
ProductsFrom == [Int |-> {"Int"}, Long |-> {"Int", "Long"}, Float |-> {"Int", "Float"},
                 Double |-> NumericIDs,
                 DatetimeInterval |-> NumericIDs \cup {"DatetimeInterval"},
                 YearMonthInterval |-> NumericIDs \cup {"YearMonthInterval"}]
RightDiffers == [id \in Arithmetic \cup {"Datetime"} |->
                  CASE id = "Datetime"     -> {"DatetimeInterval"}
                    [] id \in IntervalIDs -> {"Datetime", id}
                    [] OTHER              -> NumericResults[id]]
LeftDiffers  == [id \in Arithmetic \cup {"Datetime"} |->
                  CASE id = "Datetime"     -> {"Datetime", "DatetimeInterval"}
                    [] id \in IntervalIDs -> {id}
                    [] OTHER              -> NumericResults[id]]
RightDivides == [id \in NumericIDs |-> NumericResults[id] \cup IntervalIDs]
LeftDivides  == [id \in Arithmetic |-> IF id \in NumericIDs THEN NumericResults[id] ELSE {id}]

LEMMA TablesAre ==
  /\ DOMAIN SumsFrom = OperandIDs /\ SumsFrom["Int"] = {"Int"} /\ SumsFrom["Long"] = {"Int", "Long"}
  /\ SumsFrom["Float"] = {"Int", "Float"} /\ SumsFrom["Double"] = NumericIDs
  /\ SumsFrom["Datetime"] = {"Datetime"} \cup IntervalIDs
  /\ SumsFrom["DatetimeInterval"] = {"DatetimeInterval"} /\ SumsFrom["YearMonthInterval"] = {"YearMonthInterval"}
  /\ DOMAIN ProductsFrom = NumericIDs \cup IntervalIDs
  /\ ProductsFrom["Int"] = {"Int"} /\ ProductsFrom["Long"] = {"Int", "Long"}
  /\ ProductsFrom["Float"] = {"Int", "Float"} /\ ProductsFrom["Double"] = NumericIDs
  /\ ProductsFrom["DatetimeInterval"] = NumericIDs \cup {"DatetimeInterval"}
  /\ ProductsFrom["YearMonthInterval"] = NumericIDs \cup {"YearMonthInterval"}
  /\ DOMAIN RightDiffers = OperandIDs /\ DOMAIN LeftDiffers = OperandIDs
  /\ \A i \in NumericIDs : RightDiffers[i] = NumericResults[i] /\ LeftDiffers[i] = NumericResults[i]
  /\ RightDiffers["Datetime"] = {"DatetimeInterval"}
  /\ LeftDiffers["Datetime"] = {"Datetime", "DatetimeInterval"}
  /\ \A i \in IntervalIDs : RightDiffers[i] = {"Datetime", i} /\ LeftDiffers[i] = {i}
  /\ DOMAIN RightDivides = NumericIDs /\ DOMAIN LeftDivides = NumericIDs \cup IntervalIDs
  /\ \A i \in NumericIDs : RightDivides[i] = NumericResults[i] \cup IntervalIDs /\ LeftDivides[i] = NumericResults[i]
  /\ \A i \in IntervalIDs : LeftDivides[i] = {i}
  <1>1. /\ DOMAIN SumsFrom = OperandIDs /\ SumsFrom["Int"] = {"Int"} /\ SumsFrom["Long"] = {"Int", "Long"}
        /\ SumsFrom["Float"] = {"Int", "Float"} /\ SumsFrom["Double"] = NumericIDs
        /\ SumsFrom["Datetime"] = {"Datetime"} \cup IntervalIDs
        /\ SumsFrom["DatetimeInterval"] = {"DatetimeInterval"} /\ SumsFrom["YearMonthInterval"] = {"YearMonthInterval"}
    BY DEF SumsFrom, OperandIDs, NumericIDs, IntervalIDs
  <1>2. /\ DOMAIN ProductsFrom = NumericIDs \cup IntervalIDs
        /\ ProductsFrom["Int"] = {"Int"} /\ ProductsFrom["Long"] = {"Int", "Long"}
        /\ ProductsFrom["Float"] = {"Int", "Float"} /\ ProductsFrom["Double"] = NumericIDs
        /\ ProductsFrom["DatetimeInterval"] = NumericIDs \cup {"DatetimeInterval"}
        /\ ProductsFrom["YearMonthInterval"] = NumericIDs \cup {"YearMonthInterval"}
    BY DEF ProductsFrom, NumericIDs, IntervalIDs
  <1>3. Arithmetic \cup {"Datetime"} = OperandIDs /\ Arithmetic = NumericIDs \cup IntervalIDs
    BY DEF Arithmetic, OperandIDs
  <1>4. /\ \A i \in NumericIDs : i \notin IntervalIDs /\ i # "Datetime" /\ i \in OperandIDs
        /\ \A i \in IntervalIDs : i \notin NumericIDs /\ i # "Datetime" /\ i \in OperandIDs
        /\ "Datetime" \in OperandIDs
    BY DEF NumericIDs, IntervalIDs, OperandIDs
  <1>6. /\ DOMAIN RightDiffers = OperandIDs
        /\ \A i \in NumericIDs : RightDiffers[i] = NumericResults[i]
        /\ RightDiffers["Datetime"] = {"DatetimeInterval"}
        /\ \A i \in IntervalIDs : RightDiffers[i] = {"Datetime", i}
    BY <1>3, <1>4 DEF RightDiffers
  <1>9. /\ DOMAIN LeftDiffers = OperandIDs
        /\ \A i \in NumericIDs : LeftDiffers[i] = NumericResults[i]
        /\ LeftDiffers["Datetime"] = {"Datetime", "DatetimeInterval"}
        /\ \A i \in IntervalIDs : LeftDiffers[i] = {i}
    BY <1>3, <1>4 DEF LeftDiffers
  <1>10. /\ DOMAIN RightDivides = NumericIDs
         /\ \A i \in NumericIDs : RightDivides[i] = NumericResults[i] \cup IntervalIDs
    BY DEF RightDivides
  <1>11. /\ DOMAIN LeftDivides = NumericIDs \cup IntervalIDs
         /\ \A i \in NumericIDs : LeftDivides[i] = NumericResults[i]
         /\ \A i \in IntervalIDs : LeftDivides[i] = {i}
    BY <1>3, <1>4 DEF LeftDivides
  <1> QED
    BY <1>1, <1>2, <1>6, <1>9, <1>10, <1>11

LEMMA PlausibleBesideUnknown ==
  ASSUME NEW op \in BinaryOperationIDs, NEW t \in AllTypes, NEW a \in AllTypes
  PROVE  /\ Plausible(op, t, NoType, a) <=> t.nullable /\ FromRight(op, a.id, t.id)
         /\ Plausible(op, t, a, NoType) <=> t.nullable /\ FromLeft(op, a.id, t.id)
         /\ Plausible(op, NoType, NoType, a) <=> \E k : FromRight(op, a.id, k)
         /\ Plausible(op, NoType, a, NoType) <=> \E k : FromLeft(op, a.id, k)
  <1>1. t # NoType /\ a # NoType
    BY NoTypeIsNone
  <1>2. PICK i, k : i = a.id /\ k = t.id
    OBVIOUS
  <1>3. /\ NullabilityIsPlausible(t, NoType, a) <=> t.nullable
        /\ NullabilityIsPlausible(t, a, NoType) <=> t.nullable
        /\ NullabilityIsPlausible(NoType, NoType, a) /\ NullabilityIsPlausible(NoType, a, NoType)
    BY <1>1 DEF NullabilityIsPlausible
  <1>4. DOMAIN NumericResults = NumericIDs /\ (i \in NumericIDs => (k \in NumericResults[i] <=> NumbersLead(i, k)))
    BY NumericResultsAre DEF NumbersLead
  <1>5. /\ i \in NumericIDs => NumbersLead(i, "Double")
        /\ \A x : NumbersLead(i, x) => i \in NumericIDs
    BY DEF NumbersLead, NumericTypeUnifier, NumericIDs
  <1>6. NumbersLead(i, k) <=> \/ k = "Int" /\ i = "Int"
                              \/ k = "Long" /\ i \in {"Int", "Long"}
                              \/ k = "Float" /\ i \in {"Int", "Float"}
                              \/ k = "Double" /\ i \in NumericIDs
    <2>1. NumbersLead(i, k) <=> /\ i \in NumericIDs
                               /\ \/ k = NumericTypeUnifier(i, "Int") \/ k = NumericTypeUnifier(i, "Long")
                                  \/ k = NumericTypeUnifier(i, "Float") \/ k = NumericTypeUnifier(i, "Double")
      BY DEF NumbersLead, NumericIDs
    <2> QED
      BY <2>1 DEF NumericTypeUnifier, NumericIDs
  <1>7. CASE op = "Add"
    <2>1. /\ AddPlausible(t, NoType, a) <=> t.nullable /\ FromRight(op, i, k)
          /\ AddPlausible(t, a, NoType) <=> t.nullable /\ FromLeft(op, i, k)
      <3>1. /\ AddPlausible(t, NoType, a) <=> t.nullable /\ k \in DOMAIN SumsFrom /\ i \in SumsFrom[k]
            /\ AddPlausible(t, a, NoType) <=> t.nullable /\ k \in DOMAIN SumsFrom /\ i \in SumsFrom[k]
        BY <1>1, <1>2 DEF AddPlausible, Known, SumsFrom
      <3>2. k \in DOMAIN SumsFrom /\ i \in SumsFrom[k] <=>
              \/ NumbersLead(i, k)
              \/ k = "Datetime" /\ i \in {"Datetime"} \cup IntervalIDs
              \/ k \in IntervalIDs /\ i = k
        BY <1>6, TablesAre DEF OperandIDs, NumericIDs, IntervalIDs
      <3> QED
        BY <1>7, <3>1, <3>2 DEF FromRight, FromLeft
    <2>2. /\ AddPlausible(NoType, NoType, a) <=> i \in OperandIDs
          /\ AddPlausible(NoType, a, NoType) <=> i \in OperandIDs
      BY <1>1, <1>2 DEF AddPlausible, Known, Arithmetic, OperandIDs
    <2>3. /\ (\E x : FromRight(op, i, x)) <=> i \in OperandIDs
          /\ (\E x : FromLeft(op, i, x)) <=> i \in OperandIDs
      BY <1>5, <1>7 DEF FromRight, FromLeft, OperandIDs, IntervalIDs
    <2> QED
      BY <1>2, <1>7, <2>1, <2>2, <2>3 DEF Plausible
  <1>8. CASE op = "Subtract"
    <2>1. /\ SubtractPlausible(t, NoType, a) <=> t.nullable /\ FromRight(op, i, k)
          /\ SubtractPlausible(t, a, NoType) <=> t.nullable /\ FromLeft(op, i, k)
      <3>1. /\ SubtractPlausible(t, NoType, a) <=> t.nullable /\ i \in DOMAIN RightDiffers /\ k \in RightDiffers[i]
            /\ SubtractPlausible(t, a, NoType) <=> t.nullable /\ i \in DOMAIN LeftDiffers /\ k \in LeftDiffers[i]
        BY <1>1, <1>2, <1>3 DEF SubtractPlausible, Leads, RightDiffers, LeftDiffers
      <3>2. /\ DOMAIN RightDiffers = OperandIDs /\ DOMAIN LeftDiffers = OperandIDs
            /\ i \in NumericIDs => RightDiffers[i] = NumericResults[i] /\ LeftDiffers[i] = NumericResults[i]
            /\ RightDiffers["Datetime"] = {"DatetimeInterval"}
            /\ LeftDiffers["Datetime"] = {"Datetime", "DatetimeInterval"}
            /\ \A j \in IntervalIDs : RightDiffers[j] = {"Datetime", j} /\ LeftDiffers[j] = {j}
        BY TablesAre DEF IntervalIDs
      <3> QED
        BY <1>4, <1>5, <1>8, <3>1, <3>2 DEF FromRight, FromLeft, OperandIDs, NumericIDs, IntervalIDs
    <2>2. /\ SubtractPlausible(NoType, NoType, a) <=> i \in OperandIDs
          /\ SubtractPlausible(NoType, a, NoType) <=> i \in OperandIDs
      BY <1>1, <1>2, <1>3 DEF SubtractPlausible, Leads, Arithmetic, OperandIDs
    <2>3. /\ (\E x : FromRight(op, i, x)) <=> i \in OperandIDs
          /\ (\E x : FromLeft(op, i, x)) <=> i \in OperandIDs
      BY <1>5, <1>8 DEF FromRight, FromLeft, OperandIDs, IntervalIDs
    <2> QED
      BY <1>2, <1>8, <2>1, <2>2, <2>3 DEF Plausible
  <1>9. CASE op = "Multiply"
    <2>1. /\ MultiplyPlausible(t, NoType, a) <=> t.nullable /\ FromRight(op, i, k)
          /\ MultiplyPlausible(t, a, NoType) <=> t.nullable /\ FromLeft(op, i, k)
      <3>1. /\ MultiplyPlausible(t, NoType, a) <=> t.nullable /\ k \in DOMAIN ProductsFrom /\ i \in ProductsFrom[k]
            /\ MultiplyPlausible(t, a, NoType) <=> t.nullable /\ k \in DOMAIN ProductsFrom /\ i \in ProductsFrom[k]
        BY <1>1, <1>2 DEF MultiplyPlausible, Known, ProductsFrom
      <3>2. k \in DOMAIN ProductsFrom /\ i \in ProductsFrom[k] <=>
              \/ NumbersLead(i, k)
              \/ k \in IntervalIDs /\ (i \in NumericIDs \/ i = k)
        BY <1>6, TablesAre DEF NumericIDs, IntervalIDs
      <3> QED
        BY <1>9, <3>1, <3>2 DEF FromRight, FromLeft
    <2>2. /\ MultiplyPlausible(NoType, NoType, a) <=> i \in Arithmetic
          /\ MultiplyPlausible(NoType, a, NoType) <=> i \in Arithmetic
      BY <1>1, <1>2 DEF MultiplyPlausible, Known
    <2>3. /\ (\E x : FromRight(op, i, x)) <=> i \in Arithmetic
          /\ (\E x : FromLeft(op, i, x)) <=> i \in Arithmetic
      BY <1>5, <1>9 DEF FromRight, FromLeft, Arithmetic, IntervalIDs
    <2> QED
      BY <1>2, <1>9, <2>1, <2>2, <2>3 DEF Plausible
  <1>10. CASE op = "Divide"
    <2>1. /\ DividePlausible(t, NoType, a) <=> t.nullable /\ FromRight(op, i, k)
          /\ DividePlausible(t, a, NoType) <=> t.nullable /\ FromLeft(op, i, k)
      <3>1. /\ DividePlausible(t, NoType, a) <=> t.nullable /\ i \in DOMAIN RightDivides /\ k \in RightDivides[i]
            /\ DividePlausible(t, a, NoType) <=> t.nullable /\ i \in DOMAIN LeftDivides /\ k \in LeftDivides[i]
        BY <1>1, <1>2, <1>3 DEF DividePlausible, Leads, RightDivides, LeftDivides
      <3>2. /\ DOMAIN RightDivides = NumericIDs /\ DOMAIN LeftDivides = NumericIDs \cup IntervalIDs
            /\ i \in NumericIDs => RightDivides[i] = NumericResults[i] \cup IntervalIDs /\ LeftDivides[i] = NumericResults[i]
            /\ i \in IntervalIDs => LeftDivides[i] = {i}
        BY TablesAre
      <3> QED
        BY <1>4, <1>5, <1>10, <3>1, <3>2 DEF FromRight, FromLeft, NumericIDs, IntervalIDs
    <2>2. /\ DividePlausible(NoType, NoType, a) <=> i \in NumericIDs
          /\ DividePlausible(NoType, a, NoType) <=> i \in Arithmetic
      BY <1>1, <1>2, <1>3 DEF DividePlausible, Leads
    <2>3. /\ (\E x : FromRight(op, i, x)) <=> i \in NumericIDs
          /\ (\E x : FromLeft(op, i, x)) <=> i \in Arithmetic
      BY <1>5, <1>10 DEF FromRight, FromLeft, Arithmetic, IntervalIDs
    <2> QED
      BY <1>2, <1>10, <2>1, <2>2, <2>3 DEF Plausible
  <1>11. CASE op = "Modulo"
    <2>1. /\ ModuloPlausible(t, NoType, a) <=> t.nullable /\ NumbersLead(i, k)
          /\ ModuloPlausible(t, a, NoType) <=> t.nullable /\ NumbersLead(i, k)
          /\ ModuloPlausible(NoType, NoType, a) <=> i \in NumericIDs
          /\ ModuloPlausible(NoType, a, NoType) <=> i \in NumericIDs
      BY <1>1, <1>2, <1>3, <1>4, <1>5 DEF ModuloPlausible, Leads
    <2>2. \A x : (FromRight(op, i, x) <=> NumbersLead(i, x)) /\ (FromLeft(op, i, x) <=> NumbersLead(i, x))
      BY <1>11 DEF FromRight, FromLeft
    <2> QED
      BY <1>2, <1>5, <1>11, <2>1, <2>2 DEF Plausible
  <1> QED
    BY <1>7, <1>8, <1>9, <1>10, <1>11 DEF BinaryOperationIDs

LEMMA PlausibleAre ==
  ASSUME NEW op \in BinaryOperationIDs, NEW l \in AllTypes \cup {NoType}, NEW r \in AllTypes \cup {NoType}
  PROVE  /\ \A t \in AllTypes : Plausible(op, t, l, r) <=> Fits(op, t, l, r)
         /\ Plausible(op, NoType, l, r) <=> ResultIDs(op, l, r) # {}
  <1>1. ASSUME l # NoType, r # NoType, NEW t \in AllTypes \cup {NoType}
        PROVE  Plausible(op, t, l, r) <=> IF t = NoType THEN ResultIDs(op, l, r) # {} ELSE Fits(op, t, l, r)
    <2>1. l \in AllTypes /\ r \in AllTypes
      BY <1>1
    <2>2. Complete(t, ResultType(op, l, r)) <=> IF t = NoType THEN ResultIDs(op, l, r) # {} ELSE Fits(op, t, l, r)
      BY <2>1, CompleteSignatures
    <2>3. t # NoType /\ Fits(op, t, l, r) => NullabilityIsPlausible(t, l, r)
      BY <1>1 DEF Fits, MayBeNull, NullabilityIsPlausible
    <2>4. t = NoType => NullabilityIsPlausible(t, l, r)
      BY DEF NullabilityIsPlausible
    <2>5. Plausible(op, t, l, r) <=>
            /\ op \in {"Subtract", "Divide", "Modulo"} => NullabilityIsPlausible(t, l, r)
            /\ Complete(t, ResultType(op, l, r))
      BY <1>1 DEF Plausible, ResultType, AddPlausible, SubtractPlausible, MultiplyPlausible, DividePlausible,
         ModuloPlausible, BinaryOperationIDs
    <2> QED
      BY <2>2, <2>3, <2>4, <2>5
  <1>2. CASE l = NoType /\ r # NoType
    <2>1. r \in AllTypes /\ MayBeNull(l, r) = TRUE
      BY <1>2 DEF MayBeNull
    <2>2. \A k : FromRight(op, r.id, k) <=> k \in ResultIDs(op, l, r)
      BY <1>2, <2>1, UnknownLeads, UnknownArguments
    <2>3. ASSUME NEW t \in AllTypes PROVE Plausible(op, t, l, r) <=> Fits(op, t, l, r)
      <3>1. Plausible(op, t, NoType, r) <=> t.nullable /\ FromRight(op, r.id, t.id)
        BY <2>1, PlausibleBesideUnknown
      <3>2. t.nullable \in BOOLEAN
        BY DEF AllTypes
      <3> QED
        BY <1>2, <2>1, <2>2, <3>1, <3>2 DEF Fits
    <2>4. PICK t \in AllTypes : TRUE
      BY <2>1
    <2>5. Plausible(op, NoType, NoType, r) <=> \E k : FromRight(op, r.id, k)
      BY <2>1, <2>4, PlausibleBesideUnknown
    <2> QED
      BY <1>2, <2>2, <2>3, <2>5
  <1>3. CASE l # NoType /\ r = NoType
    <2>1. l \in AllTypes /\ MayBeNull(l, r) = TRUE
      BY <1>3 DEF MayBeNull
    <2>2. \A k : FromLeft(op, l.id, k) <=> k \in ResultIDs(op, l, r)
      BY <1>3, <2>1, UnknownLeads, UnknownArguments
    <2>3. ASSUME NEW t \in AllTypes PROVE Plausible(op, t, l, r) <=> Fits(op, t, l, r)
      <3>1. Plausible(op, t, l, NoType) <=> t.nullable /\ FromLeft(op, l.id, t.id)
        BY <2>1, PlausibleBesideUnknown
      <3>2. t.nullable \in BOOLEAN
        BY DEF AllTypes
      <3> QED
        BY <1>3, <2>1, <2>2, <3>1, <3>2 DEF Fits
    <2>4. PICK t \in AllTypes : TRUE
      BY <2>1
    <2>5. Plausible(op, NoType, l, NoType) <=> \E k : FromLeft(op, l.id, k)
      BY <2>1, <2>4, PlausibleBesideUnknown
    <2> QED
      BY <1>3, <2>2, <2>3, <2>5
  <1>4. CASE l = NoType /\ r = NoType
    <2>1. PICK S \in SUBSET OperandIDs :
            /\ S = ResultIDs(op, NoType, NoType) /\ "Int" \in S
            /\ op \in {"Add", "Subtract"} => S = OperandIDs
            /\ op \in {"Multiply", "Divide"} => S = Arithmetic
            /\ op = "Modulo" => S = NumericIDs
      BY BothUnknown DEF OperandIDs, Arithmetic, NumericIDs, BinaryOperationIDs
    <2>2. MayBeNull(l, r) = TRUE /\ Arithmetic \cup {"Datetime"} = OperandIDs
      BY <1>4 DEF MayBeNull, Arithmetic, OperandIDs
    <2>3. ASSUME NEW t \in AllTypes PROVE Plausible(op, t, l, r) <=> Fits(op, t, l, r)
      <3>1. t # NoType /\ t.nullable \in BOOLEAN
        BY NoTypeIsNone DEF AllTypes
      <3>2. Plausible(op, t, NoType, NoType) <=> t.nullable /\ t.id \in S
        BY <2>1, <2>2, <3>1 DEF Plausible, AddPlausible, SubtractPlausible, MultiplyPlausible, DividePlausible,
           ModuloPlausible, NullabilityIsPlausible, BinaryOperationIDs
      <3> QED
        BY <1>4, <2>1, <2>2, <3>1, <3>2 DEF Fits
    <2>4. Plausible(op, NoType, NoType, NoType)
      BY DEF Plausible, AddPlausible, SubtractPlausible, MultiplyPlausible, DividePlausible, ModuloPlausible,
         NullabilityIsPlausible
    <2> QED
      BY <1>4, <2>1, <2>3, <2>4
  <1>5. CASE l # NoType /\ r # NoType
    <2>1. ASSUME NEW t \in AllTypes PROVE Plausible(op, t, l, r) <=> Fits(op, t, l, r)
      BY <1>1, <1>5, NoTypeIsNone
    <2>2. Plausible(op, NoType, l, r) <=> ResultIDs(op, l, r) # {}
      BY <1>1, <1>5
    <2> QED
      BY <2>1, <2>2
  <1> QED
    BY <1>2, <1>3, <1>4, <1>5

LEMMA HintsAre ==
  ASSUME NEW op \in BinaryOperationIDs, NEW t \in AllTypes, PushDownTypeHint(op, t) # <<NoType, NoType>>
  PROVE  /\ PushDownTypeHint(op, t) \in {<<t, t>>, <<t, NoType>>}
         /\ t.id \in ResultIDs(op, PushDownTypeHint(op, t)[1], PushDownTypeHint(op, t)[2])
  <1>1. t # NoType /\ IDs(t) = {t.id} /\ IDs(NoType) = OperandIDs
    BY NoTypeIsNone DEF IDs
  <1>2. \/ /\ PushDownTypeHint(op, t) = <<t, t>>
           /\ \/ t.id \in NumericIDs
              \/ op = "Add" /\ t.id \in IntervalIDs
              \/ op = "Subtract" /\ t.id = "YearMonthInterval"
        \/ /\ PushDownTypeHint(op, t) = <<t, NoType>>
           /\ \/ op = "Subtract" /\ t.id = "Datetime"
              \/ op = "Divide" /\ t.id \in IntervalIDs
    <2>1. PICK first, both :
            /\ PushDownTypeHint(op, t) = Hints(t, both, first)
            /\ t.id \in both => \/ t.id \in NumericIDs
                                \/ op = "Add" /\ t.id \in IntervalIDs
                                \/ op = "Subtract" /\ t.id = "YearMonthInterval"
            /\ t.id \in first => \/ op = "Subtract" /\ t.id = "Datetime"
                                 \/ op = "Divide" /\ t.id \in IntervalIDs
      <3>1. CASE op = "Add"
        <4>1. PushDownTypeHint(op, t) = Hints(t, Arithmetic, {})
          BY <3>1 DEF PushDownTypeHint, AddHint
        <4> QED
          BY <3>1, <4>1 DEF Arithmetic
      <3>2. CASE op = "Subtract"
        <4>1. PushDownTypeHint(op, t) = Hints(t, NumericIDs \cup {"YearMonthInterval"}, {"Datetime"})
          BY <3>2 DEF PushDownTypeHint, SubtractHint
        <4> QED
          BY <3>2, <4>1
      <3>3. CASE op = "Multiply"
        <4>1. PushDownTypeHint(op, t) = Hints(t, NumericIDs, {})
          BY <3>3 DEF PushDownTypeHint, MultiplyHint
        <4> QED
          BY <3>3, <4>1
      <3>4. CASE op = "Divide"
        <4>1. PushDownTypeHint(op, t) = Hints(t, NumericIDs, IntervalIDs)
          BY <3>4 DEF PushDownTypeHint, DivideHint
        <4> QED
          BY <3>4, <4>1
      <3>5. CASE op = "Modulo"
        <4>1. PushDownTypeHint(op, t) = Hints(t, NumericIDs, {})
          BY <3>5 DEF PushDownTypeHint, ModuloHint
        <4> QED
          BY <3>5, <4>1
      <3> QED
        BY <3>1, <3>2, <3>3, <3>4, <3>5 DEF BinaryOperationIDs
    <2>2. \/ t.id \in both /\ Hints(t, both, first) = <<t, t>>
          \/ t.id \in first /\ Hints(t, both, first) = <<t, NoType>>
      BY <1>1, <2>1 DEF Hints
    <2> QED
      BY <2>1, <2>2
  <1>3. CASE /\ PushDownTypeHint(op, t) = <<t, t>>
             /\ \/ t.id \in NumericIDs
                \/ op = "Add" /\ t.id \in IntervalIDs
                \/ op = "Subtract" /\ t.id = "YearMonthInterval"
    <2>1. ResultID(op, t.id, t.id) = t.id /\ t.id # "none"
      BY <1>3 DEF ResultID, NumericTypeUnifier, NumericIDs, IntervalIDs
    <2> QED
      BY <1>1, <1>3, <2>1 DEF ResultIDs
  <1>4. CASE /\ PushDownTypeHint(op, t) = <<t, NoType>>
             /\ \/ op = "Subtract" /\ t.id = "Datetime"
                \/ op = "Divide" /\ t.id \in IntervalIDs
    <2>1. PICK j \in OperandIDs : ResultID(op, t.id, j) = t.id
      <3>1. op = "Divide" => ResultID(op, t.id, "Int") = t.id
        BY <1>4 DEF ResultID, NumericIDs, IntervalIDs
      <3>2. op = "Subtract" => ResultID(op, t.id, "DatetimeInterval") = t.id
        BY <1>4 DEF ResultID, NumericIDs, IntervalIDs
      <3> QED
        BY <1>4, <3>1, <3>2 DEF OperandIDs, NumericIDs, IntervalIDs
    <2>2. t.id # "none"
      BY <1>4 DEF IntervalIDs
    <2> QED
      BY <1>1, <1>4, <2>1, <2>2 DEF ResultIDs
  <1> QED
    BY <1>2, <1>3, <1>4

LEMMA SignaturesRight ==
  ASSUME NEW op \in BinaryOperationIDs, NEW l \in CallTypes \cup {NoType}, NEW r \in CallTypes \cup {NoType}, NEW v,
         v = [type |-> PartialType(op, l, r),
              operator |-> IF NoType \in {l, r} THEN NoOperator ELSE MakeUnchecked(op, l, r),
              hints |-> [type \in CallTypes |-> PushDownTypeHint(op, type)]]
  PROVE  SignatureIsRight(op, l, r, v)
  <1>1. l \in AllTypes \cup {NoType} /\ r \in AllTypes \cup {NoType} /\ CallTypes \subseteq AllTypes /\ NoType \notin CallTypes
    BY ArgumentsAssumption, NoTypeIsNone
  <1>2. /\ v.type = PartialType(op, l, r)
        /\ NoType \notin {l, r} => v.operator = MakeUnchecked(op, l, r)
        /\ \A type \in CallTypes : v.hints[type] = PushDownTypeHint(op, type)
    OBVIOUS
  <1>3. ASSUME NoType \notin {l, r}
        PROVE  /\ CanApplyToTypes(op, l, r) <=> v.type # NoType
               /\ CanApplyToTypes(op, l, r) <=> v.operator # NoOperator
    <2>1. l \in AllTypes /\ r \in AllTypes /\ l # NoType /\ r # NoType
      BY <1>1, <1>3
    <2>2. v.type = ResultType(op, l, r)
      BY <1>2, <2>1 DEF PartialType, ResultType, AddPartialType, SubtractPartialType, MultiplyPartialType,
         DividePartialType, ModuloPartialType
    <2>3. \A k, n : k # "none" => TypeOf(k, n) # NoType
      BY DEF TypeOf, NoType
    <2>4. CanApplyToTypes(op, l, r) <=> v.type # NoType
      BY <2>1, <2>2, <2>3, CanApplyIs, ResultTypeIs
    <2>5. CanApplyToTypes(op, l, r) <=> v.operator # NoOperator
      BY <1>2, <1>3, <2>1, CanApplyIs, OperatorIs
    <2> QED
      BY <2>4, <2>5
  <1>4. Results(op, l, r) = {TypeOf(k, MayBeNull(l, r)) : k \in ResultIDs(op, l, r)}
    BY ResultsAre
  <1>5. v.type # NoType => Results(op, l, r) = {v.type}
    BY <1>1, <1>2, <1>4, PartialTypesAre
  <1>6. Plausible(op, NoType, l, r) <=> Results(op, l, r) # {}
    BY <1>1, <1>4, PlausibleAre
  <1>7. ASSUME NEW type \in CallTypes PROVE Plausible(op, type, l, r) <=> type \in Results(op, l, r)
    <2>1. ASSUME NEW k \in ResultIDs(op, l, r)
          PROVE  k \in OperandIDs /\ k \notin StringIDs /\ TypeOf(k, MayBeNull(l, r)).id = k
                 /\ TypeOf(k, MayBeNull(l, r)).nullable = MayBeNull(l, r)
      <3>1. k \in OperandIDs
        BY OperandsOnly DEF ResultIDs
      <3> QED
        BY <3>1 DEF OperandIDs, NumericIDs, IntervalIDs, StringIDs, TypeOf
    <2>2. Fits(op, type, l, r) => type = TypeOf(type.id, MayBeNull(l, r))
      BY <1>1, <2>1, TypesOfIDs DEF Fits
    <2>3. Fits(op, type, l, r) <=> type \in Results(op, l, r)
      BY <1>4, <2>1, <2>2 DEF Fits
    <2> QED
      BY <1>1, <2>3, PlausibleAre
  <1>8. ASSUME NEW type \in CallTypes, v.hints[type] # <<NoType, NoType>>
        PROVE  \E found \in Results(op, v.hints[type][1], v.hints[type][2]) : found.id = type.id
    <2>1. PICK a \in CallTypes \cup {NoType}, b \in CallTypes \cup {NoType} :
            v.hints[type] = <<a, b>> /\ type.id \in ResultIDs(op, a, b)
      BY <1>1, <1>2, <1>8, HintsAre
    <2>2. TypeOf(type.id, MayBeNull(a, b)) \in Results(op, a, b)
      BY <2>1, ResultsAre
    <2>3. TypeOf(type.id, MayBeNull(a, b)).id = type.id
      BY DEF TypeOf
    <2> QED
      BY <2>1, <2>2, <2>3
  <1> QED
    BY <1>3, <1>5, <1>6, <1>7, <1>8 DEF SignatureIsRight

\* Every type can be made of itself.
LEMMA CoercibleFromItself ==
  ASSUME NEW t \in AllTypes
  PROVE  IsCoercibleFrom(t, t)
  BY DEF AllTypes, TypeIDs, NumericIDs, StringIDs, TimeIDs, IsCoercibleFrom, NumericIsCoercibleFrom,
     AsciiStringIsCoercibleFrom, NullTypeIsCoercibleFrom, NullCoercibilityCheck, SuperTypeID

LEMMA TypesAre ==
  ASSUME NEW id \in TypeIDs \ (StringIDs \cup {"NullType"}), NEW n \in BOOLEAN
  PROVE  /\ TypeOf(id, n) \in AllTypes /\ TypeOf(id, n) # NoType
         /\ TypeOf(id, n).id = id /\ TypeOf(id, n).nullable = n
         /\ Nullable(TypeOf(id, n)) = TypeOf(id, TRUE)
  <1>1. TypeOf(id, n) \in AllTypes /\ TypeOf(id, n).id = id /\ TypeOf(id, n).nullable = n
    BY DEF TypeOf, AllTypes
  <1>2. PICK t \in AllTypes : t = TypeOf(id, n) /\ t.id = id
    BY <1>1
  <1>3. PICK u \in AllTypes : u = Nullable(t) /\ u.id = id /\ u.nullable = TRUE
    BY <1>2, AsNullableFacts DEF AsNullable
  <1>4. u = TypeOf(id, TRUE)
    BY <1>3, TypesOfIDs
  <1> QED
    BY <1>1, <1>2, <1>3, <1>4, NoTypeIsNone

\* What UnarySignatureIsRight says of the type of the result, and of a type that is hinted.
UnaryTypeIsRight(op, t) ==
  LET given == UnaryResultType(op, t)
  IN  /\ given # NoType <=> UnaryCanApply(op, t)
      /\ given # NoType => /\ UnaryPlausible(op, given)
                           /\ UnaryFixedType(op) # NoType => Nullable(given) = UnaryFixedType(op)
UnaryHintIsRight(op, type) ==
  /\ \/ op.kind = "Substring"
     \/ \E other \in CallTypes : UnaryResultType(op, other).id = type.id
  /\ UnaryHint(op, type) # NoType => UnaryResultType(op, UnaryHint(op, type)).id = type.id
UnaryRight(op, t) ==
  UnaryTypeIsRight(op, t) /\ \A type \in CallTypes : UnaryPlausible(op, type) => UnaryHintIsRight(op, type)

LEMMA UnarySignaturesRight ==
  ASSUME NEW t \in CallTypes, NEW op \in UnaryOps(t), NEW v,
         v = [type |-> UnaryResultType(op, t), fixed |-> UnaryFixedType(op),
              plausible |-> {type \in CallTypes : UnaryPlausible(op, type)},
              typePlausible |-> /\ UnaryResultType(op, t) # NoType
                                /\ UnaryPlausible(op, UnaryResultType(op, t)),
              hints |-> [type \in CallTypes |-> UnaryHint(op, type)]]
  PROVE  UnarySignatureIsRight(op, t, v)
  <1>1. t \in AllTypes /\ t # NoType /\ CallTypes \subseteq AllTypes
    BY ArgumentsAssumption, NoTypeIsNone
  <1>2. /\ v.type = UnaryResultType(op, t) /\ v.fixed = UnaryFixedType(op)
        /\ v.type # NoType /\ UnaryPlausible(op, v.type) => v.typePlausible
        /\ v.plausible = {type \in CallTypes : UnaryPlausible(op, type)}
        /\ \A type \in CallTypes : v.hints[type] = UnaryHint(op, type)
    OBVIOUS
  <1>3. ASSUME op.kind = "Negate" PROVE UnaryRight(op, t)
    <2>1. UnaryTypeIsRight(op, t)
      BY <1>1, <1>3 DEF UnaryResultType, NegateResultType, UnaryCanApply, NegateCanApply, UnaryPlausible,
         NegatePlausible, UnaryFixedType, UnaryTypeIsRight
    <2>2. ASSUME NEW type \in CallTypes, UnaryPlausible(op, type) PROVE UnaryHintIsRight(op, type)
      <3>1. type # NoType /\ NegateCanApply(type)
        BY <1>1, <1>3, <2>2, NoTypeIsNone DEF UnaryPlausible, NegatePlausible, NegateCanApply
      <3>2. UnaryResultType(op, type) = type /\ UnaryHint(op, type) = type
        BY <1>3, <3>1 DEF UnaryResultType, NegateResultType, UnaryHint, NegateHint
      <3> QED
        BY <3>2 DEF UnaryHintIsRight
    <2> QED
      BY <2>1, <2>2 DEF UnaryRight
  <1>4. ASSUME op.kind = "Cast" PROVE UnaryRight(op, t)
    <2>1. op.target \in CallTypes /\ op.target \in AllTypes /\ op.target # NoType
      BY <1>1, <1>4, OperationsAssumption, NoTypeIsNone
    <2>2. UnaryTypeIsRight(op, t)
      BY <1>1, <1>4, <2>1 DEF UnaryResultType, CastResultType, UnaryCanApply, UnaryPlausible,
         CastPlausible, UnaryFixedType, CastFixedType, UnaryTypeIsRight
    <2>3. ASSUME NEW type \in CallTypes, UnaryPlausible(op, type) PROVE UnaryHintIsRight(op, type)
      <3>1. type.id = op.target.id
        BY <1>4, <2>1, <2>3 DEF UnaryPlausible, CastPlausible, Nullable, AllTypes
      <3>2. UnaryResultType(op, op.target) = op.target
        BY <1>4, <2>1, CoercibleFromItself DEF UnaryResultType, CastResultType, CastCanApply
      <3>3. UnaryHint(op, type) = op.target
        BY <1>4 DEF UnaryHint, CastHint
      <3> QED
        BY <2>1, <3>1, <3>2, <3>3 DEF UnaryHintIsRight
    <2> QED
      BY <2>2, <2>3 DEF UnaryRight
  <1>5. ASSUME op.kind = "Substring" PROVE UnaryRight(op, t)
    <2>1. \A n, m : StringType("Char", n, m) # NoType /\ SuperTypeID(StringType("Char", n, m)) = "AsciiString"
      BY DEF StringType, NoType, SuperTypeID, NumericIDs, StringIDs
    <2>2. UnaryTypeIsRight(op, t)
      BY <1>5, <2>1 DEF UnaryResultType, SubstringResultType, UnaryCanApply, SubstringCanApply,
         UnaryPlausible, SubstringPlausible, UnaryFixedType, UnaryTypeIsRight
    <2>3. ASSUME NEW type \in CallTypes, UnaryPlausible(op, type) PROVE UnaryHintIsRight(op, type)
      BY <1>5 DEF UnaryHint, UnaryHintIsRight
    <2> QED
      BY <2>2, <2>3 DEF UnaryRight
  <1>6. ASSUME op.kind \notin {"Negate", "Cast", "Substring"} PROVE UnaryRight(op, t)
    <2>1. \A n \in BOOLEAN : /\ TypeOf("Long", n) # NoType /\ TypeOf("Long", n).id = "Long"
                             /\ Nullable(TypeOf("Long", n)) = TypeOf("Long", TRUE)
                             /\ TypeOf("Datetime", n) # NoType /\ TypeOf("Datetime", n).id = "Datetime"
                             /\ TypeOf("Datetime", n).nullable = n
      BY TypesAre DEF TypeIDs, NumericIDs, StringIDs, TimeIDs
    <2>2. /\ \A type : UnaryResultType(op, type) = IF type.id = "Datetime" THEN TypeOf("Long", type.nullable) ELSE NoType
          /\ \A type : UnaryCanApply(op, type) <=> type.id = "Datetime"
          /\ \A type : UnaryPlausible(op, type) <=> type.id = "Long"
      BY <1>6 DEF UnaryResultType, DateExtractResultType, UnaryCanApply, DateExtractCanApply, UnaryPlausible,
         DateExtractPlausible
    <2>3. UnaryFixedType(op) \in {NoType, TypeOf("Long", TRUE)}
      BY <1>6 DEF UnaryFixedType, DateExtractFixedType
    <2>4. UnaryTypeIsRight(op, t)
      <3>1. t.nullable \in BOOLEAN
        BY <1>1 DEF AllTypes
      <3> QED
        BY <2>1, <2>2, <2>3, <3>1 DEF UnaryTypeIsRight
    <2>5. ASSUME NEW type \in CallTypes, UnaryPlausible(op, type) PROVE UnaryHintIsRight(op, type)
      <3>1. TypeOf("Datetime", TRUE) \in CallTypes
        BY OperationsAssumption DEF TimeIDs
      <3>2. UnaryHint(op, type) \in {NoType, TypeOf("Datetime", type.nullable)}
        BY <1>6 DEF UnaryHint, DateExtractHint
      <3>3. type.id = "Long" /\ \A n \in BOOLEAN : UnaryResultType(op, TypeOf("Datetime", n)).id = "Long"
        BY <2>1, <2>2, <2>5
      <3>4. type.nullable \in BOOLEAN
        BY <1>1 DEF AllTypes
      <3>5. op.kind # "Substring"
        BY <1>6
      <3> QED
        BY <3>1, <3>2, <3>3, <3>4, <3>5 DEF UnaryHintIsRight
    <2> QED
      BY <2>4, <2>5 DEF UnaryRight
  <1>7. UnaryRight(op, t)
    BY <1>3, <1>4, <1>5, <1>6
  <1> QED
    BY <1>2, <1>7 DEF UnarySignatureIsRight, UnaryRight, UnaryTypeIsRight, UnaryHintIsRight

LEMMA FunctionsFound ==
  ASSUME NEW id \in WindowAggregationIDs
  PROVE  /\ FunctionByName(NameOf[id]) = id
         /\ FunctionProtoIsValid(GetFunctionProto(id)) /\ ReconstructFunction(GetFunctionProto(id)) = id
  <1>1. \A i \in WindowAggregationIDs : NameOf[i] = NameOf[id] => i = id
    BY DEF NameOf, WindowAggregationIDs
  <1>2. \A i \in WindowAggregationIDs : ProtoIDOf[i] = ProtoIDOf[id] => i = id
    BY DEF ProtoIDOf, WindowAggregationIDs
  <1>3. FunctionByName(NameOf[id]) = id
    BY <1>1 DEF FunctionByName
  <1>4. GetFunctionProto(id).window_aggregation_id = ProtoIDOf[id]
    BY DEF GetFunctionProto
  <1>5. FunctionProtoIsValid(GetFunctionProto(id)) /\ ReconstructFunction(GetFunctionProto(id)) = id
    BY <1>2, <1>4 DEF FunctionProtoIsValid, ReconstructFunction
  <1> QED
    BY <1>3, <1>5

\* What AVG does with an argument it applies to.
LEMMA AveragesAgree ==
  ASSUME NEW t \in AllTypes, CanApplyToTypes("Add", t, t), CanApplyToTypes("Divide", t, Divisor)
  PROVE  LET h == AverageHandle(t)
         IN  /\ NoOperator \notin {h.add, h.subtract, h.divide}
             /\ h.add.result = h.sum.id /\ h.subtract.result = h.sum.id
             /\ h.type = ResultType("Divide", TypeOf(Widened(t), TRUE), Divisor) /\ h.type # NoType
             /\ h.divide.result = h.type.id
  <1>1. PICK i \in TypeIDs : i = t.id
    BY DEF AllTypes
  <1>2. Divisor \in AllTypes /\ Divisor.id = "Double" /\ Divisor.nullable = FALSE
    BY DEF Divisor, TypeOf, AllTypes, TypeIDs, NumericIDs, StringIDs
  <1>3. i \in NumericIDs \cup IntervalIDs
    <2>1. ResultID("Add", i, i) # "none" /\ ResultID("Divide", i, "Double") # "none"
      BY <1>1, <1>2, CanApplyIs DEF BinaryOperationIDs
    <2> QED
      BY <2>1 DEF ResultID, NumericIDs, IntervalIDs
  <1>4. PICK k \in NumericIDs \cup IntervalIDs :
          /\ k = Widened(t) /\ k = IF i \in {"Int", "Long"} THEN "Long" ELSE IF i \in {"Float", "Double"} THEN "Double" ELSE i
          /\ k = CASE t.id \in {"Int", "Long"} -> "Long" [] t.id \in {"Float", "Double"} -> "Double" [] OTHER -> t.id
    BY <1>1, <1>3 DEF Widened, NumericIDs, IntervalIDs
  <1>5. PICK s \in AllTypes : s = TypeOf(k, FALSE) /\ s.id = k /\ s.nullable = FALSE
    BY TypesAre DEF TypeIDs, NumericIDs, StringIDs, TimeIDs, IntervalIDs
  <1>6. PICK w \in AllTypes : w = TypeOf(k, TRUE) /\ w.id = k /\ w.nullable = TRUE
    BY TypesAre DEF TypeIDs, NumericIDs, StringIDs, TimeIDs, IntervalIDs
  <1>7. PICK q \in NumericIDs \cup IntervalIDs : q = ResultID("Divide", k, "Double") /\ q # "none"
    <2>1. ResultID("Divide", k, "Double") \in (NumericIDs \cup IntervalIDs) \ {"none"}
      BY DEF ResultID, NumericTypeUnifier, NumericIDs, IntervalIDs
    <2> QED
      BY <2>1
  <1>8. ResultID("Add", k, i) = k /\ ResultID("Subtract", k, i) = k /\ k # "none"
    BY <1>3, <1>4 DEF ResultID, NumericTypeUnifier, NumericIDs, IntervalIDs
  <1>9. /\ AverageHandle(t).sum = s /\ AverageHandle(t).type = Nullable(ResultType("Divide", s, Divisor))
        /\ AverageHandle(t).add = MakeUnchecked("Add", s, t) /\ AverageHandle(t).subtract = MakeUnchecked("Subtract", s, t)
        /\ AverageHandle(t).divide = MakeUnchecked("Divide", s, Divisor)
    BY <1>4, <1>5 DEF AverageHandle
  <1>10. {"Add", "Subtract", "Divide"} \subseteq BinaryOperationIDs
    BY DEF BinaryOperationIDs
  <1>11. ASSUME NEW op \in {"Add", "Subtract", "Divide"}, NEW r \in AllTypes, NEW x, x # "none", ResultID(op, k, r.id) = x
         PROVE  MakeUnchecked(op, s, r) # NoOperator /\ MakeUnchecked(op, s, r).result = x
    <2>1. op \in BinaryOperationIDs
      BY <1>10
    <2>2. ResultID(op, s.id, r.id) = x
      BY <1>5, <1>11
    <2> QED
      BY <1>11, <2>1, <2>2, OperatorIs
  <1>12. /\ MakeUnchecked("Add", s, t) # NoOperator /\ MakeUnchecked("Add", s, t).result = k
         /\ MakeUnchecked("Subtract", s, t) # NoOperator /\ MakeUnchecked("Subtract", s, t).result = k
         /\ MakeUnchecked("Divide", s, Divisor) # NoOperator /\ MakeUnchecked("Divide", s, Divisor).result = q
    BY <1>1, <1>2, <1>7, <1>8, <1>11
  <1>13. ResultType("Divide", s, Divisor) = TypeOf(q, FALSE) /\ ResultType("Divide", w, Divisor) = TypeOf(q, TRUE)
    <2>1. \A a \in AllTypes : a.id = k => ResultType("Divide", a, Divisor) = TypeOf(q, a.nullable \/ Divisor.nullable)
      BY <1>2, <1>7, <1>10, ResultTypeIs
    <2> QED
      BY <1>2, <1>5, <1>6, <2>1
  <1>14. /\ Nullable(TypeOf(q, FALSE)) = TypeOf(q, TRUE) /\ TypeOf(q, TRUE) # NoType /\ TypeOf(q, TRUE).id = q
    BY TypesAre DEF TypeIDs, NumericIDs, StringIDs, TimeIDs, IntervalIDs
  <1>15. PICK h : h = AverageHandle(t)
    OBVIOUS
  <1>16. NoOperator \notin {h.add, h.subtract, h.divide}
    BY <1>9, <1>12, <1>15
  <1>17. h.add.result = h.sum.id /\ h.subtract.result = h.sum.id
    BY <1>5, <1>9, <1>12, <1>15
  <1>18. h.type = ResultType("Divide", TypeOf(Widened(t), TRUE), Divisor) /\ h.type # NoType
    BY <1>4, <1>6, <1>9, <1>13, <1>14, <1>15
  <1>19. h.divide.result = h.type.id
    BY <1>9, <1>12, <1>13, <1>14, <1>15
  <1> QED
    BY <1>15, <1>16, <1>17, <1>18, <1>19

LEMMA FunctionsRight ==
  ASSUME NEW id \in WindowAggregationIDs, NEW first \in CallTypes, NEW second \in CallTypes, NEW n \in 0..2, NEW v,
         v = [applies |-> FunctionCanApply(id, SubSeq(<<first, second>>, 1, n)),
              type    |-> FunctionResultType(id, SubSeq(<<first, second>>, 1, n)),
              handle  |-> IF FunctionCanApply(id, SubSeq(<<first, second>>, 1, n))
                          THEN CreateHandle(id, SubSeq(<<first, second>>, 1, n)) ELSE NoHandle,
              named   |-> FunctionByName(NameOf[id]),
              valid   |-> FunctionProtoIsValid(GetFunctionProto(id)),
              back    |-> ReconstructFunction(GetFunctionProto(id))]
  PROVE  FunctionIsRight(id, v)
  <1>1. PICK arguments : /\ arguments = SubSeq(<<first, second>>, 1, n)
                         /\ Len(arguments) = n /\ (n >= 1 => arguments[1] = first)
    <2>1. Len(<<first, second>>) = 2 /\ <<first, second>>[1] = first /\ <<first, second>> \in Seq({first, second})
      OBVIOUS
    <2>2. PICK a : a = SubSeq(<<first, second>>, 1, n)
      OBVIOUS
    <2>3. Len(a) = n
      BY <2>1, <2>2
    <2>4. n >= 1 => a[1] = first
      BY <2>1, <2>2
    <2> QED
      BY <2>2, <2>3, <2>4
  <1>2. /\ v.applies = FunctionCanApply(id, arguments) /\ v.type = FunctionResultType(id, arguments)
        /\ v.handle = IF FunctionCanApply(id, arguments) THEN CreateHandle(id, arguments) ELSE NoHandle
    BY <1>1
  <1>3. v.named = id /\ v.valid /\ v.back = id
    BY FunctionsFound
  <1>4. first \in AllTypes
    BY ArgumentsAssumption
  <1>5. CASE id = "Avg"
    <2>1. FunctionCanApply(id, arguments) <=> AvgCanApply(arguments)
      BY <1>5 DEF FunctionCanApply
    <2>2. CASE AvgCanApply(arguments)
      <3>1. arguments[1] = first /\ CanApplyToTypes("Add", first, first) /\ CanApplyToTypes("Divide", first, Divisor)
        BY <1>1, <2>2 DEF AvgCanApply
      <3>2. PICK h : h = AverageHandle(first)
        OBVIOUS
      <3>3. v.handle = h
        BY <1>2, <1>5, <2>1, <2>2, <3>1, <3>2 DEF CreateHandle
      <3>4. v.type = ResultType("Divide", TypeOf(Widened(first), TRUE), Divisor)
        BY <1>2, <1>5, <2>2, <3>1 DEF FunctionResultType, AvgResultType
      <3>5. /\ NoOperator \notin {h.add, h.subtract, h.divide}
            /\ h.add.result = h.sum.id /\ h.subtract.result = h.sum.id
            /\ h.type = v.type /\ v.type # NoType /\ h.divide.result = h.type.id
        BY <1>4, <3>1, <3>2, <3>4, AveragesAgree
      <3> QED
        BY <1>2, <1>3, <2>1, <2>2, <3>3, <3>5 DEF FunctionIsRight
    <2>3. CASE ~AvgCanApply(arguments)
      <3>1. v.type = NoType /\ v.handle = NoHandle
        BY <1>2, <1>5, <2>1, <2>3 DEF FunctionResultType, AvgResultType
      <3> QED
        BY <1>2, <1>3, <2>1, <2>3, <3>1 DEF FunctionIsRight
    <2> QED
      BY <2>2, <2>3
  <1>6. CASE id # "Avg"
    <2>1. v.handle = NoHandle
      BY <1>2, <1>6 DEF CreateHandle
    <2>2. Nullable(first) # NoType /\ \A i, m : i # "none" => TypeOf(i, m) # NoType
      BY <1>4 DEF Nullable, AllTypes, TypeIDs, NumericIDs, StringIDs, TimeIDs, TypeOf, NoType
    <2>3. ASSUME id = "Count" PROVE v.applies <=> v.type # NoType
      BY <1>2, <2>2, <2>3 DEF FunctionCanApply, FunctionResultType, CountResultType
    <2>4. ASSUME id = "Max" PROVE v.applies <=> v.type # NoType
      <3>1. FunctionCanApply(id, arguments) <=> MaxCanApply(arguments)
        BY <2>4 DEF FunctionCanApply
      <3>2. FunctionResultType(id, arguments) = IF MaxCanApply(arguments) THEN Nullable(arguments[1]) ELSE NoType
        BY <2>4 DEF FunctionResultType, MaxResultType
      <3>3. MaxCanApply(arguments) => arguments[1] = first
        BY <1>1 DEF MaxCanApply
      <3> QED
        BY <1>2, <2>2, <3>1, <3>2, <3>3
    <2>5. ASSUME id = "Min" PROVE v.applies <=> v.type # NoType
      <3>1. FunctionCanApply(id, arguments) <=> MinCanApply(arguments)
        BY <2>5 DEF FunctionCanApply
      <3>2. FunctionResultType(id, arguments) = IF MinCanApply(arguments) THEN Nullable(arguments[1]) ELSE NoType
        BY <2>5 DEF FunctionResultType, MinResultType
      <3>3. MinCanApply(arguments) => arguments[1] = first
        BY <1>1 DEF MinCanApply
      <3> QED
        BY <1>2, <2>2, <3>1, <3>2, <3>3
    <2>6. ASSUME id = "Sum" PROVE v.applies <=> v.type # NoType
      <3>1. first.id \in TypeIDs
        BY <1>4 DEF AllTypes
      <3>2. Widened(first) # "none"
        BY <3>1 DEF Widened, TypeIDs, NumericIDs, StringIDs, TimeIDs
      <3>3. FunctionCanApply(id, arguments) <=> SumCanApply(arguments)
        BY <2>6 DEF FunctionCanApply
      <3>4. FunctionResultType(id, arguments) = IF SumCanApply(arguments) THEN TypeOf(Widened(arguments[1]), TRUE) ELSE NoType
        BY <2>6 DEF FunctionResultType, SumResultType
      <3>5. SumCanApply(arguments) => arguments[1] = first
        BY <1>1 DEF SumCanApply
      <3> QED
        BY <1>2, <2>2, <3>2, <3>3, <3>4, <3>5
    <2>7. v.applies <=> v.type # NoType
      BY <1>2, <1>6, <2>3, <2>4, <2>5, <2>6 DEF WindowAggregationIDs
    <2> QED
      BY <1>3, <2>1, <2>7 DEF FunctionIsRight
  <1> QED
    BY <1>5, <1>6

LEMMA ComparesAre ==
  ASSUME NEW id \in BasicIDs, NEW l \in CallTypes \cup {NoType}, NEW r \in CallTypes \cup {NoType},
         l # NoType \/ r # NoType
  PROVE  CanComparePartialTypes(id, l, r) <=> SomeCompare(id, l, r)
  <1>1. /\ \A a, b : CanCompareTypes(id, a, b) <=> BasicCanCompare(a, b)
        /\ CanComparePartialTypes(id, l, r) <=> BasicCanComparePartial(l, r)
        /\ \A left, right : SomeCompare(id, left, right) <=>
             \E a \in Completions(left), b \in Completions(right) : BasicCanCompare(a, b)
    BY DEF CanCompareTypes, CanComparePartialTypes, IsBasicComparison, SomeCompare
  <1>2. \A a, b : BasicCanCompare(a, b) => /\ a.id \in NumericIDs \cup TimeIDs \cup StringIDs
                                          /\ b.id \in NumericIDs \cup TimeIDs \cup StringIDs
    BY DEF BasicCanCompare
  <1> DEFINE Kin(i, j) == \/ i \in NumericIDs /\ j \in NumericIDs
                          \/ i \in StringIDs /\ j \in StringIDs
                          \/ i \in TimeIDs /\ j = i
  <1>7. \A a, b : Kin(a.id, b.id) => BasicCanCompare(a, b)
    BY DEF BasicCanCompare, NumericIDs, StringIDs, TimeIDs
  <1>3. ASSUME NEW type \in CallTypes, type.id \in NumericIDs \cup TimeIDs \cup StringIDs
        PROVE  \E a \in Completions(NoType) : BasicCanCompare(a, type) /\ BasicCanCompare(type, a)
    <2>1. ASSUME NEW i \in NumericIDs \cup TimeIDs PROVE TypeOf(i, TRUE) \in Completions(NoType) /\ TypeOf(i, TRUE).id = i
      <3>1. TypeOf(i, TRUE).id = i /\ TypeOf(i, TRUE).nullable
        BY DEF TypeOf
      <3> QED
        BY <3>1, OperationsAssumption DEF Completions
    <2>2. CASE type.id \in NumericIDs
      <3>1. BasicCanCompare(TypeOf("Int", TRUE), type) /\ BasicCanCompare(type, TypeOf("Int", TRUE))
        BY <1>7, <2>1, <2>2 DEF NumericIDs
      <3> QED
        BY <2>1, <3>1 DEF NumericIDs
    <2>3. CASE type.id \in TimeIDs
      <3>1. BasicCanCompare(TypeOf(type.id, TRUE), type) /\ BasicCanCompare(type, TypeOf(type.id, TRUE))
        BY <1>7, <2>1, <2>3
      <3> QED
        BY <2>1, <2>3, <3>1
    <2>4. CASE type.id \in StringIDs
      <3>1. PICK a \in CallTypes : a.id \in StringIDs /\ a.nullable
        BY OperationsAssumption
      <3>2. BasicCanCompare(a, type) /\ BasicCanCompare(type, a)
        BY <1>7, <2>4, <3>1
      <3> QED
        BY <3>1, <3>2 DEF Completions
    <2> QED
      BY <1>3, <2>2, <2>3, <2>4
  <1>4. CASE l # NoType /\ r # NoType
    BY <1>1, <1>4 DEF Completions, BasicCanComparePartial
  <1>5. CASE l = NoType /\ r # NoType
    <2>1. BasicCanComparePartial(l, r) <=> r.id \in NumericIDs \cup TimeIDs \cup StringIDs
      BY <1>5 DEF BasicCanComparePartial
    <2>2. Completions(r) = {r} /\ r \in CallTypes
      BY <1>5 DEF Completions
    <2> QED
      BY <1>1, <1>2, <1>3, <1>5, <2>1, <2>2
  <1>6. CASE l # NoType /\ r = NoType
    <2>1. BasicCanComparePartial(l, r) <=> l.id \in NumericIDs \cup TimeIDs \cup StringIDs
      BY <1>6 DEF BasicCanComparePartial
    <2>2. Completions(l) = {l} /\ l \in CallTypes
      BY <1>6 DEF Completions
    <2> QED
      BY <1>1, <1>2, <1>3, <1>6, <2>1, <2>2
  <1> QED
    BY <1>4, <1>5, <1>6

LEMMA ComparisonsRight ==
  ASSUME NEW first \in CallTypes, NEW second \in CallTypes, NEW compares,
         compares = [id \in ComparisonIDs |-> <<CanComparePartialTypes(id, first, second),
                                                CanComparePartialTypes(id, first, NoType),
                                                CanComparePartialTypes(id, NoType, second)>>]
  PROVE  ComparesRight(first, second, compares)
  <1>1. first # NoType /\ second # NoType
    BY ArgumentsAssumption, NoTypeIsNone
  <1>2. ASSUME NEW id \in BasicIDs
        PROVE  /\ compares[id][1] = CanComparePartialTypes(id, first, second)
               /\ compares[id][2] = CanComparePartialTypes(id, first, NoType)
               /\ compares[id][3] = CanComparePartialTypes(id, NoType, second)
    BY DEF ComparisonIDs
  <1> QED
    BY <1>1, <1>2, ComparesAre DEF ComparesRight

-----------------------------------------------------------------------------
(***************************************************************************)
(* Columns: the cells that were written and the NULL bits that were set.   *)
(***************************************************************************)
\* The vectors of NULL bits: of n places, those of S marked.
MarksAre(v, n, S) == v \in Vectors /\ ~v.short /\ v.bits = n /\ Places(v) = S

LEMMA StillVector ==
  ASSUME NEW v \in Vectors, NEW x \in Array(Size(v), v.width), Places(WithWords(v, x)) \subseteq 0..(v.bits - 1)
  PROVE  WithWords(v, x) \in Vectors
  <1>1. PICK r : r = WithWords(v, x)
    OBVIOUS
  <1>2. r.data = x /\ r.width = v.width /\ r.bits = v.bits /\ r.short = v.short
    BY <1>1, WithWordsFacts
  <1>3. v.bits \in Nat /\ v.width \in Nat \ {0} /\ Size(v) \in Nat /\ v.short \in BOOLEAN /\ (v.short => v.bits <= v.width)
    BY VectorFacts
  <1>4. Size(r) = Size(v)
    BY <1>2 DEF Size
  <1>5. r \in [bits : Nat, short : BOOLEAN, width : Nat \ {0}, data : UNION {Array(k, w) : k \in Nat, w \in Nat \ {0}}]
    <2>1. x \in UNION {Array(k, w) : k \in Nat, w \in Nat \ {0}}
      BY <1>3
    <2> QED
      BY <1>1, <1>2, <2>1 DEF WithWords, Vectors
  <1>6. \A p \in Places(r) : p < r.bits
    BY <1>1, <1>2, <1>3
  <1> QED
    BY <1>1, <1>2, <1>3, <1>4, <1>5, <1>6 DEF Vectors

LEMMA NewMarks ==
  ASSUME NEW n \in Nat, NEW S \in SUBSET (0..(n - 1))
  PROVE  MarksAre(BitVector(FALSE, n, S), n, S)
  <1>1. PICK off \in BOOLEAN : off = FALSE
    OBVIOUS
  <1>2. PICK v : v = BitVector(off, n, S)
    OBVIOUS
  <1>3. v \in Vectors /\ Places(v) = S /\ v.bits = n /\ v.short = IsShort(off, n)
    BY <1>2, BitVectorFacts, Zenon
  <1>4. ~v.short
    BY <1>1, <1>3 DEF IsShort
  <1> QED
    BY <1>1, <1>2, <1>3, <1>4, Zenon DEF MarksAre

LEMMA MarkedOne ==
  ASSUME NEW v, NEW n \in Nat, NEW S, MarksAre(v, n, S), NEW p \in 0..(n - 1)
  PROVE  MarksAre(SetBit(v, p, TRUE), n, S \cup {p})
  <1>1. v \in Vectors /\ ~v.short /\ v.bits = n /\ Places(v) = S /\ S \subseteq 0..(n - 1)
    BY VectorFacts DEF MarksAre
  <1>0. PICK w \in Nat \ {0}, k \in Nat : w = v.width /\ k = Size(v)
    BY <1>1, VectorFacts
  <1>2. PICK d \in Array(k, w) : w = v.width /\ k = Size(v) /\ d = v.data
    BY <1>0, <1>1, VectorFacts
  <1>3. PICK word : word = Put(d[p \div w], ShiftRight({0}, p % w, w), TRUE)
    OBVIOUS
  <1>4. p \div w \in 0..(k - 1)
    BY <1>1, <1>2, VectorFacts
  <1>5. word \in SUBSET (0..(w - 1))
    BY <1>3, <1>4 DEF Put, ShiftRight, Word, Array
  <1>6. PICK x \in Array(k, w) : x = [d EXCEPT ![p \div w] = word]
    BY <1>4, <1>5 DEF Array
  <1>7. SetBit(v, p, TRUE) = WithWords(v, x)
    BY <1>2, <1>3, <1>6 DEF SetBit, WithWords
  <1>8. Places(WithWords(v, x)) = S \cup {p}
    BY <1>1, <1>7, SetBitFacts
  <1>9. WithWords(v, x) \in Vectors
    BY <1>1, <1>2, <1>8, StillVector
  <1>10. WithWords(v, x).bits = n /\ ~WithWords(v, x).short
    BY <1>1, WithWordsFacts
  <1> QED
    BY <1>7, <1>8, <1>9, <1>10 DEF MarksAre

LEMMA MarkedAll ==
  ASSUME NEW v, NEW n \in Nat \ {0}, NEW S, MarksAre(v, n, S)
  PROVE  MarksAre(SetBitRange(v, 0, n, TRUE), n, 0..(n - 1))
  <1>1. v \in Vectors /\ ~v.short /\ v.bits = n /\ Places(v) = S /\ S \subseteq 0..(n - 1)
    BY VectorFacts DEF MarksAre
  <1>0. PICK w \in Nat \ {0}, k \in Nat : w = v.width /\ k = Size(v)
    BY <1>1, VectorFacts
  <1>2. PICK d \in Array(k, w) : w = v.width /\ k = Size(v) /\ d = v.data /\ DOMAIN v.data = 0..(k - 1)
    BY <1>0, <1>1, VectorFacts
  <1>3. 0 \div w = 0 /\ 0 % w = 0
    <2>1. 0 \in 0..(w - 1) /\ PlaceOf(0, 0, w) = 0
      BY DEF PlaceOf
    <2> QED
      BY <2>1, PlaceParts
  <1>4. ~EndsInFirst(v, 0, n) /\ Rest(v, 0, n) = [from |-> 0, bits |-> n]
    BY <1>2, <1>3 DEF EndsInFirst, Rest
  <1>5. PICK last \in Int, t \in 0..(w - 1) : last = n \div w /\ t = n % w
    <2>1. n \in Int
      OBVIOUS
    <2> QED
      BY <2>1, DivModFacts
  <1> DEFINE x == [i \in 0..(k - 1) |-> CASE i \in 0..(last - 1) -> Put({}, Word(w), TRUE)
                                          [] i = last -> Put(d[i], MaskBitRange(0, t, w), TRUE)
                                          [] OTHER -> d[i]]
  <1>6. SetBitRange(v, 0, n, TRUE) = WithWords(v, x)
    <2> DEFINE first == IF 0 % v.width = 0 THEN v.data
                        ELSE [v.data EXCEPT ![0 \div v.width] = Put(@, MaskBitRange(0 % v.width, n, v.width), TRUE)]
               r    == Rest(v, 0, n)
               ends == r.from + r.bits \div v.width
               data == [i \in DOMAIN v.data |->
                          CASE i \in r.from..(ends - 1) -> Put({}, Word(v.width), TRUE)
                            [] i = ends -> Put(first[i], MaskBitRange(0, r.bits % v.width, v.width), TRUE)
                            [] OTHER -> first[i]]
    <2>1. SetBitRangeRegular(v, 0, n, TRUE) = [v EXCEPT !.data = data]
      BY <1>4 DEF SetBitRangeRegular
    <2>2. first = d /\ r.from = 0 /\ r.bits = n /\ ends = last /\ r.bits % v.width = t
      BY <1>2, <1>3, <1>4, <1>5
    <2>3. data = x
      <3>1. DOMAIN v.data = 0..(k - 1) /\ v.width = w /\ 0..(last - 1) = r.from..(ends - 1)
        BY <1>2, <2>2
      <3> HIDE DEF first, r
      <3>2. ASSUME NEW i \in 0..(k - 1) PROVE data[i] = x[i]
        <4>1. data[i] = CASE i \in r.from..(ends - 1) -> Put({}, Word(v.width), TRUE)
                          [] i = ends -> Put(first[i], MaskBitRange(0, r.bits % v.width, v.width), TRUE)
                          [] OTHER -> first[i]
          BY <3>1
        <4>2. x[i] = CASE i \in 0..(last - 1) -> Put({}, Word(w), TRUE)
                       [] i = last -> Put(d[i], MaskBitRange(0, t, w), TRUE)
                       [] OTHER -> d[i]
          OBVIOUS
        <4> HIDE DEF ends, data, x
        <4>3. (i \in r.from..(ends - 1) <=> i \in 0..(last - 1)) /\ ~(i \in 0..(last - 1) /\ i = last)
          BY <2>2
        <4>4. CASE i \in 0..(last - 1)
          BY <2>2, <3>1, <4>1, <4>2, <4>3, <4>4, Zenon
        <4>5. CASE i = last
          BY <2>2, <3>1, <4>1, <4>2, <4>3, <4>5, Zenon
        <4>6. CASE i \notin 0..(last - 1) /\ i # last
          BY <2>2, <3>1, <4>1, <4>2, <4>3, <4>6, Zenon
        <4> QED
          BY <4>4, <4>5, <4>6
      <3> HIDE DEF ends
      <3>3. data = [i \in 0..(k - 1) |-> data[i]] /\ x = [i \in 0..(k - 1) |-> x[i]]
        BY <3>1
      <3> HIDE DEF data, x
      <3> QED
        BY <3>2, <3>3
    <2>4. SetBitRange(v, 0, n, TRUE) = SetBitRangeRegular(v, 0, n, TRUE)
      BY <1>1 DEF SetBitRange
    <2> HIDE DEF data
    <2> QED
      BY <2>1, <2>3, <2>4 DEF WithWords
  <1>7. x \in Array(k, w)
    <2>1. ASSUME NEW i \in 0..(k - 1) PROVE x[i] \in SUBSET (0..(w - 1))
      BY DEF Put, Word, MaskBitRange, ShiftRight, Array
    <2> QED
      BY <2>1 DEF Array
  <1> HIDE DEF x
  <1>8. Places(WithWords(v, x)) = 0..(n - 1)
    <2>1. PICK start \in Nat, on \in BOOLEAN : start = 0 /\ on = TRUE
      OBVIOUS
    <2>2. n \in Nat /\ n > 0 /\ start + n <= v.bits /\ start + n - 1 = n - 1
      BY <1>1, <2>1
    <2>3. Places(SetBitRange(v, start, n, on)) =
            IF on THEN Places(v) \cup start..(start + n - 1) ELSE Places(v) \ (start..(start + n - 1))
      <3>1. v \in Vectors
        BY <1>1
      <3>2. \A range \in Nat : range > 0 /\ start + range <= v.bits =>
              Places(SetBitRange(v, start, range, on)) =
                IF on THEN Places(v) \cup start..(start + range - 1) ELSE Places(v) \ (start..(start + range - 1))
        BY <3>1, SetRangeFacts
      <3> QED
        BY <2>2, <3>2, Zenon
    <2>4. Places(SetBitRange(v, 0, n, TRUE)) = S \cup 0..(n - 1)
      BY <1>1, <2>1, <2>2, <2>3, Zenon
    <2> QED
      BY <1>1, <1>6, <2>4, Zenon
  <1>9. WithWords(v, x) \in Vectors
    BY <1>1, <1>2, <1>7, <1>8, StillVector
  <1>10. WithWords(v, x).bits = n /\ ~WithWords(v, x).short
    BY <1>1, WithWordsFacts
  <1> QED
    BY <1>6, <1>8, <1>9, <1>10 DEF MarksAre

LEMMA Unmarked ==
  ASSUME NEW v, NEW n \in Nat, NEW S, MarksAre(v, n, S)
  PROVE  MarksAre(Clear(v), n, {})
  <1>1. v \in Vectors /\ ~v.short /\ v.bits = n
    BY DEF MarksAre
  <1>2. PICK x \in Array(Size(v), v.width) : x = [i \in DOMAIN v.data |-> {}] /\ \A i \in DOMAIN x : x[i] = {}
    <2>1. [i \in 0..(Size(v) - 1) |-> {}] \in Array(Size(v), v.width) /\ DOMAIN v.data = 0..(Size(v) - 1)
      BY <1>1, VectorFacts DEF Array
    <2> QED
      BY <2>1
  <1>3. Clear(v) = WithWords(v, x)
    BY <1>2 DEF Clear, WithWords
  <1>4. PlacesOf(x, v.width) = {}
    BY <1>2 DEF PlacesOf
  <1>5. Places(WithWords(v, x)) = {}
    BY <1>1, <1>4, WithWordsFacts
  <1>6. WithWords(v, x) \in Vectors /\ WithWords(v, x).bits = n /\ ~WithWords(v, x).short
    BY <1>1, <1>5, StillVector, WithWordsFacts
  <1> QED
    BY <1>3, <1>5, <1>6 DEF MarksAre

\* A column for n values, so many of them long, that holds those at the positions of W.
ColumnWith(type, n, length, nulls, cells) ==
  [type |-> type, native |-> IsNative(type), reserved |-> n, length |-> length, nulls |-> nulls, cells |-> cells]
Marking(type) == IsNative(type) /\ type.nullable
CellsHold(cells, type, values, n, W) ==
  /\ cells = [pos \in 0..(n - 1) |-> cells[pos]]
  /\ \A pos \in W : ~(Marking(type) /\ values[pos + 1].null) => cells[pos] = <<values[pos + 1]>>
NullsIn(values, W) == {pos \in W : values[pos + 1].null}
HoldsAt(c, type, values, n, length, W) ==
  \E nulls, cells : /\ c = ColumnWith(type, n, length, nulls, cells)
                    /\ Marking(type) => MarksAre(nulls, n, NullsIn(values, W))
                    /\ CellsHold(cells, type, values, n, W)
AreOf(values, type, n) ==
  /\ type \in AllTypes /\ Len(values) = n /\ DOMAIN values = 1..n
  /\ \A i \in 1..n : values[i].null \in BOOLEAN /\ (values[i].null => type.nullable /\ values[i] = NullValue(type.id))

LEMMA ColumnStarted ==
  ASSUME NEW type, NEW n \in Nat, NEW values
  PROVE  /\ HoldsAt(NewColumn(type, n), type, values, n, 0, {})
         /\ HoldsAt(PrepareForPositionalWrites(NewColumn(type, n)), type, values, n, n, {})
  <1>1. PICK nulls, cells : /\ nulls = (IF Marking(type) THEN BitVector(FALSE, n, {}) ELSE NoBitmap)
                            /\ cells = [pos \in 0..(n - 1) |-> <<Unwritten>>]
    OBVIOUS
  <1>2. NewColumn(type, n) = ColumnWith(type, n, 0, nulls, cells)
    BY <1>1 DEF NewColumn, ColumnWith, Marking
  <1>3. PrepareForPositionalWrites(NewColumn(type, n)) = ColumnWith(type, n, n, nulls, cells)
    BY <1>2 DEF PrepareForPositionalWrites, ColumnWith
  <1>4. CellsHold(cells, type, values, n, {})
    BY <1>1 DEF CellsHold
  <1>5. Marking(type) => MarksAre(nulls, n, NullsIn(values, {}))
    <2>1. NullsIn(values, {}) = {}
      BY DEF NullsIn
    <2> QED
      BY <1>1, <2>1, NewMarks
  <1> QED
    BY <1>2, <1>3, <1>4, <1>5 DEF HoldsAt

\* A value is written into its cell, or only its bit is.
LEMMA CellWritten ==
  ASSUME NEW type, NEW n \in Nat, NEW values, AreOf(values, type, n), NEW W \in SUBSET (0..(n - 1)), NEW length,
         NEW c, HoldsAt(c, type, values, n, length, W), NEW p \in 0..(n - 1)
  PROVE  /\ ~(Marking(type) /\ values[p + 1].null) =>
              HoldsAt(WriteCell(c, p, values[p + 1]), type, values, n, length, W \cup {p})
         /\ Marking(type) /\ values[p + 1].null => HoldsAt(MarkNull(c, p), type, values, n, length, W \cup {p})
  <1>1. PICK nulls, cells : /\ c = ColumnWith(type, n, length, nulls, cells)
                            /\ Marking(type) => MarksAre(nulls, n, NullsIn(values, W))
                            /\ CellsHold(cells, type, values, n, W)
    BY DEF HoldsAt
  <1>2. PICK v : v = values[p + 1] /\ v.null \in BOOLEAN
    BY DEF AreOf
  <1>3. /\ v.null => NullsIn(values, W \cup {p}) = NullsIn(values, W) \cup {p}
        /\ ~v.null => NullsIn(values, W \cup {p}) = NullsIn(values, W)
    BY <1>2 DEF NullsIn
  <1>4. ASSUME ~(Marking(type) /\ v.null)
        PROVE  HoldsAt(WriteCell(c, p, v), type, values, n, length, W \cup {p})
    <2>1. PICK written : written = [cells EXCEPT ![p] = <<v>>]
      OBVIOUS
    <2>2. WriteCell(c, p, v) = ColumnWith(type, n, length, nulls, written)
      BY <1>1, <2>1 DEF WriteCell, ColumnWith
    <2>3. CellsHold(written, type, values, n, W \cup {p})
      BY <1>1, <1>2, <2>1 DEF CellsHold
    <2>4. Marking(type) => MarksAre(nulls, n, NullsIn(values, W \cup {p}))
      BY <1>1, <1>3, <1>4
    <2> QED
      BY <2>2, <2>3, <2>4 DEF HoldsAt
  <1>5. ASSUME Marking(type), v.null
        PROVE  HoldsAt(MarkNull(c, p), type, values, n, length, W \cup {p})
    <2>1. PICK marked : marked = SetBit(nulls, p, TRUE)
      OBVIOUS
    <2>2. MarkNull(c, p) = ColumnWith(type, n, length, marked, cells)
      <3>1. c.nulls = nulls
        BY <1>1 DEF ColumnWith
      <3>2. MarkNull(c, p) = [c EXCEPT !.nulls = marked]
        BY <2>1, <3>1 DEF MarkNull
      <3> QED
        BY <1>1, <3>2 DEF ColumnWith
    <2>3. CellsHold(cells, type, values, n, W \cup {p})
      BY <1>1, <1>2, <1>5 DEF CellsHold
    <2>4. MarksAre(marked, n, NullsIn(values, W \cup {p}))
      <3>1. PICK S : S = NullsIn(values, W)
        OBVIOUS
      <3>2. MarksAre(nulls, n, S)
        BY <1>1, <1>5, <3>1
      <3>3. MarksAre(SetBit(nulls, p, TRUE), n, S \cup {p})
        BY <3>2, MarkedOne, Zenon
      <3> QED
        BY <1>3, <1>5, <2>1, <3>1, <3>3, Zenon
    <2> QED
      BY <2>2, <2>3, <2>4 DEF HoldsAt
  <1> QED
    BY <1>2, <1>4, <1>5

\* One more value, in any of the ways; an appended one goes behind the last.
LEMMA ValueWritten ==
  ASSUME NEW type, NEW n \in Nat, NEW values, AreOf(values, type, n), NEW W \in SUBSET (0..(n - 1)), NEW length \in Nat,
         NEW c, HoldsAt(c, type, values, n, length, W), NEW p \in 0..(n - 1), NEW way \in Ways \ {"fill"},
         way \notin Positional => p = length, way \in Untyped => IsNative(type)
  PROVE  HoldsAt(PutInColumn(c, way, p, values[p + 1]), type, values, n,
                 IF way \in Positional THEN length ELSE length + 1, W \cup {p})
  <1>1. PICK v : v = values[p + 1] /\ v.null \in BOOLEAN /\ (v.null => type.nullable)
    BY DEF AreOf
  <1>2. PICK next : next = IF Marking(type) /\ v.null THEN MarkNull(c, p) ELSE WriteCell(c, p, v)
    OBVIOUS
  <1>3. HoldsAt(next, type, values, n, length, W \cup {p})
    BY <1>1, <1>2, CellWritten
  <1>4. PICK nulls, cells : c = ColumnWith(type, n, length, nulls, cells)
    BY DEF HoldsAt
  <1>5. c.type = type /\ c.native = IsNative(type) /\ c.length = length
    BY <1>4 DEF ColumnWith
  <1>6. PositionalWriteTypedValue(c, p, v) = next
    BY <1>2, <1>5 DEF PositionalWriteTypedValue, Marking
  <1>7. IsNative(type) => next = IF v.null THEN MarkNull(c, p) ELSE WriteCell(c, p, v)
    BY <1>1, <1>2 DEF Marking
  <1>8. HoldsAt(Longer(next), type, values, n, length + 1, W \cup {p})
    <2>1. PICK marked, written : /\ next = ColumnWith(type, n, length, marked, written)
                                 /\ Marking(type) => MarksAre(marked, n, NullsIn(values, W \cup {p}))
                                 /\ CellsHold(written, type, values, n, W \cup {p})
      BY <1>3 DEF HoldsAt
    <2>2. Longer(next) = ColumnWith(type, n, length + 1, marked, written)
      BY <2>1 DEF Longer, ColumnWith
    <2> QED
      BY <2>1, <2>2 DEF HoldsAt
  <1>9. CASE way \in Positional
    <2>1. PutInColumn(c, way, p, v) = next
      BY <1>6, <1>7, <1>9 DEF PutInColumn, Positional, Untyped, PositionalWriteNullValue, PositionalWriteUntypedValue
    <2> QED
      BY <1>1, <1>3, <1>9, <2>1
  <1>10. CASE way \notin Positional
    <2>1. PutInColumn(c, way, p, v) = Longer(next)
      BY <1>5, <1>6, <1>7, <1>10 DEF PutInColumn, Positional, Untyped, Ways, AppendTypedValue, AppendNullValue, AppendUntypedValue
    <2> QED
      BY <1>1, <1>8, <1>10, <2>1
  <1> QED
    BY <1>9, <1>10

\* A column all of whose positions were written gives its values back.
LEMMA ColumnReadBack ==
  ASSUME NEW type, NEW n \in Nat, NEW values, AreOf(values, type, n), NEW c, HoldsAt(c, type, values, n, n, 0..(n - 1))
  PROVE  ColumnIsRight(values, c)
  <1>1. PICK nulls, cells : /\ c = ColumnWith(type, n, n, nulls, cells)
                            /\ Marking(type) => MarksAre(nulls, n, NullsIn(values, 0..(n - 1)))
                            /\ CellsHold(cells, type, values, n, 0..(n - 1))
    BY DEF HoldsAt
  <1>2. /\ c.type = type /\ c.native = IsNative(type) /\ c.length = n /\ c.nulls = nulls /\ c.cells = cells
    BY <1>1 DEF ColumnWith
  <1>3. ASSUME NEW i \in 1..n
        PROVE  /\ GetTypedValue(c, i - 1) = values[i]
               /\ GetUntypedValue(c, i - 1) = IF values[i].null THEN NullPointer ELSE [pointer |-> TRUE, to |-> values[i].val]
    <2>0. PICK p \in 0..(n - 1) : p = i - 1 /\ p + 1 = i
      OBVIOUS
    <2>1. PICK v : /\ v = values[i] /\ p = i - 1 /\ v = values[p + 1]
                   /\ v.null \in BOOLEAN /\ (v.null => type.nullable /\ v = NullValue(type.id))
      BY <2>0 DEF AreOf
    <2>2. IsMarked(c, p) <=> Marking(type) /\ v.null
      <3>1. Marking(type) => (GetBit(nulls, p) <=> v.null)
        <4>1. Marking(type) => nulls \in Vectors /\ nulls.bits = n /\ Places(nulls) = NullsIn(values, 0..(n - 1))
          BY <1>1 DEF MarksAre
        <4>2. p \in NullsIn(values, 0..(n - 1)) <=> v.null
          BY <2>1 DEF NullsIn
        <4> QED
          BY <4>1, <4>2, GetBitFacts
      <3> QED
        BY <1>2, <3>1 DEF IsMarked, Marking
    <2>3. ~IsMarked(c, p) => c.cells[p][1] = v
      BY <1>1, <1>2, <2>1, <2>2 DEF CellsHold
    <2>4. GetTypedValue(c, p) = v
      BY <1>2, <2>1, <2>2, <2>3 DEF GetTypedValue, MakeNullValue
    <2>5. GetUntypedValue(c, p) = IF v.null THEN NullPointer ELSE [pointer |-> TRUE, to |-> v.val]
      BY <1>2, <2>1, <2>2, <2>4 DEF GetUntypedValue, Marking
    <2> QED
      BY <2>1, <2>4, <2>5
  <1>4. Len(values) = n /\ DOMAIN values = 1..n
    BY DEF AreOf
  <1> QED
    BY <1>2, <1>3, <1>4 DEF ColumnIsRight

\* How far the loop that fills a column has come.
WrittenBy(order, i) == {order[k] - 1 : k \in 1..i}
LengthAt(way, n, i) == IF way \in Positional THEN n ELSE i
IsOrder(order, way, n) ==
  /\ order \in [1..n -> 1..n] /\ {order[i] : i \in 1..n} = 1..n
  /\ way \notin Positional => \A i \in 1..n : order[i] = i

LEMMA ColumnFilled ==
  ASSUME NEW type, NEW n \in Nat, NEW values, AreOf(values, type, n), NEW way \in Ways, way \in Untyped => IsNative(type),
         NEW order, IsOrder(order, way, n), way = "fill" => n > 0 /\ \A i \in 1..n : values[i] = values[1]
  PROVE  HoldsAt(FilledColumn(type, values, way, order), type, values, n, n, 0..(n - 1))
  <1>1. Len(values) = n
    BY DEF AreOf
  <1>0. /\ order \in [1..n -> 1..n] /\ {order[i] : i \in 1..n} = 1..n
        /\ way \notin Positional => \A i \in 1..n : order[i] = i
    BY DEF IsOrder
  <1>2. CASE way # "fill"
    <2> DEFINE Good == {i \in 0..n : HoldsAt(ColumnsOf(type, values, way, order)[i], type, values, n,
                                             LengthAt(way, n, i), WrittenBy(order, i))}
    <2>1. /\ ColumnsOf(type, values, way, order)[0] =
               IF way \in Positional THEN PrepareForPositionalWrites(NewColumn(type, n)) ELSE NewColumn(type, n)
          /\ \A i \in 1..n : ColumnsOf(type, values, way, order)[i] =
               PutInColumn(ColumnsOf(type, values, way, order)[i - 1], way, order[i] - 1, values[order[i]])
      <3>1. Len(values) \in Nat
        BY <1>1
      <3>2. /\ ColumnsOf(type, values, way, order)[0] =
                 IF way \in Positional THEN PrepareForPositionalWrites(NewColumn(type, Len(values)))
                 ELSE NewColumn(type, Len(values))
            /\ \A i \in 1..Len(values) : ColumnsOf(type, values, way, order)[i] =
                 PutInColumn(ColumnsOf(type, values, way, order)[i - 1], way, order[i] - 1, values[order[i]])
        BY <3>1, ColumnsSteps
      <3> QED
        BY <1>1, <3>2, Zenon
    <2>2. 0 \in Good
      <3>1. WrittenBy(order, 0) = {} /\ LengthAt(way, n, 0) = (IF way \in Positional THEN n ELSE 0)
        BY DEF WrittenBy, LengthAt
      <3> QED
        BY <2>1, <3>1, ColumnStarted
    <2>3. ASSUME NEW i \in 1..n, i - 1 \in Good PROVE i \in Good
      <3>1. PICK c : c = ColumnsOf(type, values, way, order)[i - 1]
        OBVIOUS
      <3>2. PICK p \in 0..(n - 1) : p = order[i] - 1 /\ p + 1 = order[i]
        <4>1. order[i] \in 1..n
          BY <1>0
        <4> QED
          BY <4>1
      <3>3. PICK W \in SUBSET (0..(n - 1)) : W = WrittenBy(order, i - 1)
        <4>1. ASSUME NEW k \in 1..(i - 1) PROVE order[k] - 1 \in 0..(n - 1)
          <5>1. order[k] \in 1..n
            BY <1>0
          <5> QED
            BY <5>1
        <4> QED
          BY <4>1 DEF WrittenBy
      <3>4. PICK length \in Nat : length = LengthAt(way, n, i - 1)
        BY DEF LengthAt
      <3>5. HoldsAt(c, type, values, n, length, W)
        BY <2>3, <3>1, <3>3, <3>4
      <3>6. way \notin Positional => p = length
        BY <1>0, <3>2, <3>4 DEF LengthAt
      <3>7. HoldsAt(PutInColumn(c, way, p, values[p + 1]), type, values, n,
                    IF way \in Positional THEN length ELSE length + 1, W \cup {p})
        BY <1>2, <3>5, <3>6, ValueWritten
      <3>8. W \cup {p} = WrittenBy(order, i)
        BY <3>2, <3>3 DEF WrittenBy
      <3>9. (IF way \in Positional THEN length ELSE length + 1) = LengthAt(way, n, i)
        BY <3>4 DEF LengthAt
      <3>10. ColumnsOf(type, values, way, order)[i] = PutInColumn(c, way, p, values[p + 1])
        BY <2>1, <3>1, <3>2
      <3> QED
        BY <3>7, <3>8, <3>9, <3>10
    <2>4. n \in Good
      <3> HIDE DEF Good
      <3>1. \A i \in 1..n : i - 1 \in Good => i \in Good
        BY <2>3
      <3>2. \A i \in 0..n : i \in Good
        BY <2>2, <3>1, UpTo, Zenon
      <3> QED
        BY <3>2
    <2>5. WrittenBy(order, n) = 0..(n - 1) /\ LengthAt(way, n, n) = n
      <3>1. ASSUME NEW p \in 0..(n - 1) PROVE \E k \in 1..n : p = order[k] - 1
        <4>0. p + 1 \in 1..n
          OBVIOUS
        <4>1. p + 1 \in {order[i] : i \in 1..n}
          BY <1>0, <4>0
        <4> QED
          BY <4>1
      <3>2. ASSUME NEW k \in 1..n PROVE order[k] - 1 \in 0..(n - 1)
        <4>1. order[k] \in 1..n
          BY <1>0
        <4> QED
          BY <4>1
      <3> QED
        BY <3>1, <3>2 DEF WrittenBy, LengthAt
    <2> QED
      BY <1>1, <1>2, <2>4, <2>5 DEF FilledColumn
  <1>3. CASE way = "fill"
    <2>1. PICK v, c : v = values[1] /\ v.null \in BOOLEAN /\ c = NewColumn(type, n) /\ (v.null => type.nullable)
      BY <1>3 DEF AreOf
    <2>2. PICK nulls, cells : /\ c = ColumnWith(type, n, 0, nulls, cells)
                              /\ Marking(type) => MarksAre(nulls, n, NullsIn(values, {}))
                              /\ CellsHold(cells, type, values, n, {})
      BY <2>1, ColumnStarted DEF HoldsAt
    <2>3. \A pos \in 0..(n - 1) : values[pos + 1] = v
      BY <1>3, <2>1
    <2>4. NullsIn(values, 0..(n - 1)) = IF v.null THEN 0..(n - 1) ELSE {}
      BY <2>1, <2>3 DEF NullsIn
    <2>5. NullsIn(values, {}) = {}
      BY DEF NullsIn
    <2>6. FilledColumn(type, values, way, order) = FillWithValue(c, v)
      BY <1>1, <1>3, <2>1 DEF FilledColumn
    <2>7. CASE IsNative(type) /\ v.null
      <3>1. PICK marked : marked = SetBitRange(nulls, 0, n, TRUE)
        OBVIOUS
      <3>2. FillWithValue(c, v) = ColumnWith(type, n, n, marked, cells)
        BY <2>2, <2>7, <3>1 DEF FillWithValue, FillWithNulls, ColumnWith
      <3>3. Marking(type)
        BY <2>1, <2>7 DEF Marking
      <3>4. MarksAre(marked, n, 0..(n - 1))
        <4>1. n \in Nat \ {0} /\ MarksAre(nulls, n, NullsIn(values, {}))
          BY <1>3, <2>2, <3>3
        <4> QED
          BY <3>1, <4>1, MarkedAll, Zenon
      <3>5. CellsHold(cells, type, values, n, 0..(n - 1))
        BY <2>2, <2>3, <2>7, <3>3 DEF CellsHold
      <3> QED
        BY <2>4, <2>6, <2>7, <3>2, <3>4, <3>5 DEF HoldsAt
    <2>8. CASE ~(IsNative(type) /\ v.null)
      <3>1. PICK cleared, written : cleared = Clear(nulls) /\ written = [pos \in 0..(n - 1) |-> <<v>>]
        OBVIOUS
      <3>2. FillWithValue(c, v) = ColumnWith(type, n, n, cleared, written)
        BY <2>2, <2>8, <3>1 DEF FillWithValue, ColumnWith, CellsHold
      <3>3. Marking(type) => ~v.null
        BY <2>8 DEF Marking
      <3>4. Marking(type) => MarksAre(cleared, n, {})
        BY <2>2, <2>5, <3>1, Unmarked
      <3>5. CellsHold(written, type, values, n, 0..(n - 1))
        BY <2>3, <3>1 DEF CellsHold
      <3> QED
        BY <2>4, <2>6, <3>2, <3>3, <3>4, <3>5 DEF HoldsAt
    <2> QED
      BY <2>7, <2>8
  <1> QED
    BY <1>2, <1>3

-----------------------------------------------------------------------------
(***************************************************************************)
(* Cursors.  The position of one over the ids of a bit vector is told by   *)
(* how many of them lie before it; the others' is an index.                *)
(***************************************************************************)
\* How many ids of a set lie below one.
LEMMA RankFacts ==
  ASSUME NEW n \in Nat, NEW S \in SUBSET (0..(n - 1))
  PROVE  /\ Cardinality(S) \in Nat /\ IsFiniteSet(S)
         /\ \A p \in S : Cardinality(Below(S, p)) \in Nat /\ Cardinality(Below(S, p)) < Cardinality(S)
         /\ Below(S, n) = S
  <1>1. IsFiniteSet(S)
    <2>1. IsFiniteSet(0..(n - 1))
      BY FS_Interval
    <2> QED
      BY <2>1, FS_Subset
  <1>2. Cardinality(S) \in Nat
    BY <1>1, FS_CardinalityType
  <1>3. ASSUME NEW p \in S PROVE Cardinality(Below(S, p)) \in Nat /\ Cardinality(Below(S, p)) < Cardinality(S)
    <2>1. PICK k \in 0..(n - 1) : k = p
      OBVIOUS
    <2>2. Cardinality(Below(S, k)) \in Nat /\ Cardinality(Below(S, k + 1)) = Cardinality(Below(S, k)) + 1
      BY <2>1, BelowFacts
    <2>3. Below(S, k + 1) \subseteq S
      BY DEF Below
    <2>4. Cardinality(Below(S, k + 1)) <= Cardinality(S)
      BY <1>1, <2>3, FS_Subset
    <2> QED
      BY <1>2, <2>1, <2>2, <2>4
  <1>4. Below(S, n) = S
    <2>1. \A j \in S : j < n
      OBVIOUS
    <2> QED
      BY <2>1 DEF Below
  <1> QED
    BY <1>1, <1>2, <1>3, <1>4

\* The search from a place inside the vector.
LEMMA FirstOneFrom ==
  ASSUME NEW v \in Vectors, NEW lo \in 0..(v.bits - 1)
  PROVE  FirstOne(v, lo) = FirstIn({i \in Places(v) : i >= lo}, v.bits)
  <1>1. v.bits \in Nat
    BY VectorFacts
  <1>2. lo \in (IF v.bits = 0 THEN {0} ELSE 0..(v.bits - 1))
    BY <1>1
  <1>3. \A p \in IF v.bits = 0 THEN {0} ELSE 0..(v.bits - 1) :
          FirstOne(v, p) = FirstIn({i \in Places(v) : i >= p}, v.bits)
    BY SearchFacts
  <1> QED
    BY <1>2, <1>3, Zenon

\* The position of a cursor that has gone over so many ids: before the first of them, at one or at the end.
StandsIn(S, n, at, p) ==
  IF at = 0 THEN p = BeforeBegin ELSE p \in S \cup {n} /\ Cardinality(Below(S, p)) = at - 1

LEMMA StandsWhere ==
  ASSUME NEW n \in Nat, NEW S \in SUBSET (0..(n - 1)), NEW at \in 0..(Cardinality(S) + 1), NEW p, StandsIn(S, n, at, p)
  PROVE  /\ p \in Int /\ (p # n <=> at <= Cardinality(S))
         /\ at \in 1..Cardinality(S) => p \in S
  <1>1. Cardinality(S) \in Nat /\ Below(S, n) = S
        /\ \A i \in S : Cardinality(Below(S, i)) \in Nat /\ Cardinality(Below(S, i)) < Cardinality(S)
    BY RankFacts
  <1>2. CASE at = 0
    BY <1>1, <1>2 DEF StandsIn, BeforeBegin
  <1>3. CASE at # 0 /\ p = n
    BY <1>1, <1>3 DEF StandsIn
  <1>4. CASE at # 0 /\ p # n
    <2>1. p \in S /\ p \in Int
      <3>1. p \in S
        BY <1>4 DEF StandsIn
      <3>2. \A i \in S : i \in 0..(n - 1)
        OBVIOUS
      <3> QED
        BY <3>1, <3>2
    <2>2. at - 1 < Cardinality(S)
      BY <1>1, <1>4, <2>1 DEF StandsIn
    <2> QED
      BY <1>1, <1>4, <2>1, <2>2
  <1> QED
    BY <1>2, <1>3, <1>4

\* The next id, or the end.
LEMMA Advanced ==
  ASSUME NEW v \in Vectors, NEW n, NEW S, n = v.bits, S = Places(v),
         NEW at \in 0..Cardinality(S), NEW p, StandsIn(S, n, at, p)
  PROVE  StandsIn(S, n, at + 1, Advance(v, p))
  <1>1. n \in Nat /\ S \in SUBSET (0..(n - 1))
    BY VectorFacts
  <1>2. Cardinality(S) \in Nat /\ Below(S, n) = S
    BY <1>1, RankFacts
  <1>3. PICK lo \in 0..n : lo = p + 1 /\ Cardinality(Below(S, lo)) = at
    <2>1. CASE at = 0
      <3>1. p = -1
        BY <2>1 DEF StandsIn, BeforeBegin
      <3>2. Below(S, 0) = {}
        <4>1. \A i \in S : ~(i < 0)
          BY <1>1
        <4> QED
          BY <4>1 DEF Below
      <3>3. 0 \in 0..n /\ 0 = p + 1
        BY <1>1, <3>1
      <3>4. Cardinality(Below(S, 0)) = 0
        BY <3>2, FS_EmptySet, Zenon
      <3> QED
        BY <2>1, <3>3, <3>4
    <2>2. CASE at # 0
      <3>1. p \in S
        BY <1>1, <1>2, <2>2, StandsWhere
      <3>2. PICK k \in 0..(n - 1) : k = p
        BY <1>1, <3>1
      <3>3. Cardinality(Below(S, k + 1)) = Cardinality(Below(S, k)) + 1
        BY <1>1, <3>1, <3>2, BelowFacts
      <3>4. Cardinality(Below(S, k)) = at - 1
        BY <2>2, <3>2 DEF StandsIn
      <3>5. k + 1 \in 0..n /\ k + 1 = p + 1
        BY <1>1, <3>2
      <3>6. Cardinality(Below(S, k + 1)) = at
        BY <1>2, <3>3, <3>4
      <3> QED
        BY <3>5, <3>6
    <2> QED
      BY <2>1, <2>2
  <1> DEFINE T == {i \in S : i >= lo}
  <1>4. CASE T = {}
    <2>1. Advance(v, p) = n
      <3>1. lo < n => FirstOne(v, lo) = FirstIn(T, n)
        <4>1. lo < n => lo \in 0..(v.bits - 1)
          BY <1>1
        <4> QED
          BY <4>1, FirstOneFrom
      <3>2. FirstIn(T, n) = n
        BY <1>4 DEF FirstIn
      <3> HIDE DEF T
      <3> QED
        BY <1>3, <3>1, <3>2 DEF Advance
    <2>2. Below(S, lo) = S
      BY <1>1, <1>4 DEF Below
    <2> QED
      BY <1>2, <1>3, <2>1, <2>2 DEF StandsIn
  <1>5. CASE T # {}
    <2>1. T \in SUBSET Nat
      BY <1>1
    <2>2. PICK m \in T : \A i \in T : m <= i
      <3> HIDE DEF T
      <3> QED
        BY <1>5, <2>1, Minimum
    <2>3. m \in S /\ m >= lo /\ lo < n
      BY <1>1
    <2>4. FirstIn(T, n) = m
      <3>1. T \in SUBSET Int
        BY <2>1
      <3> HIDE DEF T
      <3> QED
        BY <2>2, <3>1, MinIs
    <2>5. Advance(v, p) = m
      <3>1. FirstOne(v, lo) = FirstIn(T, n)
        <4>1. lo \in 0..(v.bits - 1)
          BY <1>1, <2>3
        <4> QED
          BY <4>1, FirstOneFrom
      <3> HIDE DEF T
      <3> QED
        BY <1>3, <2>3, <2>4, <3>1 DEF Advance
    <2>6. Below(S, m) = Below(S, lo)
      <3>1. \A i \in S : i < m <=> i < lo
        BY <1>1, <2>2
      <3> QED
        BY <3>1 DEF Below
    <2> QED
      BY <1>3, <2>3, <2>5, <2>6 DEF StandsIn
  <1> QED
    BY <1>4, <1>5

\* The id before, or the position before the first.
LEMMA Retreated ==
  ASSUME NEW v \in Vectors, NEW n, NEW S, n = v.bits, S = Places(v),
         NEW at \in 1..(Cardinality(S) + 1), NEW p, StandsIn(S, n, at, p)
  PROVE  StandsIn(S, n, at - 1, Retreat(v, p))
  <1>1. n \in Nat /\ S \in SUBSET (0..(n - 1))
    BY VectorFacts
  <1>2. Cardinality(S) \in Nat
    BY <1>1, RankFacts
  <1>3. p \in S \cup {n} /\ p \in 0..n /\ Cardinality(Below(S, p)) = at - 1
    BY <1>1, <1>2 DEF StandsIn
  <1>4. PICK T : T = Below(S, p) /\ T = {i \in S : i < p} /\ T \in SUBSET S
    BY DEF Below
  <1>5. LastOne(v, p) = LastIn(T, n)
    <2>1. LastOne(v, p) = LastIn({i \in S : i < p}, n)
      BY <1>1, <1>3, SearchFacts
    <2> QED
      BY <1>4, <2>1
  <1>6. Retreat(v, p) = IF LastIn(T, n) = n THEN BeforeBegin ELSE LastIn(T, n)
    BY <1>1, <1>3, <1>5 DEF Retreat, BeforeBegin
  <1>7. CASE T = {}
    <2>1. LastIn(T, n) = n
      BY <1>7 DEF LastIn
    <2>2. at - 1 = 0
      BY <1>3, <1>4, <1>7, FS_EmptySet
    <2> QED
      BY <1>6, <2>1, <2>2 DEF StandsIn
  <1>8. CASE T # {}
    <2>1. T \in SUBSET (0..n) /\ T \in SUBSET Int
      BY <1>1, <1>4
    <2>2. PICK m \in T : \A i \in T : m >= i
      BY <1>1, <1>8, <2>1, MaxFacts
    <2>3. LastIn(T, n) = m
      BY <2>1, <2>2, MaxIs
    <2>4. PICK k \in 0..(n - 1) : k = m /\ k \in S /\ k < p
      BY <1>1, <1>4
    <2>5. Retreat(v, p) = k
      BY <1>6, <2>3, <2>4
    <2>6. Below(S, k + 1) = T
      <3>1. \A i \in S : i < p <=> i < k + 1
        BY <1>1, <1>3, <1>4, <2>2, <2>4
      <3> QED
        BY <1>4, <3>1 DEF Below
    <2>7. Cardinality(Below(S, k)) \in Nat /\ Cardinality(T) = Cardinality(Below(S, k)) + 1
      BY <1>1, <2>4, <2>6, BelowFacts
    <2>8. at - 1 # 0 /\ Cardinality(Below(S, k)) = at - 1 - 1
      BY <1>3, <1>4, <2>7
    <2> QED
      BY <2>4, <2>5, <2>8 DEF StandsIn
  <1> QED
    BY <1>7, <1>8

\* A cursor over so many tuples, and the data its accessor has of them.
CursorAt(impl, data, n, over, ids, position) ==
  [impl |-> impl, data |-> data, length |-> n, over |-> over, ids |-> ids, position |-> position]
Impls == {"ColumnVectors", "TupleVector", "Packed"}
ColumnOf(attr, n) == [i \in 1..n |-> AttributeValue(attr, i - 1, n)]
DataIs(impl, data, n) ==
  IF impl = "ColumnVectors"
  THEN Len(data) = 2 /\ ColumnIsRight(ColumnOf(0, n), data[1]) /\ ColumnIsRight(ColumnOf(1, n), data[2])
  ELSE \A id \in 0..(n - 1) : /\ DOMAIN data[id + 1] = {0, SecondIn(impl)}
                              /\ data[id + 1][0] = AttributeValue(0, id, n)
                              /\ data[id + 1][SecondIn(impl)] = AttributeValue(1, id, n)

LEMMA LengthOf ==
  ASSUME NEW S, NEW n \in Nat, NEW s \in [1..n -> S]
  PROVE  s \in Seq(S) /\ Len(s) = n /\ DOMAIN s = 1..n
  <1>1. s \in Seq(S) /\ DOMAIN s = 1..n
    OBVIOUS
  <1> QED
    BY <1>1

LEMMA AttributeFilled ==
  ASSUME NEW n \in Nat, NEW attr \in {0, 1}
  PROVE  ColumnIsRight(ColumnOf(attr, n), AttributeColumn(attr, n)) /\ AttributeColumn(attr, n).length = n
  <1>1. PICK type : type = TypeOf("Int", attr = 0)
    OBVIOUS
  <1>2. PICK values : values = ColumnOf(attr, n)
    OBVIOUS
  <1>3. PICK order : order = [i \in 1..n |-> i]
    OBVIOUS
  <1>4. AreOf(values, type, n)
    <2>1. type \in AllTypes
      <3>1. type.id = "Int" /\ type.nullable \in BOOLEAN /\ type.length = 0
        BY <1>1 DEF TypeOf
      <3>2. type \in [id : TypeIDs, nullable : BOOLEAN, length : Nat]
        BY <1>1 DEF TypeOf, TypeIDs, NumericIDs, TimeIDs, StringIDs
      <3> QED
        BY <3>1, <3>2 DEF AllTypes, StringIDs
    <2>2. values \in [1..n -> {AttributeValue(attr, i - 1, n) : i \in 1..n}]
      BY <1>2 DEF ColumnOf
    <2>3. Len(values) = n /\ DOMAIN values = 1..n
      BY <2>2, LengthOf
    <2>4. ASSUME NEW i \in 1..n
          PROVE  values[i].null \in BOOLEAN /\ (values[i].null => type.nullable /\ values[i] = NullValue(type.id))
      <3>1. values[i] = AttributeValue(attr, i - 1, n)
        BY <1>2 DEF ColumnOf
      <3>2. type.id = "Int" /\ (attr = 0 => type.nullable)
        BY <1>1 DEF TypeOf
      <3>3. CASE attr = 1
        BY <3>1, <3>3 DEF AttributeValue, Value
      <3>4. CASE attr = 0
        BY <3>1, <3>2, <3>4 DEF AttributeValue, Value, NullValue
      <3> QED
        BY <3>3, <3>4
    <2> QED
      BY <2>1, <2>3, <2>4 DEF AreOf
  <1>5. IsOrder(order, "append", n)
    BY <1>3 DEF IsOrder, Positional
  <1>6. "append" \in Ways /\ "append" \notin Untyped
    BY DEF Ways, Untyped
  <1>7. HoldsAt(FilledColumn(type, values, "append", order), type, values, n, n, 0..(n - 1))
    BY <1>4, <1>5, <1>6, ColumnFilled
  <1>8. ColumnIsRight(values, FilledColumn(type, values, "append", order))
    BY <1>4, <1>7, ColumnReadBack
  <1>9. AttributeColumn(attr, n) = FilledColumn(type, values, "append", order)
    BY <1>1, <1>2, <1>3 DEF AttributeColumn, ColumnOf
  <1>10. Len(values) = n
    BY <1>4 DEF AreOf
  <1> QED
    BY <1>2, <1>8, <1>9, <1>10 DEF ColumnIsRight

\* Of a vector of tuples the tuples are those that were added.
LEMMA RowsAre ==
  ASSUME NEW n \in Nat
  PROVE  \E data : RowsOf(n)[n] = CursorAt("TupleVector", data, n, "all", <<>>, -1) /\ DataIs("TupleVector", data, n)
  <1> DEFINE Row(k) == [attr \in 0..1 |-> AttributeValue(attr, k - 1, n)]
             Rows == {Row(k) : k \in 1..n}
             Good == {i \in 0..n : \E data \in Seq(Rows) :
                        /\ RowsOf(n)[i] = CursorAt("TupleVector", data, i, "all", <<>>, -1)
                        /\ Len(data) = i /\ \A k \in 1..i : data[k] = Row(k)}
  <1>1. RowsOf(n)[0] = NewTupleVectorAccessor /\ \A i \in 1..n : RowsOf(n)[i] = AddTuple(RowsOf(n)[i - 1], Row(i))
    BY RowsSteps
  <1>2. 0 \in Good
    <2>1. RowsOf(n)[0] = CursorAt("TupleVector", <<>>, 0, "all", <<>>, -1)
      BY <1>1 DEF NewTupleVectorAccessor, Over, CursorAt
    <2>2. PICK S : S = Rows
      OBVIOUS
    <2>3. PICK data \in Seq(S) : data = <<>> /\ Len(data) = 0
      <3>1. <<>> \in Seq(S) /\ Len(<<>>) = 0
        OBVIOUS
      <3> QED
        BY <3>1, Zenon
    <2>4. \A k \in 1..0 : data[k] = Row(k)
      OBVIOUS
    <2> HIDE DEF Rows, Row
    <2>5. \E s \in Seq(Rows) : /\ RowsOf(n)[0] = CursorAt("TupleVector", s, 0, "all", <<>>, -1)
                               /\ Len(s) = 0 /\ \A k \in 1..0 : s[k] = Row(k)
      BY <2>1, <2>2, <2>3, <2>4, Zenon
    <2>6. 0 \in 0..n
      OBVIOUS
    <2> QED
      BY <2>5, <2>6, Zenon
  <1>3. ASSUME NEW i \in 1..n, i - 1 \in Good PROVE i \in Good
    <2>1. PICK data \in Seq(Rows) : /\ RowsOf(n)[i - 1] = CursorAt("TupleVector", data, i - 1, "all", <<>>, -1)
                                    /\ Len(data) = i - 1 /\ \A k \in 1..(i - 1) : data[k] = Row(k)
      BY <1>3
    <2>2. Row(i) \in Rows
      OBVIOUS
    <2>3. PICK row : row = Row(i)
      OBVIOUS
    <2> HIDE DEF Rows, Row
    <2>4. PICK more \in Seq(Rows) : more = Append(data, row) /\ Len(more) = i /\ \A k \in 1..i : more[k] = Row(k)
      <3>1. /\ Append(data, row) \in Seq(Rows) /\ Len(Append(data, row)) = Len(data) + 1
            /\ \A j \in 1..(Len(data) + 1) : Append(data, row)[j] = IF j = Len(data) + 1 THEN row ELSE data[j]
        BY <2>2, <2>3, AppendFacts
      <3>2. Len(data) + 1 = i
        BY <2>1
      <3>3. ASSUME NEW k \in 1..i PROVE Append(data, row)[k] = Row(k)
        <4>1. k # i => k \in 1..(i - 1)
          OBVIOUS
        <4> QED
          BY <2>1, <2>3, <3>1, <3>2, <4>1
      <3> QED
        BY <3>1, <3>2, <3>3, Zenon
    <2>5. RowsOf(n)[i] = CursorAt("TupleVector", more, i, "all", <<>>, -1)
      <3>1. RowsOf(n)[i] = AddTuple(RowsOf(n)[i - 1], row)
        BY <1>1, <2>3
      <3>2. AddTuple(CursorAt("TupleVector", data, i - 1, "all", <<>>, -1), row) =
              CursorAt("TupleVector", more, i - 1 + 1, "all", <<>>, -1)
        <4>1. PICK b : b = CursorAt("TupleVector", data, i - 1, "all", <<>>, -1)
          OBVIOUS
        <4>2. b.data = data /\ b.length = i - 1
          BY <4>1 DEF CursorAt
        <4>3. AddTuple(b, row) = [b EXCEPT !.data = more, !.length = i - 1 + 1]
          BY <2>4, <4>2, Zenon DEF AddTuple
        <4> QED
          BY <4>1, <4>3 DEF CursorAt
      <3>3. i - 1 + 1 = i
        OBVIOUS
      <3> QED
        BY <2>1, <3>1, <3>2, <3>3
    <2>6. \E s \in Seq(Rows) : /\ RowsOf(n)[i] = CursorAt("TupleVector", s, i, "all", <<>>, -1)
                               /\ Len(s) = i /\ \A k \in 1..i : s[k] = Row(k)
      BY <2>4, <2>5, Zenon
    <2>7. i \in 0..n
      OBVIOUS
    <2> QED
      BY <2>6, <2>7, Zenon
  <1>4. n \in Good
    <2> HIDE DEF Good
    <2>1. \A i \in 1..n : i - 1 \in Good => i \in Good
      BY <1>3
    <2>2. \A i \in 0..n : i \in Good
      BY <1>2, <2>1, UpTo, Zenon
    <2> QED
      BY <2>2
  <1>5. PICK data : /\ RowsOf(n)[n] = CursorAt("TupleVector", data, n, "all", <<>>, -1)
                    /\ \A k \in 1..n : data[k] = Row(k)
    BY <1>4
  <1>6. ASSUME NEW id \in 0..(n - 1)
        PROVE  /\ DOMAIN data[id + 1] = {0, 1} /\ data[id + 1][0] = AttributeValue(0, id, n)
               /\ data[id + 1][1] = AttributeValue(1, id, n)
    <2>1. PICK k \in 1..n : k = id + 1 /\ k - 1 = id
      OBVIOUS
    <2>2. data[k] = [attr \in 0..1 |-> AttributeValue(attr, id, n)]
      BY <1>5, <2>1
    <2>3. 0..1 = {0, 1}
      OBVIOUS
    <2> QED
      BY <2>1, <2>2, <2>3
  <1>7. SecondIn("TupleVector") = 1
    BY DEF SecondIn
  <1>8. DataIs("TupleVector", data, n)
    BY <1>6, <1>7 DEF DataIs
  <1> QED
    BY <1>5, <1>8, Zenon

LEMMA AccessorMade ==
  ASSUME NEW impl \in Impls, NEW n \in Nat
  PROVE  \E data : AccessorOf(impl, n) = CursorAt(impl, data, n, "all", <<>>, -1) /\ DataIs(impl, data, n)
  <1>1. CASE impl = "ColumnVectors"
    <2>1. PICK c, d : c = AttributeColumn(0, n) /\ d = AttributeColumn(1, n)
      OBVIOUS
    <2>2. c.length = n /\ d.length = n /\ ColumnIsRight(ColumnOf(0, n), c) /\ ColumnIsRight(ColumnOf(1, n), d)
      BY <2>1, AttributeFilled
    <2>3. AccessorOf(impl, n) = AddColumn(AddColumn(NewColumnVectorsAccessor, c), d)
      BY <1>1, <2>1 DEF AccessorOf
    <2>4. Append(Append(<<>>, c), d) = <<c, d>>
      <3>1. PICK S : S = {c, d}
        OBVIOUS
      <3>2. PICK e \in Seq(S) : e = <<>> /\ Len(e) = 0
        <4>1. <<>> \in Seq(S) /\ Len(<<>>) = 0
          OBVIOUS
        <4> QED
          BY <4>1, Zenon
      <3>3. PICK s \in Seq(S) : s = Append(<<>>, c) /\ Len(s) = 1 /\ s[1] = c
        <4>1. /\ Append(e, c) \in Seq(S) /\ Len(Append(e, c)) = Len(e) + 1
              /\ \A j \in 1..(Len(e) + 1) : Append(e, c)[j] = IF j = Len(e) + 1 THEN c ELSE e[j]
          BY <3>1, AppendFacts
        <4>2. 1 \in 1..(Len(e) + 1) /\ Len(e) + 1 = 1
          BY <3>2
        <4>3. Append(e, c)[1] = c /\ Len(Append(e, c)) = 1
          BY <4>1, <4>2
        <4> QED
          BY <3>2, <4>1, <4>3
      <3>4. PICK t \in Seq(S) : t = Append(s, d) /\ Len(t) = 2 /\ t[1] = c /\ t[2] = d
        <4>1. /\ Append(s, d) \in Seq(S) /\ Len(Append(s, d)) = Len(s) + 1
              /\ \A j \in 1..(Len(s) + 1) : Append(s, d)[j] = IF j = Len(s) + 1 THEN d ELSE s[j]
          BY <3>1, AppendFacts
        <4>2. 1 \in 1..(Len(s) + 1) /\ 2 \in 1..(Len(s) + 1) /\ Len(s) + 1 = 2
          BY <3>3
        <4>3. Append(s, d)[1] = c /\ Append(s, d)[2] = d /\ Len(Append(s, d)) = 2
          BY <3>3, <4>1, <4>2
        <4> QED
          BY <4>1, <4>3
      <3>5. t = <<c, d>>
        <4>1. t \in [1..2 -> S]
          <5>1. t \in [1..Len(t) -> S]
            OBVIOUS
          <5> QED
            BY <3>4, <5>1
        <4>2. t = [i \in 1..2 |-> t[i]]
          BY <4>1
        <4>3. t[1] = c /\ t[2] = d
          BY <3>4
        <4> QED
          BY <4>2, <4>3
      <3> QED
        BY <3>3, <3>4, <3>5
    <2>5. AccessorOf(impl, n) = CursorAt(impl, <<c, d>>, n, "all", <<>>, -1)
      BY <1>1, <2>2, <2>3, <2>4 DEF AddColumn, NewColumnVectorsAccessor, Over, CursorAt
    <2>6. Len(<<c, d>>) = 2 /\ <<c, d>>[1] = c /\ <<c, d>>[2] = d
      OBVIOUS
    <2> QED
      BY <1>1, <2>2, <2>5, <2>6, Zenon DEF DataIs
  <1>2. CASE impl = "TupleVector"
    <2>1. AccessorOf(impl, n) = RowsOf(n)[n]
      BY <1>2 DEF AccessorOf
    <2> QED
      BY <1>2, <2>1, RowsAre
  <1>3. CASE impl = "Packed"
    <2>1. PICK data : data = [i \in 1..n |-> [attr \in {0, 3} |-> AttributeValue(IF attr = 0 THEN 0 ELSE 1, i - 1, n)]]
      OBVIOUS
    <2>2. SecondIn(impl) = 3
      BY <1>3 DEF SecondIn
    <2>3. Len(data) = n
      <3>1. data \in [1..n -> {data[i] : i \in 1..n}]
        BY <2>1
      <3> QED
        BY <3>1, LengthOf
    <2>4. AccessorOf(impl, n) = CursorAt(impl, data, n, "all", <<>>, -1)
      BY <1>3, <2>1, <2>2, <2>3 DEF AccessorOf, PackedAccessor, Over, CursorAt
    <2>5. ASSUME NEW id \in 0..(n - 1)
          PROVE  /\ DOMAIN data[id + 1] = {0, 3} /\ data[id + 1][0] = AttributeValue(0, id, n)
                 /\ data[id + 1][3] = AttributeValue(1, id, n)
      <3>1. PICK k \in 1..n : k = id + 1 /\ k - 1 = id
        OBVIOUS
      <3>2. data[k] = [attr \in {0, 3} |-> AttributeValue(IF attr = 0 THEN 0 ELSE 1, id, n)]
        BY <2>1, <3>1
      <3> QED
        BY <3>1, <3>2
    <2> QED
      BY <1>3, <2>2, <2>4, <2>5 DEF DataIs
  <1> QED
    BY <1>1, <1>2, <1>3 DEF Impls

\* What a pointer to a value gives.
Pointed(v) == IF v.null THEN NullPointer ELSE [pointer |-> TRUE, to |-> v.val]

\* The attributes of the tuples, and each read by its id.
LEMMA ValuesRead ==
  ASSUME NEW impl \in Impls, NEW n \in Nat, NEW data, DataIs(impl, data, n), NEW over, NEW ids, NEW position,
         NEW id \in 0..(n - 1), NEW a, a = CursorAt(impl, data, n, over, ids, position)
  PROVE  /\ ValueAtAbsolutePosition(a, 0, id) = AttributeValue(0, id, n)
         /\ ValueAtAbsolutePosition(a, SecondIn(impl), id) = AttributeValue(1, id, n)
         /\ PointerAtAbsolutePosition(a, 0, id) = Pointed(AttributeValue(0, id, n))
  <1>1. a.impl = impl /\ a.data = data
    BY DEF CursorAt
  <1>2. CASE impl = "ColumnVectors"
    <2>1. PICK k \in 1..n : k = id + 1 /\ k - 1 = id
      OBVIOUS
    <2>2. DOMAIN ColumnOf(0, n) = 1..n /\ DOMAIN ColumnOf(1, n) = 1..n
          /\ ColumnOf(0, n)[k] = AttributeValue(0, id, n) /\ ColumnOf(1, n)[k] = AttributeValue(1, id, n)
      BY <2>1 DEF ColumnOf
    <2>3. /\ GetTypedValue(data[1], id) = AttributeValue(0, id, n) /\ GetTypedValue(data[2], id) = AttributeValue(1, id, n)
          /\ GetUntypedValue(data[1], id) = Pointed(AttributeValue(0, id, n))
      BY <1>2, <2>1, <2>2 DEF DataIs, ColumnIsRight, Pointed
    <2>4. SecondIn(impl) = 1 /\ 0 + 1 = 1 /\ 1 + 1 = 2
      BY <1>2 DEF SecondIn
    <2> QED
      BY <1>1, <1>2, <2>3, <2>4 DEF ValueAtAbsolutePosition, PointerAtAbsolutePosition
  <1>3. CASE impl # "ColumnVectors"
    <2>1. data[id + 1][0] = AttributeValue(0, id, n) /\ data[id + 1][SecondIn(impl)] = AttributeValue(1, id, n)
      BY <1>3 DEF DataIs
    <2> QED
      BY <1>1, <1>3, <2>1 DEF ValueAtAbsolutePosition, PointerAtAbsolutePosition, GetAttributeValue, Pointed
  <1> QED
    BY <1>2, <1>3

LEMMA TwoMembers ==
  ASSUME NEW k \in Nat \ {0}
  PROVE  Cardinality({0, k}) = 2 /\ Ascending({0, k}) = <<0, k>>
  <1>1. Cardinality({0, k}) = 2
    <2>1. Cardinality({0}) = 1 /\ IsFiniteSet({0})
      BY FS_Singleton
    <2>2. {0} \cup {k} = {0, k} /\ k \notin {0}
      OBVIOUS
    <2>3. Cardinality({0} \cup {k}) = Cardinality({0}) + 1
      BY <2>1, <2>2, FS_AddElement
    <2> QED
      BY <2>1, <2>2, <2>3
  <1>2. {j \in {0, k} : j < 0} = {} /\ {j \in {0, k} : j < k} = {0}
    OBVIOUS
  <1>3. Cardinality({j \in {0, k} : j < 0}) = 0 /\ Cardinality({j \in {0, k} : j < k}) = 1
    BY <1>2, FS_EmptySet, FS_Singleton
  <1> DEFINE At(i) == CHOOSE id \in {0, k} : Cardinality({j \in {0, k} : j < id}) = i - 1
  <1>4. At(1) = 0
    <2>1. \A id \in {0, k} : Cardinality({j \in {0, k} : j < id}) = 1 - 1 <=> id = 0
      BY <1>3
    <2> QED
      BY <2>1
  <1>5. At(2) = k
    <2>1. \A id \in {0, k} : Cardinality({j \in {0, k} : j < id}) = 2 - 1 <=> id = k
      BY <1>3
    <2> QED
      BY <2>1
  <1>6. Ascending({0, k}) = [i \in 1..2 |-> At(i)]
    BY <1>1 DEF Ascending
  <1> HIDE DEF At
  <1> QED
    BY <1>1, <1>4, <1>5, <1>6

LEMMA AttributesAre ==
  ASSUME NEW impl \in Impls, NEW n \in Nat \ {0}, NEW data, DataIs(impl, data, n), NEW over, NEW ids, NEW position,
         NEW a, a = CursorAt(impl, data, n, over, ids, position)
  PROVE  AttributesOf(a) = <<0, SecondIn(impl)>>
  <1>1. a.impl = impl /\ a.data = data
    BY DEF CursorAt
  <1>2. [i \in 1..2 |-> i - 1] = <<0, 1>>
    OBVIOUS
  <1>3. impl # "ColumnVectors" => DOMAIN data[1] = {0, SecondIn(impl)}
    <2>1. 0 \in 0..(n - 1) /\ 0 + 1 = 1
      OBVIOUS
    <2> QED
      BY <2>1 DEF DataIs
  <1>4. CASE impl = "ColumnVectors"
    <2>1. Len(data) = 2 /\ SecondIn(impl) = 1
      BY <1>4 DEF DataIs, SecondIn
    <2> QED
      BY <1>1, <1>2, <1>4, <2>1 DEF AttributesOf
  <1>5. CASE impl = "TupleVector"
    <2>1. DOMAIN data[1] = {0, 1} /\ SecondIn(impl) = 1
      BY <1>3, <1>5 DEF SecondIn
    <2>2. Cardinality(DOMAIN data[1]) = 2
      BY <2>1, TwoMembers
    <2> QED
      BY <1>1, <1>2, <1>5, <2>1, <2>2 DEF AttributesOf
  <1>6. CASE impl = "Packed"
    <2>1. DOMAIN data[1] = {0, 3} /\ SecondIn(impl) = 3
      BY <1>3, <1>6 DEF SecondIn
    <2>2. Ascending(DOMAIN data[1]) = <<0, 3>>
      BY <2>1, TwoMembers
    <2> QED
      BY <1>1, <1>6, <2>1, <2>2 DEF AttributesOf
  <1> QED
    BY <1>4, <1>5, <1>6 DEF Impls

\* The tuple a cursor stands at, in either order of its attributes.
LEMMA TupleRead ==
  ASSUME NEW impl \in Impls, NEW n \in Nat \ {0}, NEW data, DataIs(impl, data, n), NEW over, NEW ids, NEW position,
         NEW a, a = CursorAt(impl, data, n, over, ids, position), GetCurrentPosition(a) \in 0..(n - 1)
  PROVE  LET id == GetCurrentPosition(a)
         IN  /\ CurrentTuple(a) = <<AttributeValue(0, id, n), AttributeValue(1, id, n)>>
             /\ TupleWithAttributes(a, <<SecondIn(impl), 0>>) = <<AttributeValue(1, id, n), AttributeValue(0, id, n)>>
             /\ CurrentPointer(a, 0) = Pointed(AttributeValue(0, id, n))
  <1>1. PICK id \in 0..(n - 1) : id = GetCurrentPosition(a)
    OBVIOUS
  <1>2. PICK x, y : x = AttributeValue(0, id, n) /\ y = AttributeValue(1, id, n)
    OBVIOUS
  <1>3. PICK second : second = SecondIn(impl)
    OBVIOUS
  <1>4. /\ ValueAtAbsolutePosition(a, 0, id) = x /\ ValueAtAbsolutePosition(a, second, id) = y
        /\ PointerAtAbsolutePosition(a, 0, id) = Pointed(x)
    BY <1>2, <1>3, ValuesRead
  <1>5. AttributesOf(a) = <<0, second>>
    BY <1>3, AttributesAre
  <1>6. ASSUME NEW i, NEW j PROVE TupleWithAttributes(a, <<i, j>>) = <<CurrentValue(a, i), CurrentValue(a, j)>>
    BY DEF TupleWithAttributes
  <1>7. CurrentValue(a, 0) = x /\ CurrentValue(a, second) = y
    BY <1>1, <1>4 DEF CurrentValue
  <1>8. CurrentTuple(a) = <<x, y>>
    BY <1>5, <1>6, <1>7 DEF CurrentTuple
  <1>9. TupleWithAttributes(a, <<second, 0>>) = <<y, x>>
    BY <1>6, <1>7
  <1> QED
    BY <1>1, <1>2, <1>3, <1>4, <1>8, <1>9 DEF CurrentPointer

\* What an adapter may confine a cursor to, and where the moves leave the cursor.
OverIs(over, ids, n) ==
  \/ over = "all" /\ ids = <<>>
  \/ over = "ids" /\ ids \in Vectors /\ ids.bits = n
  \/ over = "ordered" /\ \E k \in Nat : ids \in [1..k -> 0..(n - 1)]
StandsAt(over, ids, n, at, p) == IF over = "ids" THEN StandsIn(Places(ids), n, at, p) ELSE p = at - 1

LEMMA CountFacts ==
  ASSUME NEW n \in Nat, NEW over, NEW ids, OverIs(over, ids, n)
  PROVE  /\ over \in {"all", "ids", "ordered"} /\ CountOf(over, ids, n) \in Nat
         /\ over = "ids" => /\ ids \in Vectors /\ n = ids.bits /\ Places(ids) \in SUBSET (0..(n - 1))
                            /\ CountOf(over, ids, n) = Cardinality(Places(ids))
         /\ over = "ordered" => /\ ids \in [1..CountOf(over, ids, n) -> 0..(n - 1)] /\ ids \in Seq(0..(n - 1))
                                /\ CountOf(over, ids, n) = Len(ids) /\ DOMAIN ids = 1..Len(ids)
  <1>1. CASE over = "all" /\ ids = <<>>
    BY <1>1 DEF CountOf
  <1>2. CASE over = "ids" /\ ids \in Vectors /\ ids.bits = n
    <2>1. Places(ids) \in SUBSET (0..(n - 1))
      BY <1>2, VectorFacts
    <2>2. Cardinality(Places(ids)) \in Nat
      BY <2>1, RankFacts
    <2> QED
      BY <1>2, <2>1, <2>2 DEF CountOf
  <1>3. CASE over = "ordered" /\ \E k \in Nat : ids \in [1..k -> 0..(n - 1)]
    <2>1. PICK k \in Nat : ids \in [1..k -> 0..(n - 1)]
      BY <1>3
    <2>2. ids \in Seq(0..(n - 1)) /\ Len(ids) = k /\ DOMAIN ids = 1..k
      BY <2>1, LengthOf
    <2> QED
      BY <1>3, <2>1, <2>2 DEF CountOf
  <1> QED
    BY <1>1, <1>2, <1>3 DEF OverIs

\* One move.
LEMMA Begun ==
  ASSUME NEW impl, NEW n \in Nat, NEW data, NEW over, NEW ids, NEW p
  PROVE  /\ BeginIteration(CursorAt(impl, data, n, over, ids, p)) = CursorAt(impl, data, n, over, ids, -1)
         /\ StandsAt(over, ids, n, 0, -1)
  BY DEF BeginIteration, CursorAt, StandsAt, StandsIn, BeforeBegin

LEMMA MovedOn ==
  ASSUME NEW impl, NEW n \in Nat, NEW data, NEW over, NEW ids, OverIs(over, ids, n),
         NEW at \in 0..CountOf(over, ids, n), NEW p, StandsAt(over, ids, n, at, p),
         NEW a, a = CursorAt(impl, data, n, over, ids, p)
  PROVE  /\ NextTuple(a) = CursorAt(impl, data, n, over, ids, NextPosition(a))
         /\ StandsAt(over, ids, n, at + 1, NextPosition(a))
  <1>1. a.over = over /\ a.ids = ids /\ a.position = p
    BY DEF CursorAt
  <1>2. NextTuple(a) = CursorAt(impl, data, n, over, ids, NextPosition(a))
    <2>1. PICK q : q = NextPosition(a)
      OBVIOUS
    <2>2. NextTuple(a) = [a EXCEPT !.position = q]
      BY <2>1 DEF NextTuple
    <2> QED
      BY <2>1, <2>2 DEF CursorAt
  <1>3. CASE over = "ids"
    <2>1. ids \in Vectors /\ n = ids.bits /\ CountOf(over, ids, n) = Cardinality(Places(ids))
      BY <1>3, CountFacts
    <2>2. StandsIn(Places(ids), n, at, p) /\ at \in 0..Cardinality(Places(ids))
      BY <1>3, <2>1 DEF StandsAt
    <2>3. StandsIn(Places(ids), n, at + 1, Advance(ids, p))
      BY <2>1, <2>2, Advanced
    <2> QED
      BY <1>1, <1>2, <1>3, <2>3 DEF NextPosition, StandsAt
  <1>4. CASE over # "ids"
    <2>1. at \in Int /\ p = at - 1
      BY <1>4, CountFacts DEF StandsAt
    <2>2. NextPosition(a) = p + 1 /\ p + 1 = at + 1 - 1
      BY <1>1, <1>4, <2>1 DEF NextPosition
    <2> QED
      BY <1>2, <1>4, <2>2 DEF StandsAt
  <1> QED
    BY <1>3, <1>4

LEMMA MovedBack ==
  ASSUME NEW impl, NEW n \in Nat, NEW data, NEW over, NEW ids, OverIs(over, ids, n),
         NEW at \in 1..(CountOf(over, ids, n) + 1), NEW p, StandsAt(over, ids, n, at, p)
  PROVE  \E q : /\ PreviousTuple(CursorAt(impl, data, n, over, ids, p)) = CursorAt(impl, data, n, over, ids, q)
                /\ StandsAt(over, ids, n, at - 1, q)
  <1>1. PICK a : a = CursorAt(impl, data, n, over, ids, p)
    OBVIOUS
  <1>2. PICK q : q = IF over = "ids" THEN Retreat(ids, p) ELSE p - 1
    OBVIOUS
  <1>3. PreviousTuple(a) = CursorAt(impl, data, n, over, ids, q)
    <2>1. a.over = over /\ a.ids = ids /\ a.position = p
      BY <1>1 DEF CursorAt
    <2>2. PreviousTuple(a) = [a EXCEPT !.position = q]
      BY <1>2, <2>1, Zenon DEF PreviousTuple
    <2> QED
      BY <1>1, <2>2 DEF CursorAt
  <1>4. CASE over = "ids"
    <2>1. ids \in Vectors /\ n = ids.bits /\ CountOf(over, ids, n) = Cardinality(Places(ids))
      BY <1>4, CountFacts
    <2>2. StandsIn(Places(ids), n, at, p) /\ at \in 1..(Cardinality(Places(ids)) + 1)
      BY <1>4, <2>1 DEF StandsAt
    <2>3. StandsIn(Places(ids), n, at - 1, Retreat(ids, p))
      BY <2>1, <2>2, Retreated
    <2> QED
      BY <1>1, <1>2, <1>3, <1>4, <2>3 DEF StandsAt
  <1>5. CASE over # "ids"
    <2>1. at \in Int /\ p = at - 1
      BY <1>5, CountFacts DEF StandsAt
    <2>2. q = at - 1 - 1
      BY <1>2, <1>5, <2>1
    <2> QED
      BY <1>1, <1>3, <1>5, <2>2 DEF StandsAt
  <1> QED
    BY <1>4, <1>5

Adapt(a, by, some, q) == [a EXCEPT !.over = by, !.ids = some, !.position = q]
LEMMA Adapted ==
  ASSUME NEW impl, NEW data, NEW n, NEW over, NEW ids, NEW p, NEW by, NEW some, NEW q,
         NEW a, a = CursorAt(impl, data, n, over, ids, p)
  PROVE  Adapt(a, by, some, q) = CursorAt(impl, data, n, by, some, q)
  <1>1. [CursorAt(impl, data, n, over, ids, p) EXCEPT !.over = by] = CursorAt(impl, data, n, by, ids, p)
    BY DEF CursorAt
  <1>2. [CursorAt(impl, data, n, by, ids, p) EXCEPT !.ids = some] = CursorAt(impl, data, n, by, some, p)
    BY DEF CursorAt
  <1>3. [CursorAt(impl, data, n, by, some, p) EXCEPT !.position = q] = CursorAt(impl, data, n, by, some, q)
    BY DEF CursorAt
  <1> QED
    BY <1>1, <1>2, <1>3 DEF Adapt

\* The cursor before any move.
LEMMA CursorMade ==
  ASSUME NEW impl \in Impls, NEW n \in Nat, NEW over, NEW ids, OverIs(over, ids, n)
  PROVE  \E data : CursorOver(impl, n, over, ids) = CursorAt(impl, data, n, over, ids, -1) /\ DataIs(impl, data, n)
  <1>1. PICK data : AccessorOf(impl, n) = CursorAt(impl, data, n, "all", <<>>, -1) /\ DataIs(impl, data, n)
    BY AccessorMade
  <1>2. CursorOver(impl, n, over, ids) = CursorAt(impl, data, n, over, ids, -1)
    <2>1. PICK a : a = AccessorOf(impl, n) /\ a = CursorAt(impl, data, n, "all", <<>>, -1)
      BY <1>1
    <2>2. CASE over = "all" /\ ids = <<>>
      BY <2>1, <2>2 DEF CursorOver
    <2>3. CASE over = "ids"
      <3>1. TupleIdSequenceAdapter(a, ids) = CursorAt(impl, data, n, "ids", ids, -1)
        <4>1. PICK by, q : by = "ids" /\ q = -1
          OBVIOUS
        <4>2. Adapt(a, by, ids, q) = CursorAt(impl, data, n, by, ids, q)
          BY <2>1, Adapted
        <4> QED
          BY <4>1, <4>2, Zenon DEF Adapt, TupleIdSequenceAdapter, BeforeBegin
      <3> QED
        BY <2>1, <2>3, <3>1 DEF CursorOver
    <2>4. CASE over = "ordered"
      <3>1. OrderedTupleIdSequenceAdapter(a, ids) = CursorAt(impl, data, n, "ordered", ids, -1)
        <4>1. PICK by, q : by = "ordered" /\ q = -1
          OBVIOUS
        <4>2. Adapt(a, by, ids, q) = CursorAt(impl, data, n, by, ids, q)
          BY <2>1, Adapted
        <4> QED
          BY <4>1, <4>2, Zenon DEF Adapt, OrderedTupleIdSequenceAdapter
      <3> QED
        BY <2>1, <2>4, <3>1 DEF CursorOver
    <2> QED
      BY <2>2, <2>3, <2>4 DEF OverIs
  <1> QED
    BY <1>1, <1>2

\* Any number of moves.
LEMMA CursorsStand ==
  ASSUME NEW impl, NEW n \in Nat, NEW data, NEW over, NEW ids, OverIs(over, ids, n),
         NEW start, start = CursorAt(impl, data, n, over, ids, -1),
         NEW m \in Nat, NEW moves, Len(moves) = m, Legal(moves, CountOf(over, ids, n))
  PROVE  \E p : /\ CursorsOf(start, moves)[m] = CursorAt(impl, data, n, over, ids, p)
                /\ StandsAt(over, ids, n, StandingsOf(moves)[m], p)
  <1>1. PICK count \in Nat : count = CountOf(over, ids, n)
    BY CountFacts
  <1>2. PICK stands : /\ stands = StandingsOf(moves) /\ stands[0] = 0
                      /\ \A i \in 1..m : stands[i] =
                           CASE moves[i] = "next" -> stands[i - 1] + 1 [] moves[i] = "previous" -> stands[i - 1] - 1
                             [] OTHER -> 0
    <2>1. Len(moves) \in Nat
      OBVIOUS
    <2>2. /\ StandingsOf(moves)[0] = 0
          /\ \A i \in 1..Len(moves) : StandingsOf(moves)[i] =
               CASE moves[i] = "next" -> StandingsOf(moves)[i - 1] + 1
                 [] moves[i] = "previous" -> StandingsOf(moves)[i - 1] - 1 [] OTHER -> 0
      BY <2>1, StandingsSteps
    <2> QED
      BY <2>2, Zenon
  <1>3. PICK at : /\ at = CursorsOf(start, moves) /\ at[0] = BeginIteration(start)
                  /\ \A i \in 1..m : at[i] =
                       CASE moves[i] = "next" -> NextTuple(at[i - 1]) [] moves[i] = "previous" -> PreviousTuple(at[i - 1])
                         [] OTHER -> BeginIteration(at[i - 1])
    <2>1. Len(moves) \in Nat
      OBVIOUS
    <2>2. /\ CursorsOf(start, moves)[0] = BeginIteration(start)
          /\ \A i \in 1..Len(moves) : CursorsOf(start, moves)[i] =
               CASE moves[i] = "next" -> NextTuple(CursorsOf(start, moves)[i - 1])
                 [] moves[i] = "previous" -> PreviousTuple(CursorsOf(start, moves)[i - 1])
                 [] OTHER -> BeginIteration(CursorsOf(start, moves)[i - 1])
      BY <2>1, CursorsSteps
    <2> QED
      BY <2>2, Zenon
  <1>4. \A i \in 0..m : stands[i] \in 0..(count + 1)
    BY <1>1, <1>2 DEF Legal
  <1> DEFINE Good == {i \in 0..m : \E p : /\ at[i] = CursorAt(impl, data, n, over, ids, p)
                                          /\ StandsAt(over, ids, n, stands[i], p)}
  <1>5. 0 \in Good
    BY <1>2, <1>3, Begun
  <1>6. ASSUME NEW i \in 1..m, i - 1 \in Good PROVE i \in Good
    <2>1. PICK p : at[i - 1] = CursorAt(impl, data, n, over, ids, p) /\ StandsAt(over, ids, n, stands[i - 1], p)
      BY <1>6
    <2>2. PICK k \in 0..(count + 1) : k = stands[i - 1] /\ stands[i] \in 0..(count + 1)
      <3>1. i - 1 \in 0..m /\ i \in 0..m
        OBVIOUS
      <3> QED
        BY <1>4, <3>1
    <2>3. \E q : at[i] = CursorAt(impl, data, n, over, ids, q) /\ StandsAt(over, ids, n, stands[i], q)
      <3>1. CASE moves[i] = "next"
        <4>1. stands[i] = k + 1 /\ at[i] = NextTuple(at[i - 1])
          BY <1>2, <1>3, <2>2, <3>1
        <4>2. k \in 0..CountOf(over, ids, n)
          BY <1>1, <2>2, <4>1
        <4>3. PICK a : a = at[i - 1] /\ a = CursorAt(impl, data, n, over, ids, p) /\ StandsAt(over, ids, n, k, p)
          BY <2>1, <2>2
        <4>4. /\ NextTuple(a) = CursorAt(impl, data, n, over, ids, NextPosition(a))
              /\ StandsAt(over, ids, n, k + 1, NextPosition(a))
          BY <4>2, <4>3, MovedOn
        <4> QED
          BY <4>1, <4>3, <4>4
      <3>2. CASE moves[i] = "previous"
        <4>1. stands[i] = k - 1 /\ at[i] = PreviousTuple(at[i - 1])
          BY <1>2, <1>3, <2>2, <3>2
        <4>2. k \in 1..(CountOf(over, ids, n) + 1)
          BY <1>1, <2>2, <4>1
        <4> QED
          BY <2>1, <2>2, <4>1, <4>2, MovedBack
      <3>3. CASE moves[i] \notin {"next", "previous"}
        <4>1. stands[i] = 0 /\ at[i] = BeginIteration(at[i - 1])
          BY <1>2, <1>3, <3>3
        <4> QED
          BY <2>1, <4>1, Begun
      <3> QED
        BY <3>1, <3>2, <3>3
    <2> QED
      BY <2>3
  <1>7. m \in Good
    <2> HIDE DEF Good
    <2>1. \A i \in 1..m : i - 1 \in Good => i \in Good
      BY <1>6
    <2>2. \A i \in 0..m : i \in Good
      BY <1>5, <2>1, UpTo, Zenon
    <2> QED
      BY <2>2
  <1> QED
    BY <1>2, <1>3, <1>7

\* Whether a cursor is at a tuple, and whether the next is the last.
LEMMA EndsFound ==
  ASSUME NEW impl, NEW n \in Nat, NEW data, NEW over, NEW ids, OverIs(over, ids, n),
         NEW count \in Nat, count = CountOf(over, ids, n), NEW at \in 0..(count + 1), NEW p, StandsAt(over, ids, n, at, p),
         NEW a, a = CursorAt(impl, data, n, over, ids, p)
  PROVE  /\ at # 0 => (HasTuple(a) <=> at <= count)
         /\ IterationFinished(a) <=> at >= count
         /\ GetNumTuples(a) = count
  <1>1. a.over = over /\ a.ids = ids /\ a.position = p /\ a.length = n
    BY DEF CursorAt
  <1>2. CASE over = "ids"
    <2>1. ids \in Vectors /\ n = ids.bits /\ Places(ids) \in SUBSET (0..(n - 1)) /\ count = Cardinality(Places(ids))
      BY <1>2, CountFacts
    <2>2. StandsIn(Places(ids), n, at, p) /\ at \in 0..(Cardinality(Places(ids)) + 1)
      BY <1>2, <2>1 DEF StandsAt
    <2>3. p # n <=> at <= count
      BY <2>1, <2>2, StandsWhere
    <2>4. Behind(a) = n /\ NextPosition(a) = Advance(ids, p)
      BY <1>1, <1>2, <2>1 DEF Behind, SequenceEnd, NextPosition
    <2>5. at <= count => (Advance(ids, p) # n <=> at + 1 <= count)
      <3>1. ASSUME at <= count PROVE StandsIn(Places(ids), n, at + 1, Advance(ids, p))
        <4>1. at \in 0..Cardinality(Places(ids))
          BY <2>1, <3>1
        <4> QED
          BY <2>1, <2>2, <4>1, Advanced
      <3>2. ASSUME at <= count PROVE at + 1 \in 0..(Cardinality(Places(ids)) + 1)
        BY <2>1, <3>2
      <3> QED
        BY <2>1, <3>1, <3>2, StandsWhere
    <2>6. HasTuple(a) <=> at <= count
      BY <1>1, <1>2, <2>3, <2>4 DEF HasTuple
    <2>7. IterationFinished(a) <=> at >= count
      <3>1. IterationFinished(a) <=> p = n \/ Advance(ids, p) = n
        BY <1>1, <1>2, <2>4 DEF IterationFinished
      <3> QED
        BY <2>3, <2>5, <3>1
    <2>8. GetNumTuples(a) = count
      BY <1>1, <1>2, <2>1, OnesCountFacts DEF GetNumTuples
    <2> QED
      BY <2>6, <2>7, <2>8
  <1>3. CASE over # "ids"
    <2>1. over \in {"all", "ordered"} /\ p = at - 1 /\ (over = "ordered" => Len(ids) = count)
      BY <1>3, CountFacts DEF StandsAt
    <2>2. Behind(a) = count
      BY <1>1, <2>1 DEF Behind, CountOf
    <2>3. over = "all" => a.length = count
      BY <1>1 DEF CountOf
    <2>4. GetNumTuples(a) = count
      BY <1>1, <2>1, <2>3 DEF GetNumTuples
    <2>5. at # 0 => (HasTuple(a) <=> at <= count)
      <3>1. HasTuple(a) <=> IF over = "all" THEN p < count ELSE p # count
        BY <1>1, <2>2, <2>3 DEF HasTuple
      <3> QED
        BY <2>1, <3>1
    <2>6. IterationFinished(a) <=> at >= count
      <3>1. IterationFinished(a) <=> p + 1 >= count
        BY <1>1, <1>3, <2>2 DEF IterationFinished
      <3> QED
        BY <2>1, <3>1
    <2> QED
      BY <2>4, <2>5, <2>6
  <1> QED
    BY <1>2, <1>3

\* The ids a cursor visits, and the one it stands at.
LEMMA VisitedBelow ==
  ASSUME NEW impl, NEW n \in Nat, NEW data, NEW over, NEW ids, OverIs(over, ids, n), NEW p,
         NEW a, a = CursorAt(impl, data, n, over, ids, p),
         NEW k \in 1..CountOf(over, ids, n), NEW id \in 0..(n - 1), IsVisited(over, ids, k, id)
  PROVE  id < GetEndPosition(a)
  <1>1. a.over = over /\ a.ids = ids /\ a.length = n
    BY DEF CursorAt
  <1>2. CASE over = "all"
    BY <1>1, <1>2 DEF GetEndPosition
  <1>3. CASE over = "ids"
    <2>1. n = ids.bits
      BY <1>3, CountFacts
    <2> QED
      BY <1>1, <1>3, <2>1 DEF GetEndPosition
  <1>4. CASE over = "ordered"
    <2>1. ids \in Seq(0..(n - 1)) /\ CountOf(over, ids, n) = Len(ids) /\ DOMAIN ids = 1..Len(ids)
      BY <1>4, CountFacts
    <2>2. PICK S : S = ToSet(ids)
      OBVIOUS
    <2>3. id = ids[k] /\ k \in DOMAIN ids
      BY <1>4, <2>1 DEF IsVisited
    <2>4. id \in S
      BY <2>2, <2>3 DEF ToSet
    <2>5. S \in SUBSET (0..(n - 1))
      BY <2>1, <2>2 DEF ToSet
    <2>6. Max(S) \in S /\ Max(S) >= id
      <3>1. PICK u \in Nat : u = n - 1
        OBVIOUS
      <3> QED
        BY <2>4, <2>5, <3>1, MaxFacts
    <2>7. ids # <<>>
      <3>1. Len(ids) # 0
        BY <2>1, <2>3
      <3> QED
        BY <3>1
    <2>8. GetEndPosition(a) = Max(S) + 1
      BY <1>1, <1>4, <2>2, <2>7 DEF GetEndPosition
    <2>9. \A m \in S : m >= id => id < m + 1
      BY <2>5
    <2> QED
      BY <2>6, <2>8, <2>9
  <1> QED
    BY <1>2, <1>3, <1>4, CountFacts

LEMMA PositionFound ==
  ASSUME NEW impl, NEW n \in Nat, NEW data, NEW over, NEW ids, OverIs(over, ids, n), NEW p,
         NEW a, a = CursorAt(impl, data, n, over, ids, p),
         NEW at \in 1..CountOf(over, ids, n), StandsAt(over, ids, n, at, p)
  PROVE  /\ a.position # -1 /\ GetCurrentPosition(a) \in 0..(n - 1)
         /\ IsVisited(over, ids, at, GetCurrentPosition(a))
  <1>1. a.over = over /\ a.ids = ids /\ a.position = p
    BY DEF CursorAt
  <1>0. CountOf(over, ids, n) \in Nat
    BY CountFacts
  <1>2. CASE over = "all"
    <2>1. p = at - 1 /\ CountOf(over, ids, n) = n
      BY <1>2 DEF StandsAt, CountOf
    <2>2. GetCurrentPosition(a) = p
      BY <1>1, <1>2 DEF GetCurrentPosition
    <2> QED
      BY <1>1, <1>2, <2>1, <2>2 DEF IsVisited
  <1>3. CASE over = "ids"
    <2>1. Places(ids) \in SUBSET (0..(n - 1)) /\ CountOf(over, ids, n) = Cardinality(Places(ids))
      BY <1>3, CountFacts
    <2>2. StandsIn(Places(ids), n, at, p) /\ at \in 0..(Cardinality(Places(ids)) + 1) /\ at \in 1..Cardinality(Places(ids))
      BY <1>0, <1>3, <2>1 DEF StandsAt
    <2>3. p \in Places(ids)
      BY <2>1, <2>2, StandsWhere
    <2>4. Cardinality({i \in Places(ids) : i < p}) = at - 1
      BY <2>2, <1>0, <2>1 DEF StandsIn, Below
    <2>5. GetCurrentPosition(a) = p
      BY <1>1, <1>3 DEF GetCurrentPosition
    <2>6. p \in 0..(n - 1) /\ p # -1
      BY <2>1, <2>3
    <2> QED
      BY <1>1, <1>3, <2>3, <2>4, <2>5, <2>6 DEF IsVisited
  <1>4. CASE over = "ordered"
    <2>1. ids \in [1..CountOf(over, ids, n) -> 0..(n - 1)]
      BY <1>4, CountFacts
    <2>2. p = at - 1 /\ p + 1 = at /\ p # -1
      BY <1>0, <1>4 DEF StandsAt
    <2>3. GetCurrentPosition(a) = ids[at]
      BY <1>1, <1>4, <2>2 DEF GetCurrentPosition
    <2> QED
      BY <1>1, <1>4, <2>1, <2>2, <2>3 DEF IsVisited
  <1> QED
    BY <1>2, <1>3, <1>4, CountFacts

\* The class a functor is given.
LEMMA InvokedFound ==
  ASSUME NEW impl \in Impls, NEW n, NEW data, NEW over \in {"all", "ids", "ordered"}, NEW ids, NEW p,
         NEW a, a = CursorAt(impl, data, n, over, ids, p)
  PROVE  impl # "Packed" => /\ Invoked(a) = <<over, impl>>
                            /\ InvokedMaybeTupleIdSequenceAdapter(a) = Invoked(a) \/ over = "ordered"
  <1>1. a.impl = impl /\ a.over = over
    BY DEF CursorAt
  <1> QED
    BY <1>1 DEF Invoked, InvokedMaybeTupleIdSequenceAdapter, Impls

-----------------------------------------------------------------------------
(***************************************************************************)
(* What the calls return.                                                  *)
(***************************************************************************)
TypesCalls  == [kind : {"types"}, first : CallTypes, second : CallTypes]
CoerceCalls == {c \in [kind : {"coerce"}, from : CallTypes, to : CallTypes,
                       value : UNION {CoercedValues(type) : type \in CallTypes}] :
                  c.from.id # "NullType" /\ IsValueOf(c.value, c.from)}
SignatureCalls == [kind : {"signature"}, op : BinaryOperationIDs,
                   left : CallTypes \cup {NoType}, right : CallTypes \cup {NoType}]
UnarySignatureCalls == {c \in [kind : {"unary signature"}, op : UNION {UnaryOps(type) : type \in CallTypes},
                               type : CallTypes] : c.op \in UnaryOps(c.type)}
FunctionCalls == [kind : {"function"}, id : WindowAggregationIDs,
                  arguments : {SubSeq(<<first, second>>, 1, n) : first \in CallTypes, second \in CallTypes, n \in 0..2}]
MoveCalls   == [kind : {"move"}, ticks : Datetimes, months : Months]
BitsCalls   == {c \in [kind : {"bits"}, vector : Vectors] : c.vector.short => c.vector.width <= ShortBits[3]}
ChangeCalls == {c \in [kind : {"change"}, op : {"set", "unset", "forward", "backward"}, vector : Vectors,
                       start : Nat, count : Nat] :
                  /\ c.start < c.vector.bits
                  /\ c.op \in {"set", "unset"} => c.start + c.count <= c.vector.bits}
TwoCalls    == {c \in [kind : {"two"}, vector : Vectors, other : Vectors] :
                  /\ c.vector.width = c.other.width
                  /\ ~c.vector.short => c.vector.width = SizeTBits}
PointersCalls == {c \in [kind : {"pointers"}, nulls : BOOLEAN, changes : SeqsUpTo(Change, MostChanges)] :
                    Allowed(c.changes, c.nulls)}
SchemaCalls   == [kind : {"schema"}, types : SeqsUpTo(RelationTypes, Len(AttributeNames)),
                  temporary : BOOLEAN, displayed : BOOLEAN]
CatalogCalls  == [kind : {"catalog"}, names : SeqsUpTo(DatabaseNames, MostNames)]
\* The arguments of the calls about columns and cursors.
ValuesFor(type) == {ValuesOf(type)[i] : i \in DOMAIN ValuesOf(type)}
ColumnCalls == {c \in [kind : {"column"}, type : ColumnTypes, way : Ways, order : UNION {[1..n -> 1..n] : n \in Nat},
                       values : UNION {[1..n -> UNION {ValuesFor(type) : type \in ColumnTypes}] : n \in Nat}] :
                  \E n \in Nat \ {0} : /\ c.values \in [1..n -> ValuesFor(c.type)] /\ IsOrder(c.order, c.way, n)
                                       /\ c.way = "fill" => \A i \in 1..n : c.values[i] = c.values[1]
                                       /\ c.way \in Untyped => IsNative(c.type)}
CursorCalls == {c \in [kind : {"cursor"}, impl : Impls, tuples : Nat, over : {"all", "ids", "ordered"},
                       ids : Vectors \cup Seq(Nat),
                       moves : SeqsUpTo(CursorMoves, MostMoves)] :
                  OverIs(c.over, c.ids, c.tuples) /\ Legal(c.moves, CountOf(c.over, c.ids, c.tuples))}
Calls == TypesCalls \cup CoerceCalls \cup MoveCalls \cup BitsCalls \cup ChangeCalls \cup TwoCalls
           \cup PointersCalls \cup SchemaCalls \cup CatalogCalls
           \cup SignatureCalls \cup UnarySignatureCalls \cup FunctionCalls \cup ColumnCalls \cup CursorCalls

\* A call is one that can be made, and what it has returned is right.
ValueInv ==
  /\ call \in Calls
  /\ CoercionsAreSafe
  /\ MonthsMoveTheCalendar
  /\ BitVectorsHoldTheirBits
  /\ SchemasDescribeTuples
  /\ SignaturesAgree
  /\ CursorsVisitTheirTuples

LEMMA KindsOfCalls ==
  ASSUME call \in Calls
  PROVE  /\ call.kind = "types" => call \in TypesCalls
         /\ call.kind = "coerce" => call \in CoerceCalls
         /\ call.kind = "move" => call \in MoveCalls
         /\ call.kind = "bits" => call \in BitsCalls
         /\ call.kind = "change" => call \in ChangeCalls
         /\ call.kind = "two" => call \in TwoCalls
         /\ call.kind = "pointers" => call \in PointersCalls
         /\ call.kind = "schema" => call \in SchemaCalls
         /\ call.kind = "catalog" => call \in CatalogCalls
         /\ call.kind = "signature" => call \in SignatureCalls
         /\ call.kind = "unary signature" => call \in UnarySignatureCalls
         /\ call.kind = "function" => call \in FunctionCalls
         /\ call.kind = "column" => call \in ColumnCalls
         /\ call.kind = "cursor" => call \in CursorCalls
  <1>1. call \in TypesCalls => call.kind = "types"
    BY DEF TypesCalls
  <1>2. call \in CoerceCalls => call.kind = "coerce"
    BY DEF CoerceCalls
  <1>3. call \in MoveCalls => call.kind = "move"
    BY DEF MoveCalls
  <1>4. call \in BitsCalls => call.kind = "bits"
    BY DEF BitsCalls
  <1>5. call \in ChangeCalls => call.kind = "change"
    BY DEF ChangeCalls
  <1>6. call \in TwoCalls => call.kind = "two"
    BY DEF TwoCalls
  <1>7. call \in PointersCalls => call.kind = "pointers"
    BY DEF PointersCalls
  <1>8. call \in SchemaCalls => call.kind = "schema"
    BY DEF SchemaCalls
  <1>9. call \in CatalogCalls => call.kind = "catalog"
    BY DEF CatalogCalls
  <1>10. call \in SignatureCalls => call.kind = "signature"
    BY DEF SignatureCalls
  <1>11. call \in UnarySignatureCalls => call.kind = "unary signature"
    BY DEF UnarySignatureCalls
  <1>12. call \in FunctionCalls => call.kind = "function"
    BY DEF FunctionCalls
  <1>13. call \in ColumnCalls => call.kind = "column"
    BY DEF ColumnCalls
  <1>14. call \in CursorCalls => call.kind = "cursor"
    BY DEF CursorCalls
  <1> QED
    BY <1>1, <1>2, <1>3, <1>4, <1>5, <1>6, <1>7, <1>8, <1>9, <1>10, <1>11, <1>12, <1>13, <1>14 DEF Calls

\* The arguments of the calls about bit vectors.
LEMMA VectorsMade ==
  ASSUME InitBits \/ InitTwo
  PROVE  call \in BitsCalls \cup ChangeCalls \cup TwoCalls
  <1>1. ASSUME NEW n \in Nat, NEW places \in Subsets(n) PROVE places \in SUBSET (0..(n - 1))
    BY DEF Subsets
  <1>2. ASSUME InitBits PROVE call \in BitsCalls \cup ChangeCalls
    <2>0. PICK n \in Nat, short \in BOOLEAN : \E places \in Subsets(n) :
            \/ call = [kind |-> "bits", vector |-> BitVector(short, n, places)]
            \/ n > 0 /\ \E start \in 0..(n - 1), count \in 0..(n + 1), op \in {"set", "unset", "forward", "backward"} :
                 /\ op \in {"set", "unset"} => start + count <= n
                 /\ call = [kind |-> "change", op |-> op, vector |-> BitVector(short, n, places),
                            start |-> start, count |-> count]
      BY <1>2, ArgumentsAssumption DEF InitBits
    <2>1. PICK places \in Subsets(n) :
            \/ call = [kind |-> "bits", vector |-> BitVector(short, n, places)]
            \/ n > 0 /\ \E start \in 0..(n - 1), count \in 0..(n + 1), op \in {"set", "unset", "forward", "backward"} :
                 /\ op \in {"set", "unset"} => start + count <= n
                 /\ call = [kind |-> "change", op |-> op, vector |-> BitVector(short, n, places),
                            start |-> start, count |-> count]
      BY <2>0
    <2>2. PICK v \in Vectors : v = BitVector(short, n, places) /\ v.bits = n /\ (v.short => v.width <= ShortBits[3])
      <3>1. places \in SUBSET (0..(n - 1))
        BY <1>1
      <3> QED
        BY <3>1, BitVectorFacts
    <2>3. CASE call = [kind |-> "bits", vector |-> v]
      BY <2>2, <2>3 DEF BitsCalls
    <2>4. ASSUME NEW start \in 0..(n - 1), NEW count \in 0..(n + 1), NEW op \in {"set", "unset", "forward", "backward"},
                 op \in {"set", "unset"} => start + count <= n,
                 call = [kind |-> "change", op |-> op, vector |-> v, start |-> start, count |-> count]
          PROVE  call \in ChangeCalls
      BY <2>2, <2>4 DEF ChangeCalls
    <2> QED
      BY <2>1, <2>2, <2>3, <2>4
  <1>3. ASSUME InitTwo PROVE call \in TwoCalls
    <2>1. PICK n \in Nat, m \in Nat, short \in BOOLEAN : /\ short => n = m
            /\ \E places \in SUBSET (0..(n - 1)), others \in SUBSET (0..(m - 1)) :
                 call = [kind |-> "two", vector |-> BitVector(short, n, places), other |-> BitVector(short, m, others)]
      BY <1>3, ArgumentsAssumption DEF InitTwo
    <2>2. PICK places \in SUBSET (0..(n - 1)), others \in SUBSET (0..(m - 1)) :
            call = [kind |-> "two", vector |-> BitVector(short, n, places), other |-> BitVector(short, m, others)]
      BY <2>1
    <2>3. PICK v \in Vectors : v = BitVector(short, n, places) /\ v.width = WidthFor(short, n) /\ v.short = IsShort(short, n)
      BY BitVectorFacts
    <2>4. PICK o \in Vectors : o = BitVector(short, m, others) /\ o.width = WidthFor(short, m)
      BY BitVectorFacts
    <2>5. v.width = o.width /\ (~v.short => v.width = SizeTBits)
      <3>1. ~short => WidthFor(short, n) = SizeTBits /\ WidthFor(short, m) = SizeTBits
        BY DEF WidthFor, IsShort
      <3>2. ~IsShort(short, n) => WidthFor(short, n) = SizeTBits
        BY DEF WidthFor
      <3> QED
        BY <2>1, <2>3, <2>4, <3>1, <3>2
    <2> QED
      BY <2>2, <2>3, <2>4, <2>5 DEF TwoCalls
  <1> QED
    BY <1>2, <1>3

\* The arguments of the calls about structures.
LEMMA StructuresMade ==
  ASSUME InitPointers \/ InitSchema \/ InitCatalog
  PROVE  call \in PointersCalls \cup SchemaCalls \cup CatalogCalls
  <1>1. ASSUME InitPointers PROVE call \in PointersCalls
    <2>1. PICK nulls \in BOOLEAN : \E changes \in {c \in SeqsUpTo(Change, MostChanges) : Allowed(c, nulls)} :
            call = [kind |-> "pointers", nulls |-> nulls, changes |-> changes]
      BY <1>1 DEF InitPointers
    <2>2. PICK changes \in SeqsUpTo(Change, MostChanges) :
            Allowed(changes, nulls) /\ call = [kind |-> "pointers", nulls |-> nulls, changes |-> changes]
      BY <2>1
    <2> QED
      BY <2>2 DEF PointersCalls
  <1>2. InitSchema => call \in SchemaCalls
    BY DEF InitSchema, SchemaCalls
  <1>3. InitCatalog => call \in CatalogCalls
    BY DEF InitCatalog, CatalogCalls
  <1> QED
    BY <1>1, <1>2, <1>3

\* The arguments of the calls about types.
LEMMA SignaturesMade ==
  ASSUME InitSignature \/ InitUnarySignature \/ InitFunction
  PROVE  call \in SignatureCalls \cup UnarySignatureCalls \cup FunctionCalls
  <1>1. InitSignature => call \in SignatureCalls
    BY DEF InitSignature, SignatureCalls
  <1>2. ASSUME InitUnarySignature PROVE call \in UnarySignatureCalls
    <2>1. PICK type \in CallTypes : \E op \in UnaryOps(type) :
            call = [kind |-> "unary signature", op |-> op, type |-> type]
      BY <1>2 DEF InitUnarySignature
    <2>2. PICK op \in UnaryOps(type) : call = [kind |-> "unary signature", op |-> op, type |-> type]
      BY <2>1
    <2>3. op \in UNION {UnaryOps(t) : t \in CallTypes}
      OBVIOUS
    <2> QED
      BY <2>2, <2>3 DEF UnarySignatureCalls
  <1>3. ASSUME InitFunction PROVE call \in FunctionCalls
    <2>1. PICK id \in WindowAggregationIDs, first \in CallTypes, second \in CallTypes, n \in 0..2 :
            call = [kind |-> "function", id |-> id, arguments |-> SubSeq(<<first, second>>, 1, n)]
      BY <1>3 DEF InitFunction
    <2>2. PICK arguments : arguments = SubSeq(<<first, second>>, 1, n)
      OBVIOUS
    <2>3. arguments \in {SubSeq(<<a, b>>, 1, k) : a \in CallTypes, b \in CallTypes, k \in 0..2}
      BY <2>2
    <2> QED
      BY <2>1, <2>2, <2>3 DEF FunctionCalls
  <1> QED
    BY <1>1, <1>2, <1>3

\* The arguments of the calls about columns and cursors.
LEMMA ColumnsMade ==
  ASSUME InitColumn
  PROVE  call \in ColumnCalls
  <1>1. PICK type \in ColumnTypes, n \in 1..MostTuples, way \in Ways :
          \E values \in [1..n -> {ValuesOf(type)[i] : i \in DOMAIN ValuesOf(type)}], order \in [1..n -> 1..n] :
            /\ way = "fill" => \A i \in 1..n : values[i] = values[1]
            /\ way \in Untyped => IsNative(type)
            /\ {order[i] : i \in 1..n} = 1..n
            /\ way \notin Positional => \A i \in 1..n : order[i] = i
            /\ call = [kind |-> "column", type |-> type, values |-> values, way |-> way, order |-> order]
    BY DEF InitColumn
  <1>2. PICK values \in [1..n -> ValuesFor(type)], order \in [1..n -> 1..n] :
          /\ way = "fill" => \A i \in 1..n : values[i] = values[1]
          /\ way \in Untyped => IsNative(type)
          /\ {order[i] : i \in 1..n} = 1..n
          /\ way \notin Positional => \A i \in 1..n : order[i] = i
          /\ call = [kind |-> "column", type |-> type, values |-> values, way |-> way, order |-> order]
    BY <1>1 DEF ValuesFor
  <1>3. n \in Nat \ {0}
    BY ArgumentsAssumption
  <1>4. IsOrder(order, way, n)
    BY <1>2 DEF IsOrder
  <1>5. values \in UNION {[1..k -> UNION {ValuesFor(t) : t \in ColumnTypes}] : k \in Nat}
    <2>1. ValuesFor(type) \subseteq UNION {ValuesFor(t) : t \in ColumnTypes}
      OBVIOUS
    <2>2. PICK All : All = UNION {ValuesFor(t) : t \in ColumnTypes} /\ ValuesFor(type) \subseteq All
      BY <2>1
    <2>3. values \in [1..n -> All]
      BY <2>2
    <2> QED
      BY <1>3, <2>2, <2>3
  <1>6. order \in UNION {[1..k -> 1..k] : k \in Nat}
    BY <1>3
  <1>7. call.kind = "column" /\ call.type = type /\ call.values = values /\ call.way = way /\ call.order = order
    BY <1>2
  <1>8. call \in [kind : {"column"}, type : ColumnTypes, way : Ways, order : UNION {[1..k -> 1..k] : k \in Nat},
                  values : UNION {[1..k -> UNION {ValuesFor(t) : t \in ColumnTypes}] : k \in Nat}]
    <2>1. PICK Orders, Valueses : /\ Orders = UNION {[1..k -> 1..k] : k \in Nat} /\ order \in Orders
                                  /\ Valueses = UNION {[1..k -> UNION {ValuesFor(t) : t \in ColumnTypes}] : k \in Nat}
                                  /\ values \in Valueses
      BY <1>5, <1>6
    <2>2. call \in [kind : {"column"}, type : ColumnTypes, way : Ways, order : Orders, values : Valueses]
      BY <1>2, <2>1
    <2> QED
      BY <2>1, <2>2
  <1> QED
    BY <1>2, <1>3, <1>4, <1>7, <1>8 DEF ColumnCalls

LEMMA CursorsMade ==
  ASSUME InitCursor
  PROVE  call \in CursorCalls
  <1>1. PICK impl \in Impls, n \in 0..MostTuples, over \in {"all", "ids", "ordered"} :
          \E ids \in IdsOf(over, n) : \E moves \in {m \in SeqsUpTo(CursorMoves, MostMoves) : Legal(m, CountOf(over, ids, n))} :
            call = [kind |-> "cursor", impl |-> impl, tuples |-> n, over |-> over, ids |-> ids, moves |-> moves]
    BY DEF InitCursor, Impls
  <1>2. PICK ids \in IdsOf(over, n) : \E moves \in {m \in SeqsUpTo(CursorMoves, MostMoves) : Legal(m, CountOf(over, ids, n))} :
          call = [kind |-> "cursor", impl |-> impl, tuples |-> n, over |-> over, ids |-> ids, moves |-> moves]
    BY <1>1
  <1>3. PICK moves \in SeqsUpTo(CursorMoves, MostMoves) :
          /\ Legal(moves, CountOf(over, ids, n))
          /\ call = [kind |-> "cursor", impl |-> impl, tuples |-> n, over |-> over, ids |-> ids, moves |-> moves]
    BY <1>2
  <1>4. n \in Nat
    BY ArgumentsAssumption
  <1>5. OverIs(over, ids, n)
    <2>1. CASE over = "all"
      BY <2>1 DEF IdsOf, OverIs
    <2>2. CASE over = "ids"
      <3>1. PICK S \in SUBSET (0..(n - 1)) : ids = TupleIds(n, S)
        BY <2>2 DEF IdsOf
      <3>2. ids \in Vectors /\ ids.bits = n
        BY <1>4, <3>1, NewMarks DEF TupleIds, MarksAre
      <3> QED
        BY <2>2, <3>2 DEF OverIs
    <2>3. CASE over = "ordered"
      <3>1. ids \in SeqsUpTo(0..(n - 1), MostTuples)
        BY <2>3 DEF IdsOf
      <3>2. PICK k \in 0..MostTuples : ids \in [1..k -> 0..(n - 1)]
        BY <3>1 DEF SeqsUpTo
      <3> QED
        BY <2>3, <3>2 DEF OverIs
    <2> QED
      BY <2>1, <2>2, <2>3
  <1>6. call.kind = "cursor" /\ call.tuples = n /\ call.over = over /\ call.ids = ids /\ call.moves = moves
    BY <1>3
  <1>7. ids \in Vectors \cup Seq(Nat)
    <2>1. CASE over = "all" /\ ids = <<>>
      <3>1. <<>> \in Seq(Nat)
        OBVIOUS
      <3> QED
        BY <2>1, <3>1, Zenon
    <2>2. CASE over = "ids" /\ ids \in Vectors
      BY <2>2
    <2>3. CASE over = "ordered" /\ \E k \in Nat : ids \in [1..k -> 0..(n - 1)]
      <3>1. PICK k \in Nat : ids \in [1..k -> 0..(n - 1)]
        BY <2>3
      <3>2. ids \in [1..k -> Nat]
        BY <3>1
      <3> QED
        BY <3>2, LengthOf
    <2> QED
      BY <1>5, <2>1, <2>2, <2>3 DEF OverIs
  <1>8. call \in [kind : {"cursor"}, impl : Impls, tuples : Nat, over : {"all", "ids", "ordered"}, ids : Vectors \cup Seq(Nat),
                  moves : SeqsUpTo(CursorMoves, MostMoves)]
    BY <1>3, <1>4, <1>7
  <1> QED
    BY <1>3, <1>5, <1>6, <1>7, <1>8 DEF CursorCalls

LEMMA ArgumentsMade == ValueInit => ValueInv
  <1> SUFFICES ASSUME ValueInit PROVE ValueInv
    OBVIOUS
  <1>1. InitTypes => call \in TypesCalls
    BY DEF InitTypes, TypesCalls
  <1>2. ASSUME InitCoerce PROVE call \in CoerceCalls
    <2>1. PICK from \in CallTypes, to \in CallTypes : from.id # "NullType" /\ \E v \in CoercedValues(from) :
            call = [kind |-> "coerce", from |-> from, to |-> to, value |-> v]
      BY <1>2 DEF InitCoerce
    <2>2. PICK v \in CoercedValues(from) :
            call = [kind |-> "coerce", from |-> from, to |-> to, value |-> v]
      BY <2>1
    <2>3. IsValueOf(v, from)
      BY ArgumentsAssumption DEF CoercedValues
    <2>4. v \in UNION {CoercedValues(type) : type \in CallTypes}
      OBVIOUS
    <2> QED
      BY <2>1, <2>2, <2>3, <2>4 DEF CoerceCalls
  <1>3. InitMove => call \in MoveCalls
    BY DEF InitMove, MoveCalls
  <1>4. call \in Calls
    BY <1>1, <1>2, <1>3, VectorsMade, StructuresMade, SignaturesMade, ColumnsMade, CursorsMade DEF ValueInit, Calls
  <1>5. ~result.returned
    BY DEF ValueInit, NotReturned
  <1> QED
    BY <1>4, <1>5
       DEF ValueInv, CoercionsAreSafe, MonthsMoveTheCalendar, BitVectorsHoldTheirBits, SchemasDescribeTuples,
           SignaturesAgree, CursorsVisitTheirTuples, Returned

\* A column of any type, filled in any way and order, holds its values.
LEMMA ColumnsRight ==
  ASSUME NEW c \in ColumnCalls
  PROVE  ColumnIsRight(c.values, FilledColumn(c.type, c.values, c.way, c.order))
  <1>0. PICK type \in ColumnTypes, way \in Ways : type = c.type /\ way = c.way
    BY DEF ColumnCalls
  <1>1. PICK values, order : type = c.type /\ way = c.way /\ values = c.values /\ order = c.order
    BY <1>0
  <1>2. PICK n \in Nat \ {0} : /\ values \in [1..n -> ValuesFor(type)] /\ IsOrder(order, way, n)
                               /\ way = "fill" => \A i \in 1..n : values[i] = values[1]
                               /\ way \in Untyped => IsNative(type)
    BY <1>1 DEF ColumnCalls
  <1>3. AreOf(values, type, n)
    <2>1. type \in CallTypes /\ type \in AllTypes
      BY ArgumentsAssumption
    <2>2. Len(values) = n /\ DOMAIN values = 1..n
      BY <1>2, LengthOf
    <2>3. ASSUME NEW v \in ValuesFor(type)
          PROVE  v.null \in BOOLEAN /\ (v.null => type.nullable /\ v = NullValue(type.id))
      <3>1. IsValueOf(v, type)
        BY <2>1, ArgumentsAssumption DEF ValuesFor
      <3>2. ~v.null => v.null = FALSE
        <4>1. ~v.null => v = Value(type.id, v.val)
          BY <3>1 DEF IsValueOf
        <4>2. Value(type.id, v.val).null = FALSE
          BY DEF Value
        <4> QED
          BY <4>1, <4>2
      <3>3. v.null => v = NullValue(type.id) /\ type.nullable
        BY <3>1 DEF IsValueOf
      <3>4. NullValue(type.id).null = TRUE
        BY DEF NullValue
      <3> QED
        BY <3>2, <3>3, <3>4
    <2> QED
      BY <1>2, <2>1, <2>2, <2>3 DEF AreOf
  <1>4. HoldsAt(FilledColumn(type, values, way, order), type, values, n, n, 0..(n - 1))
    <2>1. n \in Nat /\ IsOrder(order, way, n) /\ (way \in Untyped => IsNative(type))
          /\ (way = "fill" => n > 0 /\ \A i \in 1..n : values[i] = values[1])
      BY <1>2
    <2> QED
      BY <1>3, <2>1, ColumnFilled
  <1> QED
    BY <1>1, <1>3, <1>4, ColumnReadBack

\* A cursor of any kind, moved in any way, answers as the ids it visits do.
LEMMA CursorsRight ==
  ASSUME NEW c \in CursorCalls, NEW a, a = CursorsOf(CursorOver(c.impl, c.tuples, c.over, c.ids), c.moves)[Len(c.moves)],
         NEW stands, stands = (HasTuple(a) /\ a.position # -1), NEW r,
         r.has = HasTuple(a), r.finished = IterationFinished(a), r.end = GetEndPosition(a), r.number = GetNumTuples(a),
         r.position = IF stands THEN GetCurrentPosition(a) ELSE -1,
         r.tuple = IF stands THEN CurrentTuple(a) ELSE <<>>,
         r.pointer = IF stands THEN CurrentPointer(a, 0) ELSE NullPointer,
         r.turned = IF stands THEN TupleWithAttributes(a, <<SecondIn(c.impl), 0>>) ELSE <<>>,
         r.byId = [id \in IF OffersAbsolutePositions(a) THEN 0..(c.tuples - 1) ELSE {} |-> ValueAtAbsolutePosition(a, 0, id)],
         r.invoked = Invoked(a), r.maybe = InvokedMaybeTupleIdSequenceAdapter(a)
  PROVE  CursorIsRight(c, r)
  <1>0. PICK impl \in Impls, n \in Nat, moves \in SeqsUpTo(CursorMoves, MostMoves) :
          impl = c.impl /\ n = c.tuples /\ moves = c.moves
    BY DEF CursorCalls
  <1>1. PICK over, ids : /\ impl = c.impl /\ n = c.tuples /\ over = c.over /\ ids = c.ids /\ moves = c.moves
                         /\ OverIs(over, ids, n) /\ Legal(moves, CountOf(over, ids, n))
    BY <1>0 DEF CursorCalls
  <1>2. PICK m \in Nat : Len(moves) = m
    BY ArgumentsAssumption, SeqsFacts
  <1>3. PICK count \in Nat : count = CountOf(over, ids, n)
    BY <1>1, CountFacts
  <1>4. PICK start, data : /\ start = CursorOver(impl, n, over, ids) /\ start = CursorAt(impl, data, n, over, ids, -1)
                           /\ DataIs(impl, data, n)
    BY <1>1, CursorMade
  <1>5. PICK at \in 0..(count + 1) : at = StandingsOf(moves)[m]
    BY <1>1, <1>2, <1>3 DEF Legal
  <1>6. PICK p : a = CursorAt(impl, data, n, over, ids, p) /\ StandsAt(over, ids, n, at, p)
    <2>1. a = CursorsOf(start, moves)[m]
      BY <1>1, <1>2, <1>4
    <2> QED
      BY <1>1, <1>2, <1>4, <1>5, <2>1, CursorsStand
  <1>7. over \in {"all", "ids", "ordered"}
    BY <1>1, CountFacts
  <1>8. /\ at # 0 => (r.has <=> at <= count)
        /\ r.finished <=> at >= count
        /\ r.number = count
    BY <1>1, <1>3, <1>6, EndsFound
  <1>9. ASSUME NEW k \in 1..count, NEW id \in 0..(n - 1), IsVisited(over, ids, k, id) PROVE id < r.end
    BY <1>1, <1>3, <1>6, <1>9, VisitedBelow
  <1>10. ASSUME at \in 1..count
         PROVE  /\ IsVisited(over, ids, at, r.position)
                /\ r.tuple = <<AttributeValue(0, r.position, n), AttributeValue(1, r.position, n)>>
                /\ r.turned = <<AttributeValue(1, r.position, n), AttributeValue(0, r.position, n)>>
                /\ r.pointer = Pointed(AttributeValue(0, r.position, n))
    <2>1. at \in 1..CountOf(over, ids, n)
      BY <1>3, <1>10
    <2>2. a.position # -1 /\ GetCurrentPosition(a) \in 0..(n - 1) /\ IsVisited(over, ids, at, GetCurrentPosition(a))
      <3>1. a = CursorAt(impl, data, n, over, ids, p) /\ StandsAt(over, ids, n, at, p) /\ OverIs(over, ids, n)
        BY <1>1, <1>6
      <3>2. n \in Nat
        OBVIOUS
      <3> QED
        BY <2>1, <3>1, <3>2, PositionFound, Zenon
    <2>3. HasTuple(a)
      <3>1. at # 0 /\ at <= count
        BY <1>10
      <3> QED
        BY <1>8, <3>1
    <2>4. stands
      BY <2>2, <2>3
    <2>5. PICK id \in 0..(n - 1) : id = GetCurrentPosition(a) /\ r.position = id
      BY <2>2, <2>4
    <2>6. n \in Nat \ {0}
      BY <2>5
    <2>7. /\ CurrentTuple(a) = <<AttributeValue(0, id, n), AttributeValue(1, id, n)>>
          /\ TupleWithAttributes(a, <<SecondIn(impl), 0>>) = <<AttributeValue(1, id, n), AttributeValue(0, id, n)>>
          /\ CurrentPointer(a, 0) = Pointed(AttributeValue(0, id, n))
      BY <1>4, <1>6, <2>5, <2>6, TupleRead
    <2> QED
      BY <1>1, <2>2, <2>4, <2>5, <2>7
  <1>11. DOMAIN r.byId = (IF over = "ordered" THEN {} ELSE 0..(n - 1))
         /\ \A id \in DOMAIN r.byId : r.byId[id] = AttributeValue(0, id, n)
    <2>1. OffersAbsolutePositions(a) <=> over # "ordered"
      BY <1>6 DEF CursorAt, OffersAbsolutePositions
    <2>2. r.byId = [id \in IF over = "ordered" THEN {} ELSE 0..(n - 1) |-> ValueAtAbsolutePosition(a, 0, id)]
      BY <1>1, <2>1
    <2>3. \A id \in 0..(n - 1) : ValueAtAbsolutePosition(a, 0, id) = AttributeValue(0, id, n)
      BY <1>4, <1>6, ValuesRead
    <2> QED
      BY <2>2, <2>3
  <1>12. impl # "Packed" => r.invoked = <<over, impl>> /\ (r.maybe = r.invoked \/ over = "ordered")
    BY <1>6, <1>7, InvokedFound
  <1> DEFINE Right(s) ==
               /\ at # 0 => (s.has <=> at <= count)
               /\ (s.finished <=> at >= count) /\ s.number = count
  <1>13. StandingsOf(c.moves)[Len(c.moves)] = at /\ CountOf(c.over, c.ids, c.tuples) = count
    BY <1>1, <1>2, <1>3, <1>5
  <1>14. \A k \in 1..count, id \in 0..(n - 1) : IsVisited(over, ids, k, id) => id < r.end
    BY <1>9
  <1> QED
    BY <1>1, <1>8, <1>10, <1>11, <1>12, <1>13, <1>14 DEF CursorIsRight, Pointed

LEMMA TypesResolved == ASSUME ValueInv, ResolveTypes PROVE ValueInv'
  <1>1. call' = call /\ call.kind = "types" /\ call \in TypesCalls /\ result'.returned
    BY KindsOfCalls DEF ValueInv, ResolveTypes, Returns, Called
  <1>2. PICK t \in CallTypes, s \in CallTypes :
          t = call.first /\ s = call.second /\ t \in AllTypes /\ s \in AllTypes
    BY <1>1, ArgumentsAssumption DEF TypesCalls
  <1> DEFINE u == GetUnifyingType(t, s)
             v == GetUnifyingType(s, t)
             HoldsBoth(type) == IsSafelyCoercibleFrom(type, t) /\ IsSafelyCoercibleFrom(type, s)
  <1>3. /\ result'.value.unifier = u /\ result'.value.exchanged = v
        /\ result'.value.notNull = IF NullType \in {t, s} THEN NoType ELSE GetUnifyingType(NonNullable(t), NonNullable(s))
        /\ result'.value.subsumed = IsSubsumedBy(t, s)
    BY <1>2 DEF ResolveTypes, Returns
  <1>4. u = NoType <=> v = NoType
    BY <1>2, UnifiersAgree
  <1>5. /\ u = NoType => ~\E type \in CallTypes : HoldsBoth(type)
        /\ u # NoType => HoldsBoth(u) /\ \A type \in CallTypes : HoldsBoth(type) => IsSafelyCoercibleFrom(type, u)
    <2>1. \A type \in CallTypes : type \in AllTypes
      BY ArgumentsAssumption
    <2> QED
      BY <1>2, <2>1, UnifyingIsLeast
  <1>6. v # NoType => HoldsBoth(v)
    BY <1>2, UnifyingIsLeast
  <1>7. u # NoType /\ NullType \notin {t, s} => NonNullable(u) = NonNullable(result'.value.notNull)
    BY <1>2, <1>3, UnifiersAgree
  <1>8. ASSUME IsSubsumedBy(t, s)
        PROVE  /\ IsSafelyCoercibleFrom(s, t)
               /\ \A i \in DOMAIN ValuesOf(t) : IsPlausibleInstanceOf(ValuesOf(t)[i], Signature(s))
    <2>1. IsSafelyCoercibleFrom(s, t)
      BY <1>2, <1>8, SubsumedIsHeld
    <2>2. /\ s.id = t.id /\ (t.nullable => s.nullable)
          /\ t.length = s.length \/ (t.id = "VarChar" /\ t.length <= s.length)
      <3>1. CASE t = s \/ Nullable(t) = s
        BY <1>2, <3>1 DEF Nullable, AllTypes
      <3>2. CASE t.id = "VarChar" /\ VarCharIsSubsumedBy(t, s)
        BY <1>2, <3>2 DEF VarCharIsSubsumedBy, MaximumByteLength, AllTypes
      <3> QED
        BY <1>8, <3>1, <3>2 DEF IsSubsumedBy
    <2>3. ASSUME NEW i \in DOMAIN ValuesOf(t) PROVE IsPlausibleInstanceOf(ValuesOf(t)[i], Signature(s))
      <3>1. IsValueOf(ValuesOf(t)[i], t)
        BY ArgumentsAssumption
      <3> QED
        BY <1>2, <2>2, <3>1, ValuesArePlausible
    <2> QED
      BY <2>1, <2>3
  <1> HIDE DEF u, v
  <1>9. CoercionsAreSafe'
    BY <1>1, <1>2, <1>3, <1>4, <1>5, <1>6, <1>7, <1>8 DEF CoercionsAreSafe, Returned
  <1>10. MonthsMoveTheCalendar' /\ BitVectorsHoldTheirBits' /\ SchemasDescribeTuples'
         /\ CursorsVisitTheirTuples'
    BY <1>1 DEF MonthsMoveTheCalendar, BitVectorsHoldTheirBits, SchemasDescribeTuples,
           CursorsVisitTheirTuples, Returned
  <1>11. SignaturesAgree'
    <2>1. PICK compares : /\ compares = [id \in ComparisonIDs |-> <<CanComparePartialTypes(id, t, s),
                                                                   CanComparePartialTypes(id, t, NoType),
                                                                   CanComparePartialTypes(id, NoType, s)>>]
                          /\ result'.value.compares = compares
      BY <1>2 DEF ResolveTypes, Returns
    <2>2. ComparesRight(t, s, compares)
      BY <2>1, ComparisonsRight
    <2> QED
      BY <1>1, <1>2, <2>1, <2>2 DEF SignaturesAgree, Returned
  <1> QED
    BY <1>1, <1>9, <1>10, <1>11 DEF ValueInv

LEMMA SignatureResolved == ASSUME ValueInv, ResolveSignature PROVE ValueInv'
  <1>1. call' = call /\ call.kind = "signature" /\ call \in SignatureCalls
    BY KindsOfCalls DEF ValueInv, ResolveSignature, Returns, Called
  <1>2. PICK op \in BinaryOperationIDs, l \in CallTypes \cup {NoType}, r \in CallTypes \cup {NoType} :
          op = call.op /\ l = call.left /\ r = call.right
    BY <1>1 DEF SignatureCalls
  <1>3. PICK v : v = result'.value
    OBVIOUS
  <1>4. v = [type |-> PartialType(op, l, r),
             operator |-> IF NoType \in {l, r} THEN NoOperator ELSE MakeUnchecked(op, l, r),
             hints |-> [type \in CallTypes |-> PushDownTypeHint(op, type)]]
    BY <1>2, <1>3 DEF ResolveSignature, Returns
  <1>5. SignatureIsRight(op, l, r, v)
    BY <1>4, SignaturesRight
  <1>6. SignaturesAgree'
    BY <1>1, <1>2, <1>3, <1>5 DEF SignaturesAgree, Returned
  <1>7. CoercionsAreSafe' /\ MonthsMoveTheCalendar' /\ BitVectorsHoldTheirBits' /\ SchemasDescribeTuples'
         /\ CursorsVisitTheirTuples'
    BY <1>1 DEF CoercionsAreSafe, MonthsMoveTheCalendar, BitVectorsHoldTheirBits, SchemasDescribeTuples,
           CursorsVisitTheirTuples, Returned
  <1> QED
    BY <1>1, <1>6, <1>7 DEF ValueInv

LEMMA UnarySignatureResolved == ASSUME ValueInv, ResolveUnarySignature PROVE ValueInv'
  <1>1. call' = call /\ call.kind = "unary signature" /\ call \in UnarySignatureCalls
    BY KindsOfCalls DEF ValueInv, ResolveUnarySignature, Returns, Called
  <1>2. PICK t \in CallTypes : t = call.type /\ call.op \in UnaryOps(t)
    BY <1>1 DEF UnarySignatureCalls
  <1>3. PICK op \in UnaryOps(t) : op = call.op
    BY <1>2
  <1>4. PICK v : v = result'.value
    OBVIOUS
  <1>5. v = [type |-> UnaryResultType(op, t), fixed |-> UnaryFixedType(op),
             plausible |-> {type \in CallTypes : UnaryPlausible(op, type)},
             typePlausible |-> /\ UnaryResultType(op, t) # NoType
                               /\ UnaryPlausible(op, UnaryResultType(op, t)),
             hints |-> [type \in CallTypes |-> UnaryHint(op, type)]]
    BY <1>2, <1>3, <1>4 DEF ResolveUnarySignature, Returns
  <1>6. UnarySignatureIsRight(op, t, v)
    BY <1>5, UnarySignaturesRight
  <1>7. SignaturesAgree'
    BY <1>1, <1>2, <1>3, <1>4, <1>6 DEF SignaturesAgree, Returned
  <1>8. CoercionsAreSafe' /\ MonthsMoveTheCalendar' /\ BitVectorsHoldTheirBits' /\ SchemasDescribeTuples'
         /\ CursorsVisitTheirTuples'
    BY <1>1 DEF CoercionsAreSafe, MonthsMoveTheCalendar, BitVectorsHoldTheirBits, SchemasDescribeTuples,
           CursorsVisitTheirTuples, Returned
  <1> QED
    BY <1>1, <1>7, <1>8 DEF ValueInv

LEMMA FunctionResolved == ASSUME ValueInv, ResolveFunction PROVE ValueInv'
  <1>1. call' = call /\ call.kind = "function" /\ call \in FunctionCalls
    BY KindsOfCalls DEF ValueInv, ResolveFunction, Returns, Called
  <1>2. PICK id \in WindowAggregationIDs, first \in CallTypes, second \in CallTypes, n \in 0..2 :
          id = call.id /\ call.arguments = SubSeq(<<first, second>>, 1, n)
    BY <1>1 DEF FunctionCalls
  <1>3. PICK v : v = result'.value
    OBVIOUS
  <1>4. v = [applies |-> FunctionCanApply(id, SubSeq(<<first, second>>, 1, n)),
             type    |-> FunctionResultType(id, SubSeq(<<first, second>>, 1, n)),
             handle  |-> IF FunctionCanApply(id, SubSeq(<<first, second>>, 1, n))
                         THEN CreateHandle(id, SubSeq(<<first, second>>, 1, n)) ELSE NoHandle,
             named   |-> FunctionByName(NameOf[id]),
             valid   |-> FunctionProtoIsValid(GetFunctionProto(id)),
             back    |-> ReconstructFunction(GetFunctionProto(id))]
    BY <1>2, <1>3 DEF ResolveFunction, Returns
  <1>5. FunctionIsRight(id, v)
    BY <1>4, FunctionsRight
  <1>6. SignaturesAgree'
    BY <1>1, <1>2, <1>3, <1>5 DEF SignaturesAgree, Returned
  <1>7. CoercionsAreSafe' /\ MonthsMoveTheCalendar' /\ BitVectorsHoldTheirBits' /\ SchemasDescribeTuples'
         /\ CursorsVisitTheirTuples'
    BY <1>1 DEF CoercionsAreSafe, MonthsMoveTheCalendar, BitVectorsHoldTheirBits, SchemasDescribeTuples,
           CursorsVisitTheirTuples, Returned
  <1> QED
    BY <1>1, <1>6, <1>7 DEF ValueInv

LEMMA ValueCoerced == ASSUME ValueInv, Coerce PROVE ValueInv'
  <1>1. call' = call /\ call.kind = "coerce" /\ call \in CoerceCalls
    BY KindsOfCalls DEF ValueInv, Coerce, Returns, Called
  <1>2. PICK from \in AllTypes, to \in AllTypes :
          /\ from = call.from /\ to = call.to
          /\ from.id # "NullType" /\ IsValueOf(call.value, from)
    BY <1>1, ArgumentsAssumption DEF CoerceCalls
  <1>3. PICK v : v = call.value
    OBVIOUS
  <1>4. PICK w : w = CoerceValue(to, v, from)
    OBVIOUS
  <1> DEFINE exact == ~w.null /\ ~v.null /\ ~Rounds(to.id, v)
  <1>5. /\ result'.value.value = w
        /\ exact /\ FastEqualCheck(CoerceValue(Nullable(from), w, to), v) => result'.value.same
        /\ result'.value.fromHash = IF w.null \/ ~HashIsReversible(w.tid) THEN w ELSE FromHash(w.tid, HashOf(w))
    BY <1>2, <1>3, <1>4 DEF Coerce, Returns
  <1>6. ASSUME IsSafelyCoercibleFrom(to, from)
        PROVE  /\ IsPlausibleInstanceOf(w, Signature(to)) /\ w.null = v.null
               /\ w.null \/ ~HashIsReversible(w.tid) \/ FromHash(w.tid, HashOf(w)) = w
               /\ ~w.null /\ w.tid \in StringIDs => HashOf(w) = HashOf(v)
               /\ exact => /\ FastEqualCheck(CoerceValue(Nullable(from), w, to), v)
                           /\ w.tid \notin StringIDs => w.val = v.val
    <2>1. IsValueOf(v, from)
      BY <1>2, <1>3
    <2> QED
      BY <1>2, <1>4, <1>6, <2>1, CoercionKeepsValue
  <1>7. CoercionsAreSafe'
    BY <1>1, <1>2, <1>3, <1>5, <1>6 DEF CoercionsAreSafe, Returned
  <1>8. MonthsMoveTheCalendar' /\ BitVectorsHoldTheirBits' /\ SchemasDescribeTuples' /\ SignaturesAgree'
         /\ CursorsVisitTheirTuples'
    BY <1>1 DEF MonthsMoveTheCalendar, BitVectorsHoldTheirBits, SchemasDescribeTuples, SignaturesAgree,
           CursorsVisitTheirTuples, Returned
  <1> QED
    BY <1>1, <1>7, <1>8 DEF ValueInv

LEMMA MovedByMonths == ASSUME ValueInv, MoveByMonths PROVE ValueInv'
  <1>1. call' = call /\ call.kind = "move" /\ call \in MoveCalls
    BY KindsOfCalls DEF ValueInv, MoveByMonths, Returns, Called
  <1>2. PICK ticks \in Datetimes, months \in Months :
          ticks = call.ticks /\ months = call.months /\ ticks \in Int /\ months \in Int
    BY <1>1, ArgumentsAssumption DEF MoveCalls
  <1> DEFINE time == EpochTime(ticks)
             sub == Subseconds(ticks)
  <1>3. /\ result'.value.plus = DatetimePlusMonths(ticks, months)
        /\ result'.value.minus = DatetimeMinusMonths(ticks, months)
        /\ result'.value.back = TimeGm(GmTime(time))
        /\ result'.value.spans = [other \in Datetimes |->
             LET span == DatetimeMinusDatetime(ticks, other)
             IN  <<DatetimePlusInterval(other, span), DatetimeMinusInterval(ticks, span),
                   IntervalArithmetic("-", IntervalArithmetic("+", span, months), months)>>]
    BY <1>2 DEF MoveByMonths, Returns
  <1>4. time \in Int /\ sub \in Int
    BY <1>2, Units DEF EpochTime, Subseconds, Quotient, Remainder
  <1>5. result'.value.back = time
    BY <1>3, <1>4, TimesAreCalendars
  <1>6. ASSUME NEW other \in Datetimes
        PROVE  result'.value.spans[other] = <<ticks, other, ticks - other>>
    <2>1. other \in Int
      BY ArgumentsAssumption
    <2> QED
      BY <1>2, <1>3, <2>1 DEF DatetimeMinusDatetime, DatetimePlusInterval, DatetimeMinusInterval, IntervalArithmetic
  <1> HIDE DEF time, sub
  <1>7. ASSUME NEW value, NEW n \in Int, NEW to \in CalendarTimes,
               value = TimeGm(to) * TicksPerSecond + sub, IsMonthsAfter(to, GmTime(time), n)
        PROVE  LET whole == value - sub
               IN  /\ whole % TicksPerSecond = 0
                   /\ IsMonthsAfter(GmTime(whole \div TicksPerSecond), GmTime(time), n)
    <2>1. PICK t \in Int : t = TimeGm(to) /\ GmTime(t) = to
      BY TimesAreCalendars
    <2>2. PICK unit \in Nat \ {0} : unit = TicksPerSecond
      BY Units
    <2>3. (t * unit + 0) \div unit = t /\ (t * unit + 0) % unit = 0
      <3>1. 0 \in 0..(unit - 1)
        OBVIOUS
      <3> QED
        BY <3>1, DivMod
    <2>4. value - sub = t * unit + 0
      <3>1. t * unit \in Int
        OBVIOUS
      <3> QED
        BY <1>4, <1>7, <2>1, <2>2, <3>1
    <2> QED
      BY <1>7, <2>1, <2>2, <2>3, <2>4
  <1>8. ASSUME months >= 0
        PROVE  /\ LET whole == result'.value.plus - sub
                  IN  /\ whole % TicksPerSecond = 0
                      /\ IsMonthsAfter(GmTime(whole \div TicksPerSecond), GmTime(time), months)
               /\ LET whole == result'.value.minus - sub
                  IN  /\ whole % TicksPerSecond = 0
                      /\ IsMonthsAfter(GmTime(whole \div TicksPerSecond), GmTime(time), -months)
    <2>1. months \in Nat /\ -months \in Int
      BY <1>2, <1>8
    <2>2. PICK to \in CalendarTimes : /\ result'.value.plus = TimeGm(to) * TicksPerSecond + sub
                                      /\ IsMonthsAfter(to, GmTime(time), months)
      BY <1>2, <1>3, <2>1, Moves DEF time, sub
    <2>3. PICK from \in CalendarTimes : /\ result'.value.minus = TimeGm(from) * TicksPerSecond + sub
                                        /\ IsMonthsAfter(from, GmTime(time), -months)
      BY <1>2, <1>3, <2>1, Moves DEF time, sub
    <2> QED
      BY <1>2, <1>7, <2>1, <2>2, <2>3
  <1>9. MonthsMoveTheCalendar'
    BY <1>1, <1>2, <1>5, <1>6, <1>8 DEF MonthsMoveTheCalendar, time, sub
  <1>10. CoercionsAreSafe' /\ BitVectorsHoldTheirBits' /\ SchemasDescribeTuples' /\ SignaturesAgree'
         /\ CursorsVisitTheirTuples'
    BY <1>1 DEF CoercionsAreSafe, BitVectorsHoldTheirBits, SchemasDescribeTuples, SignaturesAgree,
           CursorsVisitTheirTuples, Returned
  <1> QED
    BY <1>1, <1>9, <1>10 DEF ValueInv

LEMMA BitsAsked == ASSUME ValueInv, AskBits PROVE ValueInv'
  <1>1. call' = call /\ call.kind = "bits" /\ call \in BitsCalls
    BY KindsOfCalls DEF ValueInv, AskBits, Returns, Called
  <1>2. PICK v \in Vectors : v = call.vector /\ (v.short => v.width <= ShortBits[3])
    BY <1>1 DEF BitsCalls
  <1>3. PICK n \in Nat : n = v.bits
    BY VectorFacts
  <1> DEFINE ones == Places(v)
             zeros == (0..(n - 1)) \ ones
             Starts == IF n = 0 THEN {0} ELSE 0..(n - 1)
  <1>4. PICK r : r = result'.value
    OBVIOUS
  <1>5. /\ r.any = AnyBit(v) /\ r.all = AllBits(v) /\ r.count = OnesCount(v) /\ r.flipped = FlipBits(v)
        /\ r.ends = IF v.short THEN <<>> ELSE <<SequenceFront(v), SequenceBack(v)>>
    BY <1>2, <1>4 DEF AskBits, Returns
  <1>6. /\ r.firstOne = [p \in Starts |-> FirstOne(v, p)] /\ r.firstZero = [p \in Starts |-> FirstZero(v, p)]
        /\ r.lastOne = [p \in 0..n |-> LastOne(v, p)] /\ r.lastZero = [p \in 0..n |-> LastZero(v, p)]
    BY <1>2, <1>3, <1>4 DEF AskBits, Returns
  <1>7. /\ r.get = [p \in 0..(n - 1) |-> GetBit(v, p)]
        /\ r.words = [i \in DOMAIN v.data |-> SetBitWord(v, i, 0..(v.width - 1))]
        /\ r.put = [p \in 0..(n - 1) |-> [on \in BOOLEAN |-> SetBit(v, p, on)]]
    BY <1>2, <1>3, <1>4 DEF AskBits, Returns
  <1>8. (r.any <=> ones # {}) /\ r.count = Cardinality(ones) /\ Places(r.flipped) = zeros
    BY <1>3, <1>5, AnyBitFacts, OnesCountFacts, FlipBitsFacts
  <1>9. (r.all => zeros = {}) /\ (zeros = {} /\ ~SpoiltByPadding(v) => r.all)
    <2>1. AllBits(v) <=> zeros = {} /\ (~v.short \/ v.width = ShortBits[3] \/ n \in {0, v.width})
      BY <1>2, <1>3, AllBitsFacts
    <2>2. ~SpoiltByPadding(v) => ~v.short \/ v.width = ShortBits[3] \/ n \in {0, v.width}
      BY <1>2, <1>3, VectorFacts, WordsAssumption DEF SpoiltByPadding
    <2> HIDE DEF zeros
    <2> QED
      BY <1>5, <2>1, <2>2
  <1>10. /\ \A p \in Starts : /\ FirstOne(v, p)  = FirstIn({i \in ones : i >= p}, n)
                              /\ FirstZero(v, p) = FirstIn({i \in zeros : i >= p}, n)
         /\ \A p \in 0..n : /\ LastOne(v, p)  = LastIn({i \in ones : i < p}, n)
                            /\ LastZero(v, p) = LastIn({i \in zeros : i < p}, n)
    BY <1>3, SearchFacts
  <1>11. r.ends # <<>> => r.ends = <<FirstIn(ones, n), LastIn(ones, n)>>
    <2>1. 0 \in Starts /\ n \in 0..n
      OBVIOUS
    <2>2. ones \subseteq 0..(n - 1)
      BY <1>3, VectorFacts
    <2>3. {i \in ones : i >= 0} = ones /\ {i \in ones : i < n} = ones
      BY <2>2
    <2>4. SequenceFront(v) = FirstIn(ones, n) /\ SequenceBack(v) = LastIn(ones, n)
      BY <1>3, <1>10, <2>1, <2>3 DEF SequenceFront, SequenceBack
    <2> QED
      BY <1>5, <2>4
  <1>12. \A i \in DOMAIN r.words : Places(r.words[i]) = ones \cup {p \in 0..(n - 1) : p \div v.width = i}
    BY <1>3, <1>7, SetBitWordFacts
  <1>13. ASSUME NEW p \in 0..(n - 1)
         PROVE  (r.get[p] <=> p \in ones) /\ Places(r.put[p][TRUE]) = ones \cup {p} /\ Places(r.put[p][FALSE]) = ones \ {p}
    <2>1. GetBit(v, p) <=> p \in ones
      BY <1>3, GetBitFacts
    <2>2. Places(SetBit(v, p, TRUE)) = ones \cup {p} /\ Places(SetBit(v, p, FALSE)) = ones \ {p}
      BY <1>3, SetBitFacts
    <2>3. r.get[p] = GetBit(v, p) /\ r.put[p][TRUE] = SetBit(v, p, TRUE) /\ r.put[p][FALSE] = SetBit(v, p, FALSE)
      BY <1>7
    <2> QED
      BY <2>1, <2>2, <2>3
  <1> HIDE DEF ones, zeros, Starts
  <1>14. /\ \A p \in DOMAIN r.firstOne : /\ r.firstOne[p]  = FirstIn({i \in ones : i >= p}, n)
                                         /\ r.firstZero[p] = FirstIn({i \in zeros : i >= p}, n)
         /\ \A p \in DOMAIN r.lastOne : /\ r.lastOne[p]  = LastIn({i \in ones : i < p}, n)
                                        /\ r.lastZero[p] = LastIn({i \in zeros : i < p}, n)
    BY <1>6, <1>10
  <1>15. \A p \in DOMAIN r.get : /\ r.get[p] <=> p \in ones
                                 /\ Places(r.put[p][TRUE]) = ones \cup {p}
                                 /\ Places(r.put[p][FALSE]) = ones \ {p}
    BY <1>7, <1>13
  <1>16. AnswersAreRight(v, r)
    BY <1>3, <1>8, <1>9, <1>11, <1>12, <1>14, <1>15, Zenon DEF AnswersAreRight, ones, zeros
  <1>17. BitVectorsHoldTheirBits'
    BY <1>1, <1>2, <1>4, <1>16 DEF BitVectorsHoldTheirBits, Returned
  <1>18. CoercionsAreSafe' /\ MonthsMoveTheCalendar' /\ SchemasDescribeTuples' /\ SignaturesAgree'
         /\ CursorsVisitTheirTuples'
    BY <1>1 DEF CoercionsAreSafe, MonthsMoveTheCalendar, SchemasDescribeTuples, SignaturesAgree,
           CursorsVisitTheirTuples, Returned
  <1> QED
    BY <1>1, <1>17, <1>18 DEF ValueInv

LEMMA BitsChanged == ASSUME ValueInv, ChangeBits PROVE ValueInv'
  <1>1. call' = call /\ call.kind = "change" /\ call \in ChangeCalls
    BY KindsOfCalls DEF ValueInv, ChangeBits, Returns, Called
  <1>2. PICK v \in Vectors, op \in {"set", "unset", "forward", "backward"}, start \in Nat, count \in Nat :
          /\ v = call.vector /\ op = call.op /\ start = call.start /\ count = call.count
          /\ start < v.bits /\ (op \in {"set", "unset"} => start + count <= v.bits)
    BY <1>1 DEF ChangeCalls
  <1>3. PICK n \in Nat, w \in Nat \ {0} : n = v.bits /\ w = v.width /\ v.short \in BOOLEAN /\ start \in 0..(v.bits - 1)
    BY <1>2, VectorFacts
  <1>4. PICK r : r = result'.value
    OBVIOUS
  <1>5. /\ r.vector = CASE op = "forward"  -> ShiftTailForward(v, start, count)
                        [] op = "backward" -> ShiftTailBackward(v, start, count)
                        [] OTHER -> SetRange(v, start, count, op = "set")
        /\ r.leaves <=> op \in {"set", "unset"} /\ count > 0 /\ RangeLeavesArray(v, start, count)
    BY <1>2, <1>4 DEF ChangeBits, Returns
  <1>6. Places(v) \subseteq 0..(n - 1) /\ 0..(n - 1) \subseteq Nat
    BY <1>3, VectorFacts
  <1> DEFINE seen == IF v.short /\ op = "backward" THEN 0..(v.bits - 1) ELSE Nat
  <1>7. ASSUME op = "forward", ~Misshifted(v, op, start, count)
        PROVE  Places(r.vector) \cap seen = Changed(op, Places(v), start, count, v.bits)
    <2>1. Places(r.vector) = Changed(op, Places(v), start, count, v.bits)
      <3>1. CASE v.short
        <4>1. start + count < ShortBits[3]
          <5>1. ShortBits[3] \in Nat
            BY WordsAssumption
          <5> QED
            BY <1>7, <3>1, <5>1 DEF Misshifted
        <4>2. r.vector = ShiftTailForwardShort(v, start, count)
          BY <1>5, <1>7, <3>1 DEF ShiftTailForward
        <4> QED
          BY <1>3, <1>7, <3>1, <4>1, <4>2, ShortForwardFacts
      <3>2. CASE ~v.short
        <4>1. r.vector = ShiftTailForwardRegular(v, start, count)
          BY <1>5, <1>7, <3>2 DEF ShiftTailForward
        <4> QED
          BY <1>3, <1>7, <4>1, ShiftForwardFacts
      <3> QED
        BY <3>1, <3>2
    <2>2. Changed(op, Places(v), start, count, v.bits) \subseteq Nat
      <3>1. PICK P \in SUBSET (0..(n - 1)) : P = Places(v)
        BY <1>6
      <3>2. Changed("forward", P, start, count, n) \in SUBSET (0..(n - 1))
        BY <1>3, ForwardPlaces
      <3> QED
        BY <1>3, <1>7, <3>1, <3>2
    <2>3. seen = Nat
      BY <1>7
    <2> QED
      BY <2>1, <2>2, <2>3
  <1>8. ASSUME op = "backward", ~Misshifted(v, op, start, count)
        PROVE  Places(r.vector) \cap seen = Changed(op, Places(v), start, count, v.bits)
    <2>1. CASE v.short
      <3>1. count < ShortBits[3]
        <4>1. ShortBits[3] \in Nat
          BY WordsAssumption
        <4> QED
          BY <1>8, <2>1, <4>1 DEF Misshifted
      <3>2. r.vector = ShiftTailBackwardShort(v, start, count)
        BY <1>5, <1>8, <2>1 DEF ShiftTailBackward
      <3> QED
        BY <1>3, <1>8, <2>1, <3>1, <3>2, ShortBackwardFacts
    <2>2. CASE ~v.short
      <3>1. r.vector = ShiftTailBackwardRegular(v, start, count)
        BY <1>5, <1>8, <2>2 DEF ShiftTailBackward
      <3>2. Staying(v, start, count) = {}
        BY <1>8, <2>2 DEF Misshifted, Staying
      <3>3. Places(r.vector) = Changed("backward", Places(v), start, count, v.bits)
        <4>1. PICK S : S = Changed("backward", Places(v), start, count, v.bits)
          OBVIOUS
        <4>2. Places(r.vector) = S \cup Staying(v, start, count)
          BY <1>3, <3>1, <4>1, ShiftBackwardFacts
        <4> QED
          BY <3>2, <4>1, <4>2
      <3>4. Changed("backward", Places(v), start, count, n) \subseteq Nat
        <4>1. PICK P \in SUBSET (0..(n - 1)) : P = Places(v)
          BY <1>6
        <4>2. start \in 0..(n - 1)
          BY <1>3
        <4>3. Pushed(P, start, count) \in SUBSET Nat /\ Changed("backward", P, start, count, n) = Before(Pushed(P, start, count), n)
          BY <4>2, BackwardPlaces
        <4> QED
          BY <4>1, <4>3 DEF Before
      <3> QED
        BY <1>3, <1>8, <2>2, <3>3, <3>4
    <2> QED
      BY <2>1, <2>2
  <1>9. ASSUME op \in {"set", "unset"}
        PROVE  Places(r.vector) \cap seen = Changed(op, Places(v), start, count, v.bits)
    <2>1. r.vector = SetRange(v, start, count, op = "set")
      BY <1>5, <1>9
    <2>2. PICK on \in BOOLEAN : on = (op = "set")
      OBVIOUS
    <2>3. Changed(op, Places(v), start, count, v.bits) =
            IF on THEN Places(v) \cup start..(start + count - 1) ELSE Places(v) \ (start..(start + count - 1))
      BY <1>9, <2>2 DEF Changed
    <2>4. Places(r.vector) = Changed(op, Places(v), start, count, v.bits)
      <3>1. CASE count > 0
        <4>1. r.vector = SetBitRange(v, start, count, on)
          BY <2>1, <2>2, <3>1 DEF SetRange
        <4>2. start + count <= v.bits
          BY <1>2, <1>9
        <4>3. Places(SetBitRange(v, start, count, on)) =
                IF on THEN Places(v) \cup start..(start + count - 1) ELSE Places(v) \ (start..(start + count - 1))
          BY <3>1, <4>2, SetRangeFacts
        <4> QED
          BY <2>3, <4>1, <4>3
      <3>2. CASE count = 0
        <4>1. r.vector = v /\ start..(start + count - 1) = {}
          BY <2>1, <3>2 DEF SetRange
        <4> QED
          BY <2>3, <4>1
      <3> QED
        BY <3>1, <3>2
    <2>5. start..(start + count - 1) \subseteq Nat
      OBVIOUS
    <2>6. Places(r.vector) \subseteq Nat
      <3>1. PICK R \in SUBSET Nat : R = start..(start + count - 1)
        BY <2>5
      <3> QED
        BY <1>6, <2>3, <2>4, <3>1
    <2>7. seen = Nat
      BY <1>9
    <2> QED
      BY <2>4, <2>6, <2>7
  <1>10. r.leaves => v.bits % v.width = 0 /\ start + count = v.bits
    <2>1. ASSUME r.leaves PROVE v.bits % v.width = 0 /\ start + count = v.bits
      <3>1. start + count <= v.bits /\ count > 0 /\ RangeLeavesArray(v, start, count)
        BY <1>2, <1>5, <2>1
      <3> QED
        BY <3>1, SetRangeFacts
    <2> QED
      BY <2>1
  <1>11. ChangeIsRight(v, op, start, count, r)
    <2>1. Misshifted(v, op, start, count) \/ Places(r.vector) \cap seen = Changed(op, Places(v), start, count, v.bits)
      BY <1>7, <1>8, <1>9
    <2> QED
      BY <1>10, <2>1 DEF ChangeIsRight
  <1>12. BitVectorsHoldTheirBits'
    BY <1>1, <1>2, <1>4, <1>11 DEF BitVectorsHoldTheirBits, Returned
  <1>13. CoercionsAreSafe' /\ MonthsMoveTheCalendar' /\ SchemasDescribeTuples' /\ SignaturesAgree'
         /\ CursorsVisitTheirTuples'
    BY <1>1 DEF CoercionsAreSafe, MonthsMoveTheCalendar, SchemasDescribeTuples, SignaturesAgree,
           CursorsVisitTheirTuples, Returned
  <1> QED
    BY <1>1, <1>12, <1>13 DEF ValueInv

LEMMA BitsCombined == ASSUME ValueInv, CombineBits PROVE ValueInv'
  <1>1. call' = call /\ call.kind = "two" /\ call \in TwoCalls
    BY KindsOfCalls DEF ValueInv, CombineBits, Returns, Called
  <1>2. PICK v \in Vectors, w \in Vectors : /\ v = call.vector /\ w = call.other
                                            /\ v.width = w.width /\ (~v.short => v.width = SizeTBits)
    BY <1>1 DEF TwoCalls
  <1>3. PICK r : r = result'.value
    OBVIOUS
  <1>4. /\ r.both = IF v.bits = w.bits THEN <<IntersectWith(v, w), UnionWith(v, w), AssignFrom(v, w)>> ELSE <<>>
        /\ r.unset = IF v.short THEN <<>> ELSE <<IntersectWithComplement(v, w)>>
        /\ r.longer = IF v.short \/ w.bits < v.bits THEN <<>> ELSE <<FirstOfLonger(v.bits, w)>>
    BY <1>2, <1>3 DEF CombineBits, Returns
  <1>5. PICK ones, others : ones = Places(v) /\ others = Places(w)
    OBVIOUS
  <1>6. \A i \in DOMAIN r.both : Places(r.both[i]) = <<ones \cap others, ones \cup others, others>>[i]
    <2>1. CASE v.bits = w.bits
      <3>1. PICK x, y, z : /\ x = IntersectWith(v, w) /\ y = UnionWith(v, w) /\ z = AssignFrom(v, w)
                           /\ Places(x) = ones \cap others /\ Places(y) = ones \cup others /\ Places(z) = others
        BY <1>2, <1>5, <2>1, CombineFacts
      <3>2. r.both = <<x, y, z>>
        BY <1>4, <2>1, <3>1
      <3>3. DOMAIN r.both = {1, 2, 3} /\ r.both[1] = x /\ r.both[2] = y /\ r.both[3] = z
        BY <3>2
      <3>4. PICK a, b : a = ones \cap others /\ b = ones \cup others
        OBVIOUS
      <3>5. Places(x) = <<a, b, others>>[1] /\ Places(y) = <<a, b, others>>[2] /\ Places(z) = <<a, b, others>>[3]
        BY <3>1, <3>4
      <3>6. \A i \in {1, 2, 3} : Places(r.both[i]) = <<a, b, others>>[i]
        BY <3>3, <3>5
      <3> QED
        BY <3>3, <3>4, <3>6
    <2>2. CASE v.bits # w.bits
      BY <1>4, <2>2
    <2> QED
      BY <2>1, <2>2
  <1>7. \A i \in DOMAIN r.unset : Places(r.unset[i]) = ones \ others
    <2>1. Places(UnsetFrom(v, w)) = ones \ others
      BY <1>2, <1>5, CombineFacts
    <2> QED
      BY <1>4, <2>1 DEF IntersectWithComplement
  <1>8. \A i \in DOMAIN r.longer : Places(r.longer[i]) = {p \in others : p < v.bits}
    <2>1. CASE v.short \/ w.bits < v.bits
      BY <1>4, <2>1
    <2>2. CASE ~(v.short \/ w.bits < v.bits)
      <3>1. PICK n \in Nat : n = v.bits /\ n <= w.bits
        BY <2>2, VectorFacts
      <3>2. PICK t \in Vectors : t = TupleIds(n, {}) /\ t.bits = n /\ t.width = SizeTBits
        <4>1. {} \in SUBSET (0..(n - 1)) /\ FALSE \in BOOLEAN
          OBVIOUS
        <4>2. BitVector(FALSE, n, {}) \in Vectors /\ BitVector(FALSE, n, {}).bits = n /\ BitVector(FALSE, n, {}).width = WidthFor(FALSE, n)
          BY <4>1, BitVectorFacts
        <4> QED
          BY <4>2 DEF TupleIds, WidthFor, IsShort
      <3>3. Places(FirstOfLonger(n, w)) = Before(others, n)
        BY <1>2, <1>5, <2>2, <3>1, <3>2, LongerFacts DEF FirstOfLonger
      <3>4. r.longer = <<FirstOfLonger(n, w)>>
        BY <1>4, <2>2, <3>1
      <3> QED
        BY <3>1, <3>3, <3>4 DEF Before
    <2> QED
      BY <2>1, <2>2
  <1>9. CombinationIsRight(v, w, r)
    BY <1>5, <1>6, <1>7, <1>8 DEF CombinationIsRight
  <1>10. BitVectorsHoldTheirBits'
    BY <1>1, <1>2, <1>3, <1>9 DEF BitVectorsHoldTheirBits, Returned
  <1>11. CoercionsAreSafe' /\ MonthsMoveTheCalendar' /\ SchemasDescribeTuples' /\ SignaturesAgree'
         /\ CursorsVisitTheirTuples'
    BY <1>1 DEF CoercionsAreSafe, MonthsMoveTheCalendar, SchemasDescribeTuples, SignaturesAgree,
           CursorsVisitTheirTuples, Returned
  <1> QED
    BY <1>1, <1>10, <1>11 DEF ValueInv

LEMMA PointersChanged == ASSUME ValueInv, ChangePointers PROVE ValueInv'
  <1>1. call' = call /\ call.kind = "pointers" /\ call \in PointersCalls
    BY KindsOfCalls DEF ValueInv, ChangePointers, Returns, Called
  <1>2. PICK nulls \in BOOLEAN, changes \in SeqsUpTo(Change, MostChanges) :
          nulls = call.nulls /\ changes = call.changes /\ Allowed(changes, nulls)
    BY <1>1 DEF PointersCalls
  <1>3. PICK m \in Nat : changes \in [1..m -> Change] /\ Len(changes) = m /\ DOMAIN changes = 1..m
    BY <1>2, SeqsFacts, StructuresAssumption
  <1>4. PICK r : r = result'.value
    OBVIOUS
  <1>5. PICK v : v = VectorsOf(changes)[m]
    OBVIOUS
  <1>6. /\ r.vector = v /\ r.destroyed = DestroyPtrVector(v).deleted /\ r.empty = EmptyNullCheck(v)
        /\ r.released = {VectorsOf(changes)[i - 1].elements[changes[i].at + 1] : i \in Releases(changes)} \ {None}
        /\ r.stops = StopsOf(v)
        /\ r.ends = IF EmptyNullCheck(v) THEN <<>> ELSE <<FrontElement(v), BackElement(v)>>
    BY <1>2, <1>3, <1>4, <1>5 DEF ChangePointers, Returns
  <1>7. r.released = Gone(changes, m)
    BY <1>3, <1>6 DEF Gone, Releases
  <1>8. PointersAreRight(changes, r)
    BY <1>2, <1>3, <1>5, <1>6, <1>7, PointersFacts
  <1>9. SchemasDescribeTuples'
    BY <1>1, <1>2, <1>4, <1>8 DEF SchemasDescribeTuples, Returned
  <1>10. CoercionsAreSafe' /\ MonthsMoveTheCalendar' /\ BitVectorsHoldTheirBits' /\ SignaturesAgree'
         /\ CursorsVisitTheirTuples'
    BY <1>1 DEF CoercionsAreSafe, MonthsMoveTheCalendar, BitVectorsHoldTheirBits, SignaturesAgree,
           CursorsVisitTheirTuples, Returned
  <1> QED
    BY <1>1, <1>9, <1>10 DEF ValueInv

LEMMA SchemaBuilt == ASSUME ValueInv, BuildSchema PROVE ValueInv'
  <1>1. call' = call /\ call.kind = "schema" /\ call \in SchemaCalls
    BY KindsOfCalls DEF ValueInv, BuildSchema, Returns, Called
  <1>2. PICK types \in SeqsUpTo(RelationTypes, Len(AttributeNames)), temporary \in BOOLEAN, displayed \in BOOLEAN :
          types = call.types /\ temporary = call.temporary /\ displayed = call.displayed
    BY <1>1 DEF SchemaCalls
  <1>3. PICK m \in Nat : m <= Len(AttributeNames) /\ types \in [1..m -> RelationTypes] /\ Len(types) = m
    BY <1>2, SeqsFacts, StructuresAssumption
  <1>4. PICK r : r = result'.value
    OBVIOUS
  <1>5. /\ r.schema = SchemasOf(types, temporary, displayed)[m]
        /\ r.valid = SchemaProtoIsValid(GetSchemaProto(r.schema))
        /\ r.back = ReconstructSchema(GetSchemaProto(r.schema))
    BY <1>2, <1>3, <1>4 DEF BuildSchema, Returns
  <1>6. SchemaIsRight(types, displayed, r)
    BY <1>3, <1>5, SchemaFacts
  <1>7. SchemasDescribeTuples'
    BY <1>1, <1>2, <1>4, <1>6 DEF SchemasDescribeTuples, Returned
  <1>8. CoercionsAreSafe' /\ MonthsMoveTheCalendar' /\ BitVectorsHoldTheirBits' /\ SignaturesAgree'
         /\ CursorsVisitTheirTuples'
    BY <1>1 DEF CoercionsAreSafe, MonthsMoveTheCalendar, BitVectorsHoldTheirBits, SignaturesAgree,
           CursorsVisitTheirTuples, Returned
  <1> QED
    BY <1>1, <1>7, <1>8 DEF ValueInv

LEMMA CatalogBuilt == ASSUME ValueInv, BuildCatalog PROVE ValueInv'
  <1>1. call' = call /\ call.kind = "catalog" /\ call \in CatalogCalls
    BY KindsOfCalls DEF ValueInv, BuildCatalog, Returns, Called
  <1>2. PICK names \in SeqsUpTo(DatabaseNames, MostNames) : names = call.names
    BY <1>1 DEF CatalogCalls
  <1>3. PICK size \in Nat : Len(names) = size /\ DOMAIN names = 1..size
    BY <1>2, SeqsFacts, StructuresAssumption
  <1>4. PICK r : r = result'.value
    OBVIOUS
  <1>5. r.catalog = CatalogsOf(names)[size] /\ r.back = ReconstructCatalog(GetCatalogProto(r.catalog))
    BY <1>2, <1>3, <1>4 DEF BuildCatalog, Returns
  <1>6. CatalogIsRight(names, r)
    BY <1>3, <1>5, CatalogFacts
  <1>7. SchemasDescribeTuples'
    BY <1>1, <1>2, <1>4, <1>6 DEF SchemasDescribeTuples, Returned
  <1>8. CoercionsAreSafe' /\ MonthsMoveTheCalendar' /\ BitVectorsHoldTheirBits' /\ SignaturesAgree'
         /\ CursorsVisitTheirTuples'
    BY <1>1 DEF CoercionsAreSafe, MonthsMoveTheCalendar, BitVectorsHoldTheirBits, SignaturesAgree,
           CursorsVisitTheirTuples, Returned
  <1> QED
    BY <1>1, <1>7, <1>8 DEF ValueInv

LEMMA ColumnFilledCall == ASSUME ValueInv, FillColumn PROVE ValueInv'
  <1>1. call' = call /\ call.kind = "column" /\ call \in ColumnCalls
    BY KindsOfCalls DEF ValueInv, FillColumn, Returns, Called
  <1>2. result'.value = FilledColumn(call.type, call.values, call.way, call.order)
    BY DEF FillColumn, Returns
  <1>3. ColumnIsRight(call.values, result'.value)
    BY <1>1, <1>2, ColumnsRight
  <1>4. CursorsVisitTheirTuples'
    BY <1>1, <1>3 DEF CursorsVisitTheirTuples, Returned
  <1>5. CoercionsAreSafe' /\ MonthsMoveTheCalendar' /\ BitVectorsHoldTheirBits' /\ SchemasDescribeTuples'
         /\ SignaturesAgree'
    BY <1>1 DEF CoercionsAreSafe, MonthsMoveTheCalendar, BitVectorsHoldTheirBits, SchemasDescribeTuples,
           SignaturesAgree, Returned
  <1> QED
    BY <1>1, <1>4, <1>5 DEF ValueInv

LEMMA CursorMoved == ASSUME ValueInv, MoveCursor PROVE ValueInv'
  <1>1. call.kind = "cursor"
    BY DEF MoveCursor, Called
  <1>2. call \in CursorCalls
    BY <1>1, KindsOfCalls DEF ValueInv
  <1>3. PICK start : /\ start = CursorOver(call.impl, call.tuples, call.over, call.ids)
                     /\ \E a \in {CursorsOf(start, call.moves)[Len(call.moves)]} :
                          LET stands == HasTuple(a) /\ a.position # -1
                          IN  Returns("cursor",
                                [has |-> HasTuple(a), finished |-> IterationFinished(a),
                                 end |-> GetEndPosition(a), number |-> GetNumTuples(a),
                                 position |-> IF stands THEN GetCurrentPosition(a) ELSE -1,
                                 tuple |-> IF stands THEN CurrentTuple(a) ELSE <<>>,
                                 pointer |-> IF stands THEN CurrentPointer(a, 0) ELSE NullPointer,
                                 turned |-> IF stands THEN TupleWithAttributes(a, <<SecondIn(call.impl), 0>>) ELSE <<>>,
                                 byId |-> [id \in IF OffersAbsolutePositions(a) THEN 0..(call.tuples - 1) ELSE {} |->
                                             ValueAtAbsolutePosition(a, 0, id)],
                                 invoked |-> Invoked(a), maybe |-> InvokedMaybeTupleIdSequenceAdapter(a)])
    BY Zenon DEF MoveCursor
  <1>4. PICK a : /\ a = CursorsOf(start, call.moves)[Len(call.moves)]
                 /\ LET stands == HasTuple(a) /\ a.position # -1
                    IN  Returns("cursor",
                          [has |-> HasTuple(a), finished |-> IterationFinished(a),
                           end |-> GetEndPosition(a), number |-> GetNumTuples(a),
                           position |-> IF stands THEN GetCurrentPosition(a) ELSE -1,
                           tuple |-> IF stands THEN CurrentTuple(a) ELSE <<>>,
                           pointer |-> IF stands THEN CurrentPointer(a, 0) ELSE NullPointer,
                           turned |-> IF stands THEN TupleWithAttributes(a, <<SecondIn(call.impl), 0>>) ELSE <<>>,
                           byId |-> [id \in IF OffersAbsolutePositions(a) THEN 0..(call.tuples - 1) ELSE {} |->
                                       ValueAtAbsolutePosition(a, 0, id)],
                           invoked |-> Invoked(a), maybe |-> InvokedMaybeTupleIdSequenceAdapter(a)])
    BY <1>3, Zenon
  <1>5. PICK stands : stands = (HasTuple(a) /\ a.position # -1)
    OBVIOUS
  <1>6. PICK r : r = result'.value
    OBVIOUS
  <1>7. /\ call' = call
        /\ r.has = HasTuple(a) /\ r.finished = IterationFinished(a) /\ r.end = GetEndPosition(a)
        /\ r.number = GetNumTuples(a) /\ r.position = (IF stands THEN GetCurrentPosition(a) ELSE -1)
        /\ r.tuple = (IF stands THEN CurrentTuple(a) ELSE <<>>)
        /\ r.pointer = (IF stands THEN CurrentPointer(a, 0) ELSE NullPointer)
        /\ r.turned = (IF stands THEN TupleWithAttributes(a, <<SecondIn(call.impl), 0>>) ELSE <<>>)
        /\ r.byId = [id \in IF OffersAbsolutePositions(a) THEN 0..(call.tuples - 1) ELSE {} |->
                       ValueAtAbsolutePosition(a, 0, id)]
        /\ r.invoked = Invoked(a) /\ r.maybe = InvokedMaybeTupleIdSequenceAdapter(a)
    BY <1>4, <1>5, <1>6 DEF Returns
  <1>8. CursorIsRight(call, r)
    <2>1. a = CursorsOf(CursorOver(call.impl, call.tuples, call.over, call.ids), call.moves)[Len(call.moves)]
      BY <1>3, <1>4
    <2> QED
      BY <1>2, <1>5, <1>7, <2>1, CursorsRight
  <1>9. CursorsVisitTheirTuples'
    BY <1>1, <1>6, <1>7, <1>8 DEF CursorsVisitTheirTuples, Returned
  <1>10. CoercionsAreSafe' /\ MonthsMoveTheCalendar' /\ BitVectorsHoldTheirBits' /\ SchemasDescribeTuples'
         /\ SignaturesAgree'
    BY <1>1, <1>7 DEF CoercionsAreSafe, MonthsMoveTheCalendar, BitVectorsHoldTheirBits, SchemasDescribeTuples,
           SignaturesAgree, Returned
  <1>11. call' \in Calls
    BY <1>7 DEF ValueInv
  <1> QED
    BY <1>9, <1>10, <1>11 DEF ValueInv

LEMMA ValueInvariant == ValueSpec => []ValueInv
  <1>1. ASSUME ValueInv, UNCHANGED callVars PROVE ValueInv'
    <2>1. call' = call /\ result' = result
      BY <1>1 DEF callVars
    <2>2. (call \in Calls)' /\ CoercionsAreSafe' /\ MonthsMoveTheCalendar'
      BY <1>1, <2>1 DEF ValueInv, CoercionsAreSafe, MonthsMoveTheCalendar, Returned
    <2>3. BitVectorsHoldTheirBits' /\ SchemasDescribeTuples'
      BY <1>1, <2>1 DEF ValueInv, BitVectorsHoldTheirBits, SchemasDescribeTuples, Returned
    <2>4. SignaturesAgree' /\ CursorsVisitTheirTuples'
      BY <1>1, <2>1 DEF ValueInv, SignaturesAgree, CursorsVisitTheirTuples, Returned
    <2> QED
      BY <2>2, <2>3, <2>4 DEF ValueInv
  <1>2. ValueInv /\ [ValueNext]_callVars => ValueInv'
    BY <1>1, TypesResolved, ValueCoerced, MovedByMonths, BitsAsked, BitsChanged, BitsCombined,
       PointersChanged, SchemaBuilt, CatalogBuilt, SignatureResolved, UnarySignatureResolved, FunctionResolved,
       ColumnFilledCall, CursorMoved
       DEF ValueNext
  <1> QED
    BY <1>2, ArgumentsMade, PTL DEF ValueSpec

\* Any two types are unified by the least type above both, whatever their order; a safe
\* coercion of any value keeps its number, or its text and that text's hash, and leads back to an
\* equal value, but for integers with more digits than the floating point type they go to
\* (TypeFactory::GetUnifyingType(), Type::coerceValue(), TypedValue::getHash()).
THEOREM CoercionsAreCorrect == ValueSpec => []CoercionsAreSafe
  <1>1. ValueInv => CoercionsAreSafe
    BY DEF ValueInv
  <1> QED
    BY <1>1, ValueInvariant, PTL

\* Any number of months moves any datetime as the calendar says, the conversions to
\* calendar fields and back lose nothing, and a span leads from one datetime to the other
\* (DateOperatorOverloads.hpp, timegm.cpp).
THEOREM MovesAreCorrect == ValueSpec => []MonthsMoveTheCalendar
  <1>1. ValueInv => MonthsMoveTheCalendar
    BY DEF ValueInv
  <1> QED
    BY <1>1, ValueInvariant, PTL

\* A bit vector of any number of bits, in words of any width, answers, changes and combines as
\* the set of its ones does, where the property claims it; DeviationsCorrect is about the rest
\* (BitVector.hpp).
THEOREM BitVectorsCorrect == ValueSpec => []BitVectorsHoldTheirBits
  <1>1. ValueInv => BitVectorsHoldTheirBits
    BY DEF ValueInv
  <1> QED
    BY <1>1, ValueInvariant, PTL

\* What a bit vector answers when it is asked deviates only in all() of a narrow vector.
LEMMA AskedDeviate == ASSUME ValueInv, AskBits PROVE BitVectorsDeviate'
  <1>1. call' = call /\ call.kind = "bits" /\ call \in BitsCalls
    BY KindsOfCalls DEF ValueInv, AskBits, Returns, Called
  <1>2. PICK v \in Vectors : v = call.vector /\ (v.short => v.width <= ShortBits[3])
    BY <1>1 DEF BitsCalls
  <1>3. result'.value.all = AllBits(v)
    BY <1>2 DEF AskBits, Returns
  <1>4. PICK w \in Nat, most \in Nat : w = v.width /\ most = ShortBits[3]
    BY VectorFacts, WordsAssumption
  <1>5. SpoiltByPadding(v) => v.short /\ w # most /\ v.bits \notin {0, w}
    BY <1>4 DEF SpoiltByPadding
  <1>6. AllBits(v) => ~v.short \/ w = most \/ v.bits \in {0, w}
    BY <1>2, <1>4, AllBitsFacts
  <1> QED
    BY <1>1, <1>2, <1>3, <1>5, <1>6 DEF BitVectorsDeviate, Returned

\* A tail that is shifted back leaves the bits of the word it starts with, or goes on to the end
\* of a narrow word.
LEMMA ChangedDeviate == ASSUME ValueInv, ChangeBits PROVE BitVectorsDeviate'
  <1>1. call' = call /\ call.kind = "change" /\ call \in ChangeCalls
    BY KindsOfCalls DEF ValueInv, ChangeBits, Returns, Called
  <1>2. PICK v \in Vectors, start \in Nat, count \in Nat :
          v = call.vector /\ start = call.start /\ count = call.count /\ start < v.bits
    BY <1>1 DEF ChangeCalls
  <1>3. start \in 0..(v.bits - 1)
    BY <1>2, VectorFacts
  <1>4. PICK left : left = result'.value.vector
    OBVIOUS
  <1>5. call.op = "backward" => left = ShiftTailBackward(v, start, count)
    BY <1>2, <1>4 DEF ChangeBits, Returns
  <1>6. ASSUME call.op = "backward", ~v.short
        PROVE  Places(left) = Changed("backward", Places(v), start, count, v.bits) \cup Staying(v, start, count)
    <2>1. left = ShiftTailBackwardRegular(v, start, count)
      BY <1>5, <1>6 DEF ShiftTailBackward
    <2> QED
      BY <1>3, <2>1, ShiftBackwardFacts
  <1>7. ASSUME call.op = "backward", v.short, count < ShortBits[3]
        PROVE  /\ Places(left) = Changed("backward", Places(v), start, count, v.width)
               /\ OnesCount(left) = Cardinality(Changed("backward", Places(v), start, count, v.width))
    <2>1. left = ShiftTailBackwardShort(v, start, count)
      BY <1>5, <1>7 DEF ShiftTailBackward
    <2> QED
      BY <1>3, <1>7, <2>1, ShortBackwardFacts
  <1> QED
    BY <1>1, <1>2, <1>4, <1>6, <1>7 DEF BitVectorsDeviate, Returned

\* For every length, content and width of words: where a bit vector does not do what BitVector.hpp
\* says of it, and what it does instead, for tails that are shifted back by any distance that is
\* defined, and for all() of a narrow vector (BitVector::shiftTailBackward(), all(), onesCount()).
THEOREM DeviationsCorrect == ValueSpec => []BitVectorsDeviate
  <1>1. ValueInit => BitVectorsDeviate
    BY DEF ValueInit, NotReturned, BitVectorsDeviate, Returned
  <1>2. ASSUME ValueInv, BitVectorsDeviate, [ValueNext]_callVars PROVE BitVectorsDeviate'
    <2>1. CASE UNCHANGED callVars
      BY <1>2, <2>1 DEF callVars, BitVectorsDeviate, Returned
    <2>2. ASSUME call' = call, call.kind \notin {"bits", "change"} PROVE BitVectorsDeviate'
      BY <2>2 DEF BitVectorsDeviate, Returned
    <2>3. CASE ResolveTypes \/ ResolveSignature \/ ResolveUnarySignature \/ ResolveFunction
      BY <2>2, <2>3 DEF ResolveTypes, ResolveSignature, ResolveUnarySignature, ResolveFunction, Returns, Called
    <2>4. CASE Coerce \/ MoveByMonths \/ CombineBits \/ FillColumn
      BY <2>2, <2>4 DEF Coerce, MoveByMonths, CombineBits, FillColumn, Returns, Called
    <2>5. CASE MoveCursor \/ ChangePointers \/ BuildSchema \/ BuildCatalog
      BY <2>2, <2>5 DEF MoveCursor, ChangePointers, BuildSchema, BuildCatalog, Returns, Called
    <2>6. CASE AskBits
      BY <1>2, <2>6, AskedDeviate
    <2>7. CASE ChangeBits
      BY <1>2, <2>7, ChangedDeviate
    <2> QED
      BY <1>2, <2>1, <2>3, <2>4, <2>5, <2>6, <2>7 DEF ValueNext
  <1> QED
    BY <1>1, <1>2, ValueInvariant, PTL DEF ValueSpec

\* Whatever a schema is given, it finds each attribute by id and by name, lays a tuple out without
\* holes or overlaps and is read back as it was saved (CatalogRelationSchema::addAttribute(),
\* the constructor from a proto); whatever names a catalog is given, each has one id, and none is
\* taken twice or beyond kCatalogMaxID (Catalog::addDatabase()); however a vector of pointers is
\* changed, each object is deleted once or was released, and the skipping iterator visits those
\* that are there (PtrVector).
THEOREM SchemasCorrect == ValueSpec => []SchemasDescribeTuples
  <1>1. ValueInv => SchemasDescribeTuples
    BY DEF ValueInv
  <1> QED
    BY <1>1, ValueInvariant, PTL

\* Of any types, known or not, an operation says before it is built what it does: it applies if and
\* only if it has a result type and an operator, a partial result type is that of every completion,
\* a signature is plausible if and only if some completion has it, a hint leads to the hinted type,
\* and the handle that AVG makes has its operators and returns the type the function promises
\* (BinaryOperation, UnaryOperation, WindowAggregateFunction, Comparison).
THEOREM SignaturesCorrect == ValueSpec => []SignaturesAgree
  <1>1. ValueInv => SignaturesAgree
    BY DEF ValueInv
  <1> QED
    BY <1>1, ValueInvariant, PTL

\* A column of any type and any number of values, filled in any of the ways and in any order,
\* holds each value where it was put (NativeColumnVector, IndirectColumnVector); and whatever
\* stores any number of tuples and whichever of them it is confined to, a cursor moved to and fro
\* in any way is at the tuple the moves lead to, reads its values, and tells when it has none and
\* when the next is the last (ValueAccessor, TupleIdSequenceAdapterValueAccessor,
\* OrderedTupleIdSequenceAdapterValueAccessor).
THEOREM CursorsCorrect == ValueSpec => []CursorsVisitTheirTuples
  <1>1. ValueInv => CursorsVisitTheirTuples
    BY DEF ValueInv
  <1> QED
    BY <1>1, ValueInvariant, PTL

=============================================================================
