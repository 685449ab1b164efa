------------------------ MODULE StreamingSelectProofs ------------------------
(***************************************************************************)
(* Proofs about StreamingSelectOperator and the two modules it extends,    *)
(* for all leaves, nodes, tuples, specs and batches, and without the       *)
(* bounds on operands and predicates playing a part.                       *)
(*                                                                         *)
(* TreeInv: the static result that a node keeps is that of its operands,   *)
(* and its operands say what it was built to say.  CallInv: what each      *)
(* running call of getAllMatches() has found so far.  ColumnsInv: which    *)
(* values of a CASE have been computed and which have been written.        *)
(***************************************************************************)
EXTENDS StreamingSelectOperator, FiniteSetTheorems, SequenceTheorems, WellFoundedInduction,
        NaturalsInduction, TLAPS

Elements(s) == { s[k] : k \in DOMAIN s }

Statics(n)  == Elements(n.static_operand_list_)
Dynamics(n) == Elements(n.dynamic_operand_list_)

\* A static operand decides the list.
Decided(n) == \E p \in Statics(n) : getStaticResult(p) = Decisive(n)

\* The cached result of a list is that of its operands.
CacheOK(n) ==
  /\ n.fresh_ => /\ n.kind = "disjunction"
                 /\ n.static_operand_list_ = <<>> /\ n.dynamic_operand_list_ = <<>>
  /\ ~n.fresh_ => /\ n.has_static_result_ <=> Decided(n) \/ n.dynamic_operand_list_ = <<>>
                  /\ n.has_static_result_ => ((n.static_result_ <=> Decisive(n)) <=> Decided(n))

\* A predicate with a static result says nothing else.
SaysStatic(p) ==
  hasStaticResult(p) => Meaning(p) = IF getStaticResult(p) THEN Tuples ELSE {}

\* What a node was built to say, from the operands it has.
SaysOperands(l) ==
  LET n == node[l]
      operands == Statics(n) \cup Dynamics(n)
  IN meaning[l] =
       CASE n.kind = "conjunction" -> { t \in Tuples : \A p \in operands : t \in Meaning(p) }
         [] n.kind = "disjunction" -> { t \in Tuples : \E p \in operands : t \in Meaning(p) }
         [] n.kind = "negation"    -> { t \in Tuples : \A p \in operands : t \notin Meaning(p) }

NodeOK(l) ==
  LET n == node[l] IN
  /\ \A p \in Statics(n) \cup Dynamics(n) : IsComplete(p)
  /\ \A p \in Statics(n) : hasStaticResult(p)
  /\ n.kind # "negation" => CacheOK(n)
  /\ n.kind = "negation" => n.static_operand_list_ = <<>> /\ Len(n.dynamic_operand_list_) = 1
  /\ SaysOperands(l)
  /\ IsComplete(l) => SaysStatic(l)

TreeInv ==
  /\ node \in [Nodes -> NodeRecords \cup {NULL}]
  /\ meaning \in [Nodes -> SUBSET Tuples]
  /\ \A l \in Nodes : node[l] # NULL => node[l] \in NodeRecords /\ NodeOK(l)

-----------------------------------------------------------------------------
LEMMA ElementsType ==
  ASSUME NEW S, NEW s \in Seq(S)
  PROVE  /\ Elements(s) \subseteq S
         /\ Elements(s) = {} <=> s = <<>>
         /\ DOMAIN s = 1 .. Len(s) /\ Len(s) \in Nat
  BY DEF Elements

LEMMA ElementsOfConcat ==
  ASSUME NEW S, NEW s \in Seq(S), NEW t \in Seq(S)
  PROVE  /\ s \o t \in Seq(S)
         /\ Elements(s \o t) = Elements(s) \cup Elements(t)
         /\ s \o t = <<>> <=> s = <<>> /\ t = <<>>
         /\ t = <<>> => s \o t = s
  <1>1. s \o t \in Seq(S) /\ Len(s \o t) = Len(s) + Len(t)
    OBVIOUS
  <1>2. \A k \in 1 .. Len(s) : (s \o t)[k] = s[k]
    OBVIOUS
  <1>3. \A k \in 1 .. Len(t) : (s \o t)[Len(s) + k] = t[k] /\ Len(s) + k \in DOMAIN (s \o t)
    BY <1>1
  <1>4. Elements(s \o t) \subseteq Elements(s) \cup Elements(t)
    <2> SUFFICES ASSUME NEW k \in DOMAIN (s \o t)
                 PROVE  (s \o t)[k] \in Elements(s) \cup Elements(t)
      BY DEF Elements
    <2>1. CASE k <= Len(s)
      <3>1. k \in DOMAIN s /\ (s \o t)[k] = s[k]
        BY <1>1, <1>2, <2>1
      <3> QED
        BY <3>1 DEF Elements
    <2>2. CASE k > Len(s)
      <3>1. k - Len(s) \in 1 .. Len(t) /\ (s \o t)[k] = t[k - Len(s)]
        BY <1>1, <2>2
      <3> QED
        BY <3>1 DEF Elements
    <2> QED
      BY <2>1, <2>2
  <1>5. Elements(s) \subseteq Elements(s \o t)
    <2>1. \A k \in DOMAIN s : k \in DOMAIN (s \o t) /\ (s \o t)[k] = s[k]
      BY <1>1, <1>2
    <2> QED
      BY <2>1 DEF Elements
  <1>6. Elements(t) \subseteq Elements(s \o t)
    <2>1. ASSUME NEW k \in DOMAIN t PROVE t[k] \in Elements(s \o t)
      <3>1. k \in 1 .. Len(t)
        BY <2>1
      <3>2. (s \o t)[Len(s) + k] = t[k] /\ Len(s) + k \in DOMAIN (s \o t)
        BY <1>3, <3>1
      <3> QED
        BY <3>2 DEF Elements
    <2> QED
      BY <2>1 DEF Elements
  <1>7. s \o t = <<>> <=> s = <<>> /\ t = <<>>
    BY <1>1
  <1>8. t = <<>> => s \o t = s
    OBVIOUS
  <1> QED
    BY <1>1, <1>4, <1>5, <1>6, <1>7, <1>8

\* What the two steps of AddOperands() do to each field.
LEMMA StaticStep ==
  ASSUME NEW n \in NodeRecords, NEW results \in SUBSET BOOLEAN
  PROVE  LET r == ProcessStaticOperands(n, results)
             fixed == n.fresh_ /\ results # {}
         IN /\ r \in NodeRecords /\ r.kind = n.kind
            /\ r.static_operand_list_ = n.static_operand_list_
            /\ r.dynamic_operand_list_ = n.dynamic_operand_list_
            /\ Decisive(n) \in results =>
                 r.has_static_result_ /\ (r.static_result_ <=> Decisive(n)) /\ ~r.fresh_
            /\ Decisive(n) \notin results /\ fixed =>
                 r.has_static_result_ /\ ~r.static_result_ /\ ~r.fresh_
            /\ Decisive(n) \notin results /\ ~fixed => r = n
  <1>1. Decisive(n) \in BOOLEAN
    BY DEF Decisive
  <1> QED
    BY <1>1 DEF ProcessStaticOperands, NodeRecords

LEMMA DynamicStep ==
  ASSUME NEW n \in NodeRecords
  PROVE  LET r == ProcessDynamicOperand(n)
         IN /\ r \in NodeRecords /\ r.kind = n.kind
            /\ r.static_operand_list_ = n.static_operand_list_
            /\ r.dynamic_operand_list_ = n.dynamic_operand_list_
            /\ r.has_static_result_ <=>
                 n.has_static_result_ /\ (n.static_result_ <=> Decisive(n)) /\ ~n.fresh_
            /\ r.static_result_ <=> n.static_result_
            /\ ~r.fresh_
  <1>1. Decisive(n) \in BOOLEAN
    BY DEF Decisive
  <1> QED
    BY <1>1 DEF ProcessDynamicOperand, NodeRecords

\* addPredicate() keeps the cached result, whatever it adds to a list.
LEMMA AddOperandsOK ==
  ASSUME NEW n \in NodeRecords, CacheOK(n), n.kind # "negation",
         NEW statics \in Seq(Predicate), NEW dynamics \in Seq(Predicate),
         \A p \in Statics(n) \cup Elements(statics) : getStaticResult(p) \in BOOLEAN
  PROVE  LET r == AddOperands(n, statics, dynamics)
         IN /\ r \in NodeRecords
            /\ r.kind = n.kind
            /\ r.static_operand_list_ = n.static_operand_list_ \o statics
            /\ r.dynamic_operand_list_ = n.dynamic_operand_list_ \o dynamics
            /\ CacheOK(r)
  <1> DEFINE results == { getStaticResult(statics[k]) : k \in DOMAIN statics }
             spliced == [n EXCEPT !.static_operand_list_ = @ \o statics,
                                  !.dynamic_operand_list_ = @ \o dynamics]
             processed == ProcessStaticOperands(spliced, results)
             r == AddOperands(n, statics, dynamics)
             decides == Decisive(n) \in results
  <1>1. /\ n.static_operand_list_ \in Seq(Predicate) /\ n.dynamic_operand_list_ \in Seq(Predicate)
        /\ n.has_static_result_ \in BOOLEAN /\ n.static_result_ \in BOOLEAN
        /\ n.fresh_ \in BOOLEAN /\ n.kind \in Kinds
    BY DEF NodeRecords
  <1>2. results = { getStaticResult(p) : p \in Elements(statics) } /\ results \subseteq BOOLEAN
    BY DEF Elements
  <1>3. /\ Elements(n.static_operand_list_ \o statics) = Statics(n) \cup Elements(statics)
        /\ n.static_operand_list_ \o statics \in Seq(Predicate)
        /\ n.dynamic_operand_list_ \o dynamics \in Seq(Predicate)
        /\ n.dynamic_operand_list_ \o dynamics = <<>> <=>
             n.dynamic_operand_list_ = <<>> /\ dynamics = <<>>
        /\ n.static_operand_list_ \o statics = <<>> <=>
             n.static_operand_list_ = <<>> /\ statics = <<>>
        /\ Elements(statics) = {} <=> statics = <<>>
    BY <1>1, ElementsOfConcat, ElementsType DEF Statics
  <1>4. /\ spliced \in NodeRecords /\ spliced.kind = n.kind
        /\ spliced.static_operand_list_ = n.static_operand_list_ \o statics
        /\ spliced.dynamic_operand_list_ = n.dynamic_operand_list_ \o dynamics
        /\ spliced.has_static_result_ = n.has_static_result_
        /\ spliced.static_result_ = n.static_result_ /\ spliced.fresh_ = n.fresh_
    BY <1>1, <1>3 DEF NodeRecords
  <1>5. r = IF dynamics = <<>> THEN processed ELSE ProcessDynamicOperand(processed)
    BY DEF AddOperands
  <1>6. Decisive(spliced) = Decisive(n) /\ decides \in BOOLEAN /\ Decisive(n) \in BOOLEAN
    BY <1>4 DEF Decisive
  <1>7. /\ processed \in NodeRecords /\ processed.kind = n.kind
        /\ processed.static_operand_list_ = n.static_operand_list_ \o statics
        /\ processed.dynamic_operand_list_ = n.dynamic_operand_list_ \o dynamics
        /\ decides => /\ processed.has_static_result_ /\ ~processed.fresh_
                      /\ processed.static_result_ <=> Decisive(n)
        /\ ~decides /\ n.fresh_ /\ statics # <<>> =>
             processed.has_static_result_ /\ ~processed.static_result_ /\ ~processed.fresh_
        /\ ~decides /\ ~(n.fresh_ /\ statics # <<>>) => processed = spliced
    <2>1. results = {} <=> statics = <<>>
      BY <1>2, <1>3
    <2> DEFINE made == ProcessStaticOperands(spliced, results)
               fixed == spliced.fresh_ /\ results # {}
    <2> HIDE DEF spliced, results
    <2>2. /\ made \in NodeRecords /\ made.kind = spliced.kind
          /\ made.static_operand_list_ = spliced.static_operand_list_
          /\ made.dynamic_operand_list_ = spliced.dynamic_operand_list_
          /\ Decisive(spliced) \in results =>
               made.has_static_result_ /\ (made.static_result_ <=> Decisive(spliced)) /\ ~made.fresh_
          /\ Decisive(spliced) \notin results /\ fixed =>
               made.has_static_result_ /\ ~made.static_result_ /\ ~made.fresh_
          /\ Decisive(spliced) \notin results /\ ~fixed => made = spliced
      <3>1. spliced \in NodeRecords /\ results \in SUBSET BOOLEAN
        BY <1>2, <1>4
      <3> QED
        BY <3>1, StaticStep
    <2> HIDE DEF made
    <2> QED
      BY <2>1, <2>2, <1>4, <1>6 DEF made
  <1> HIDE DEF spliced, processed
  <1>8. Decisive(processed) = Decisive(n)
    BY <1>7 DEF Decisive
  <1>9. /\ r \in NodeRecords /\ r.kind = n.kind
        /\ r.static_operand_list_ = n.static_operand_list_ \o statics
        /\ r.dynamic_operand_list_ = n.dynamic_operand_list_ \o dynamics
        /\ dynamics = <<>> => r = processed
        /\ dynamics # <<>> =>
             /\ r.has_static_result_ <=> /\ processed.has_static_result_ /\ ~processed.fresh_
                                         /\ processed.static_result_ <=> Decisive(n)
             /\ r.static_result_ <=> processed.static_result_
             /\ ~r.fresh_
    <2> DEFINE made == ProcessDynamicOperand(processed)
    <2>1. /\ made \in NodeRecords /\ made.kind = processed.kind
          /\ made.static_operand_list_ = processed.static_operand_list_
          /\ made.dynamic_operand_list_ = processed.dynamic_operand_list_
          /\ made.has_static_result_ <=> /\ processed.has_static_result_ /\ ~processed.fresh_
                                         /\ processed.static_result_ <=> Decisive(processed)
          /\ made.static_result_ <=> processed.static_result_
          /\ ~made.fresh_
      BY <1>7, DynamicStep
    <2> HIDE DEF r, results, made
    <2> QED
      BY <2>1, <1>5, <1>7, <1>8 DEF made
  <1> HIDE DEF r, results
  <1>10. Decisive(r) = Decisive(n)
    BY <1>9 DEF Decisive
  <1>11. Decided(r) <=> Decided(n) \/ decides
    <2>1. Statics(r) = Statics(n) \cup Elements(statics)
      BY <1>3, <1>9 DEF Statics
    <2> QED
      BY <2>1, <1>2, <1>10 DEF Decided
  <1>12. n.fresh_ => /\ Decisive(n) /\ ~Decided(n)
                     /\ n.static_operand_list_ = <<>> /\ n.dynamic_operand_list_ = <<>>
    <2>1. ASSUME n.fresh_ PROVE Statics(n) = {} /\ n.kind = "disjunction"
      BY <1>1, <2>1, ElementsType DEF CacheOK, Statics
    <2> QED
      BY <2>1 DEF CacheOK, Decisive, Decided
  <1>13. ~n.fresh_ => /\ n.has_static_result_ <=> Decided(n) \/ n.dynamic_operand_list_ = <<>>
                      /\ n.has_static_result_ => ((n.static_result_ <=> Decisive(n)) <=> Decided(n))
    BY DEF CacheOK
  <1> HIDE DEF decides
  <1>14. CacheOK(r)
    <2>1. CASE decides
      BY <2>1, <1>7, <1>9, <1>10, <1>11 DEF CacheOK
    <2>2. CASE ~decides /\ n.fresh_ /\ statics # <<>>
      <3>1. r.dynamic_operand_list_ = <<>> <=> dynamics = <<>>
        BY <2>2, <1>3, <1>9, <1>12
      <3> QED
        BY <2>2, <3>1, <1>7, <1>9, <1>10, <1>11, <1>12 DEF CacheOK
    <2>3. CASE ~decides /\ ~(n.fresh_ /\ statics # <<>>)
      <3>1. /\ processed.has_static_result_ = n.has_static_result_
            /\ processed.static_result_ = n.static_result_ /\ processed.fresh_ = n.fresh_
        BY <2>3, <1>4, <1>7
      <3>2. CASE n.fresh_
        <4>1. /\ r.static_operand_list_ = <<>> /\ r.kind = "disjunction"
              /\ r.dynamic_operand_list_ = <<>> <=> dynamics = <<>>
          BY <2>3, <3>2, <1>3, <1>9, <1>12 DEF CacheOK
        <4> QED
          BY <2>3, <3>1, <3>2, <4>1, <1>9, <1>10, <1>11, <1>12 DEF CacheOK
      <3>3. CASE ~n.fresh_
        <4>1. r.dynamic_operand_list_ = <<>> <=>
                n.dynamic_operand_list_ = <<>> /\ dynamics = <<>>
          BY <1>3, <1>9
        <4> QED
          BY <2>3, <3>1, <3>3, <4>1, <1>9, <1>10, <1>11, <1>13 DEF CacheOK
      <3> QED
        BY <3>2, <3>3
    <2> QED
      BY <2>1, <2>2, <2>3
  <1> QED
    BY <1>9, <1>14 DEF r
-----------------------------------------------------------------------------
LEMMA NodeTypes ==
  ASSUME NEW n \in NodeRecords
  PROVE  /\ n.static_operand_list_ \in Seq(Predicate) /\ n.dynamic_operand_list_ \in Seq(Predicate)
         /\ n.has_static_result_ \in BOOLEAN /\ n.static_result_ \in BOOLEAN
         /\ n.fresh_ \in BOOLEAN /\ n.kind \in Kinds
         /\ Operands(n) \in Seq(Predicate)
         /\ Elements(Operands(n)) = Statics(n) \cup Dynamics(n)
         /\ Statics(n) \cup Dynamics(n) \subseteq Predicate
         /\ Operands(n) = <<>> <=> n.static_operand_list_ = <<>> /\ n.dynamic_operand_list_ = <<>>
         /\ Statics(n) = {} <=> n.static_operand_list_ = <<>>
         /\ Dynamics(n) = {} <=> n.dynamic_operand_list_ = <<>>
  <1>1. /\ n.static_operand_list_ \in Seq(Predicate) /\ n.dynamic_operand_list_ \in Seq(Predicate)
        /\ n.has_static_result_ \in BOOLEAN /\ n.static_result_ \in BOOLEAN
        /\ n.fresh_ \in BOOLEAN /\ n.kind \in Kinds
    BY DEF NodeRecords
  <1> QED
    BY <1>1, ElementsOfConcat, ElementsType DEF Operands, Statics, Dynamics

\* A root is in no node's lists.
LEMMA RootIsNoOperand ==
  ASSUME TreeInv, NEW p \in Nodes, IsRoot(p), NEW q \in Nodes, node[q] # NULL
  PROVE  p \notin Statics(node[q]) \cup Dynamics(node[q])
  <1>1. node[q] \in NodeRecords
    BY DEF TreeInv
  <1>2. p \notin Elements(Operands(node[q]))
    BY DEF IsRoot, Elements
  <1> QED
    BY <1>1, <1>2, NodeTypes

\* What is said of a predicate only depends on its own node.
LEMMA Unchanged ==
  ASSUME NEW p \in Predicate, p \in Nodes => node'[p] = node[p] /\ meaning'[p] = meaning[p]
  PROVE  /\ IsComplete(p)' <=> IsComplete(p)
         /\ hasStaticResult(p)' = hasStaticResult(p)
         /\ getStaticResult(p)' = getStaticResult(p)
         /\ Meaning(p)' = Meaning(p)
         /\ SaysStatic(p)' <=> SaysStatic(p)
  <1>1. /\ IsComplete(p)' <=> IsComplete(p)
        /\ hasStaticResult(p)' = hasStaticResult(p)
        /\ getStaticResult(p)' = getStaticResult(p)
        /\ Meaning(p)' = Meaning(p)
    BY NodeAssumption DEF Predicate, IsComplete, hasStaticResult, getStaticResult, Meaning
  <1> QED
    BY <1>1 DEF SaysStatic

\* A node keeps its word when neither it nor its operands are touched.
LEMMA UntouchedNode ==
  ASSUME TreeInv, NEW q \in Nodes, node[q] # NULL,
         node'[q] = node[q], meaning'[q] = meaning[q],
         \A p \in (Statics(node[q]) \cup Dynamics(node[q])) \cap Nodes :
           node'[p] = node[p] /\ meaning'[p] = meaning[p]
  PROVE  NodeOK(q)'
  <1> DEFINE n == node[q]
  <1>1. n \in NodeRecords /\ NodeOK(q) /\ Statics(n) \cup Dynamics(n) \subseteq Predicate
    BY NodeTypes DEF TreeInv
  <1>2. \A p \in Statics(n) \cup Dynamics(n) :
          /\ IsComplete(p)' <=> IsComplete(p)
          /\ hasStaticResult(p)' = hasStaticResult(p)
          /\ getStaticResult(p)' = getStaticResult(p)
          /\ Meaning(p)' = Meaning(p)
    BY <1>1, Unchanged
  <1>3. q \in Predicate /\ (IsComplete(q)' <=> IsComplete(q)) /\ (SaysStatic(q)' <=> SaysStatic(q))
    BY Unchanged DEF Predicate
  <1>4. SaysOperands(q)' <=> SaysOperands(q)
    BY <1>2 DEF SaysOperands
  <1>5. CacheOK(n)' <=> CacheOK(n)
    <2>1. Decided(n)' <=> Decided(n)
      BY <1>2 DEF Decided, Decisive
    <2> QED
      BY <2>1 DEF CacheOK, Decisive
  <1> QED
    BY <1>1, <1>2, <1>3, <1>4, <1>5 DEF NodeOK

\* The cached result of a list that is filled is what it was built to say.
LEMMA ListSaysStatic ==
  ASSUME NEW l \in Nodes, node'[l] \in NodeRecords, node'[l].kind # "negation",
         CacheOK(node[l])', SaysOperands(l)', IsComplete(l)',
         \A p \in Statics(node'[l]) :
           hasStaticResult(p)' /\ SaysStatic(p)' /\ getStaticResult(p)' \in BOOLEAN,
         \A p \in Predicate : Meaning(p)' \subseteq Tuples
  PROVE  SaysStatic(l)'
  <1> DEFINE n == node'[l]
             statics == Statics(n)
             dynamics == Dynamics(n)
  <1>1. l \notin Leaves /\ l \in Predicate
    BY NodeAssumption DEF Predicate
  <1>2. /\ Meaning(l)' = meaning'[l] /\ getStaticResult(l)' = n.static_result_
        /\ hasStaticResult(l)' = n.has_static_result_
    BY <1>1 DEF Meaning, getStaticResult, hasStaticResult
  <1>3. SUFFICES ASSUME n.has_static_result_
                 PROVE  meaning'[l] = IF n.static_result_ THEN Tuples ELSE {}
    BY <1>2 DEF SaysStatic
  <1>4. /\ n.kind \in {"conjunction", "disjunction"}
        /\ statics \cup dynamics # {}
        /\ dynamics = {} <=> n.dynamic_operand_list_ = <<>>
        /\ statics \cup dynamics \subseteq Predicate
        /\ n.static_result_ \in BOOLEAN
    BY <1>1, NodeTypes DEF IsComplete, Kinds
  <1>5. ~n.fresh_
    BY <1>4, NodeTypes DEF CacheOK
  <1>6. \A p \in statics : Meaning(p)' = IF getStaticResult(p)' THEN Tuples ELSE {}
    BY DEF SaysStatic
  <1>7. CASE Decided(node[l])'
    <2>1. n.static_result_ <=> Decisive(n)
      BY <1>3, <1>5, <1>7 DEF CacheOK, Decisive
    <2>2. PICK p \in statics : getStaticResult(p)' = Decisive(n)
      BY <1>7 DEF Decided, Decisive
    <2>3. CASE n.kind = "conjunction"
      <3>1. Meaning(p)' = {} /\ ~n.static_result_
        BY <1>6, <2>1, <2>2, <2>3 DEF Decisive
      <3> QED
        BY <2>2, <2>3, <3>1 DEF SaysOperands
    <2>4. CASE n.kind = "disjunction"
      <3>1. Meaning(p)' = Tuples /\ n.static_result_
        BY <1>6, <2>1, <2>2, <2>4 DEF Decisive
      <3> QED
        BY <2>2, <2>4, <3>1 DEF SaysOperands
    <2> QED
      BY <1>4, <2>3, <2>4
  <1>8. CASE ~Decided(node[l])'
    <2>1. dynamics = {}
      BY <1>3, <1>4, <1>5, <1>8 DEF CacheOK
    <2>2. ~(n.static_result_ <=> Decisive(n))
      BY <1>3, <1>5, <1>8 DEF CacheOK, Decisive
    <2>3. \A p \in statics : getStaticResult(p)' \in BOOLEAN /\ getStaticResult(p)' # Decisive(n)
      BY <1>8 DEF Decided, Decisive
    <2>4. CASE n.kind = "conjunction"
      <3>1. (\A p \in statics : Meaning(p)' = Tuples) /\ n.static_result_
        BY <1>6, <2>2, <2>3, <2>4 DEF Decisive
      <3> QED
        BY <2>1, <2>4, <3>1 DEF SaysOperands
    <2>5. CASE n.kind = "disjunction"
      <3>1. (\A p \in statics : Meaning(p)' = {}) /\ ~n.static_result_
        BY <1>6, <2>2, <2>3, <2>5 DEF Decisive
      <3> QED
        BY <2>1, <2>5, <3>1 DEF SaysOperands
    <2> QED
      BY <1>4, <2>4, <2>5
  <1> QED
    BY <1>7, <1>8

LEMMA PredicateFacts ==
  ASSUME TreeInv
  PROVE  /\ \A p \in Predicate : Meaning(p) \subseteq Tuples
         /\ \A p \in Predicate : IsComplete(p) =>
              SaysStatic(p) /\ getStaticResult(p) \in BOOLEAN /\ hasStaticResult(p) \in BOOLEAN
  <1>1. \A p \in Leaves : /\ Meaning(p) \subseteq Tuples /\ SaysStatic(p)
                          /\ getStaticResult(p) \in BOOLEAN /\ hasStaticResult(p) \in BOOLEAN
    BY LeafAssumption DEF Meaning, SaysStatic, hasStaticResult, getStaticResult
  <1>2. ASSUME NEW p \in Nodes
        PROVE  /\ Meaning(p) \subseteq Tuples
               /\ IsComplete(p) =>
                    SaysStatic(p) /\ getStaticResult(p) \in BOOLEAN /\ hasStaticResult(p) \in BOOLEAN
    <2>1. p \notin Leaves
      BY NodeAssumption
    <2> QED
      BY <2>1, NodeTypes DEF TreeInv, NodeOK, Meaning, IsComplete, getStaticResult, hasStaticResult
  <1> QED
    BY <1>1, <1>2 DEF Predicate

-----------------------------------------------------------------------------
LEMMA ConstructListOK ==
  ASSUME TreeInv, NEW l \in Nodes, NEW kind \in {"conjunction", "disjunction"},
         ConstructList(l, kind)
  PROVE  TreeInv'
  <1> DEFINE n == NewList(kind)
  <1>1. node[l] = NULL /\ node' = [node EXCEPT ![l] = n]
        /\ meaning' = [meaning EXCEPT ![l] = IF kind = "conjunction" THEN Tuples ELSE {}]
    BY DEF ConstructList
  <1>2. n \in NodeRecords /\ Statics(n) = {} /\ Dynamics(n) = {} /\ Operands(n) = <<>>
    BY DEF NewList, NodeRecords, Kinds, Statics, Dynamics, Elements, Operands
  <1>3. /\ node' \in [Nodes -> NodeRecords \cup {NULL}] /\ meaning' \in [Nodes -> SUBSET Tuples]
        /\ node'[l] = n /\ meaning'[l] = IF kind = "conjunction" THEN Tuples ELSE {}
        /\ \A q \in Nodes \ {l} : node'[q] = node[q] /\ meaning'[q] = meaning[q]
    BY <1>1, <1>2 DEF TreeInv
  <1>4. ASSUME NEW q \in Nodes \ {l}, node'[q] # NULL PROVE node'[q] \in NodeRecords /\ NodeOK(q)'
    <2>1. node[q] # NULL /\ node[q] \in NodeRecords /\ NodeOK(q)
      BY <1>3, <1>4 DEF TreeInv
    <2>2. l \notin Statics(node[q]) \cup Dynamics(node[q])
      BY <1>1, <2>1 DEF NodeOK, IsComplete
    <2> QED
      BY <1>3, <2>1, <2>2, UntouchedNode
  <1>5. NodeOK(l)'
    <2>1. ~IsComplete(l)'
      BY <1>2, <1>3 DEF IsComplete
    <2>2. CacheOK(n)'
      BY <1>2 DEF CacheOK, NewList, Decided, Decisive
    <2>4. n.kind = kind /\ n.kind # "negation"
      BY DEF NewList
    <2> HIDE DEF n
    <2>3. SaysOperands(l)'
      <3>1. CASE kind = "conjunction"
        BY <1>2, <1>3, <2>4, <3>1 DEF SaysOperands
      <3>2. CASE kind = "disjunction"
        BY <1>2, <1>3, <2>4, <3>2 DEF SaysOperands
      <3> QED
        BY <3>1, <3>2
    <2> QED
      BY <1>2, <1>3, <2>1, <2>2, <2>3, <2>4 DEF NodeOK
  <1> QED
    BY <1>2, <1>3, <1>4, <1>5 DEF TreeInv

\* Every predicate but the two that addPredicate() changes is as before; the list
\* has the operands that it had and those of p, or p itself.
LEMMA AddPredicateOK ==
  ASSUME TreeInv, NEW l \in Nodes, NEW p \in Predicate, addPredicate(l, p)
  PROVE  TreeInv'
  <1> DEFINE n == node[l]
             splice == p \in Nodes /\ node[p].kind = n.kind
  <1>0. PICK m : m = Extended(l, p)
    OBVIOUS
  <1>1. /\ n # NULL /\ n.kind # "negation" /\ p # l
        /\ IsComplete(p) /\ IsRoot(p) /\ IsRoot(l)
        /\ node' = [q \in Nodes |-> IF q = l THEN m ELSE IF q = p /\ node[p].kind = n.kind
                                                       THEN NULL ELSE node[q]]
        /\ meaning' = [meaning EXCEPT ![l] =
                         IF n.kind = "conjunction" THEN @ \cap Meaning(p) ELSE @ \cup Meaning(p)]
    BY <1>0 DEF addPredicate
  <1>2. n \in NodeRecords /\ NodeOK(l)
    BY <1>1 DEF TreeInv
  <1>3. p \in Nodes => node[p] # NULL /\ node[p] \in NodeRecords /\ NodeOK(p)
    BY <1>1 DEF TreeInv, IsComplete
  <1>4. PICK statics \in Seq(Predicate), dynamics \in Seq(Predicate) :
          /\ m = AddOperands(n, statics, dynamics)
          /\ splice => /\ Elements(statics) = Statics(node[p])
                       /\ Elements(dynamics) = Dynamics(node[p])
          /\ ~splice => Elements(statics) \cup Elements(dynamics) = {p}
          /\ \A q \in Elements(statics) : hasStaticResult(q) /\ IsComplete(q)
          /\ \A q \in Elements(dynamics) : IsComplete(q)
          /\ Elements(statics) \cup Elements(dynamics) # {}
          /\ l \notin Elements(statics) \cup Elements(dynamics)
          /\ splice => p \notin Elements(statics) \cup Elements(dynamics)
    <2>1. CASE splice
      <3>1. /\ m = AddOperands(n, node[p].static_operand_list_, node[p].dynamic_operand_list_)
            /\ node[p].static_operand_list_ \in Seq(Predicate)
            /\ node[p].dynamic_operand_list_ \in Seq(Predicate)
        BY <1>0, <1>3, <2>1, NodeTypes DEF Extended
      <3>2. /\ \A q \in Statics(node[p]) : hasStaticResult(q) /\ IsComplete(q)
            /\ \A q \in Dynamics(node[p]) : IsComplete(q)
        BY <1>3, <2>1 DEF NodeOK
      <3>3. Statics(node[p]) \cup Dynamics(node[p]) # {}
        BY <1>1, <1>3, <2>1, NodeTypes DEF IsComplete
      <3>4. /\ l \notin Statics(node[p]) \cup Dynamics(node[p])
            /\ p \notin Statics(node[p]) \cup Dynamics(node[p])
        BY <1>1, <1>3, <2>1, RootIsNoOperand
      <3> QED
        BY <2>1, <3>1, <3>2, <3>3, <3>4 DEF Statics, Dynamics
    <2>2. CASE ~splice
      <3>1. /\ <<p>> \in Seq(Predicate) /\ <<>> \in Seq(Predicate)
            /\ Elements(<<p>>) = {p} /\ Elements(<<>>) = {}
        BY DEF Elements
      <3>2. CASE hasStaticResult(p)
        <4>1. m = AddOperands(n, <<p>>, <<>>)
          BY <1>0, <2>2, <3>2 DEF Extended
        <4> QED
          BY <1>1, <2>2, <3>1, <3>2, <4>1
      <3>3. CASE ~hasStaticResult(p)
        <4>1. m = AddOperands(n, <<>>, <<p>>)
          BY <1>0, <2>2, <3>3 DEF Extended
        <4> QED
          BY <1>1, <2>2, <3>1, <3>3, <4>1
      <3> QED
        BY <3>2, <3>3
    <2> QED
      BY <2>1, <2>2
  <1>5. /\ m \in NodeRecords /\ m.kind = n.kind /\ CacheOK(m)
        /\ Statics(m) = Statics(n) \cup Elements(statics)
        /\ Dynamics(m) = Dynamics(n) \cup Elements(dynamics)
    <2>1. \A q \in Statics(n) \cup Elements(statics) : q \in Predicate /\ getStaticResult(q) \in BOOLEAN
      BY <1>2, <1>4, NodeTypes, PredicateFacts, ElementsType DEF NodeOK
    <2>2. CacheOK(n)
      BY <1>1, <1>2 DEF NodeOK
    <2>3. /\ m \in NodeRecords /\ m.kind = n.kind /\ CacheOK(m)
          /\ m.static_operand_list_ = n.static_operand_list_ \o statics
          /\ m.dynamic_operand_list_ = n.dynamic_operand_list_ \o dynamics
      BY <1>1, <1>2, <1>4, <2>1, <2>2, AddOperandsOK
    <2>4. /\ n.static_operand_list_ \in Seq(Predicate) /\ n.dynamic_operand_list_ \in Seq(Predicate)
      BY <1>2, NodeTypes
    <2>5. Statics(m) = Statics(n) \cup Elements(statics)
      BY <2>3, <2>4, ElementsOfConcat DEF Statics
    <2>6. Dynamics(m) = Dynamics(n) \cup Elements(dynamics)
      BY <2>3, <2>4, ElementsOfConcat DEF Dynamics
    <2> QED
      BY <2>3, <2>5, <2>6
  <1>6. /\ node' \in [Nodes -> NodeRecords \cup {NULL}] /\ meaning' \in [Nodes -> SUBSET Tuples]
        /\ node'[l] = m
        /\ \A q \in Nodes \ {l} : meaning'[q] = meaning[q]
        /\ \A q \in Nodes \ {l} : node'[q] = IF splice /\ q = p THEN NULL ELSE node[q]
        /\ meaning'[l] = IF n.kind = "conjunction" THEN meaning[l] \cap Meaning(p)
                                                    ELSE meaning[l] \cup Meaning(p)
    BY <1>1, <1>5, PredicateFacts DEF TreeInv
  <1>7. ASSUME NEW q \in Nodes \ {l}, node'[q] # NULL PROVE node'[q] \in NodeRecords /\ NodeOK(q)'
    <2>1. node'[q] = node[q] /\ node[q] # NULL /\ node[q] \in NodeRecords
      BY <1>6, <1>7 DEF TreeInv
    <2>2. l \notin Statics(node[q]) \cup Dynamics(node[q])
      BY <1>1, <2>1, RootIsNoOperand
    <2>3. splice => p \notin Statics(node[q]) \cup Dynamics(node[q])
      BY <1>1, <2>1, RootIsNoOperand
    <2> QED
      BY <1>6, <2>1, <2>2, <2>3, UntouchedNode
  <1>8. \A q \in Predicate \ {l} : ~(splice /\ q = p) =>
          /\ IsComplete(q)' <=> IsComplete(q)
          /\ hasStaticResult(q)' = hasStaticResult(q)
          /\ getStaticResult(q)' = getStaticResult(q)
          /\ Meaning(q)' = Meaning(q)
          /\ SaysStatic(q)' <=> SaysStatic(q)
    BY <1>6, Unchanged
  <1>9. \A q \in Statics(m) \cup Dynamics(m) : q \in Predicate \ {l} /\ ~(splice /\ q = p)
    <2>1. l \notin Statics(n) \cup Dynamics(n)
      BY <1>1, RootIsNoOperand
    <2>2. splice => p \notin Statics(n) \cup Dynamics(n)
      BY <1>1, RootIsNoOperand
    <2> QED
      BY <1>4, <1>5, <2>1, <2>2, NodeTypes
  <1>10. NodeOK(l)'
    <2>1. \A q \in Statics(m) \cup Dynamics(m) : IsComplete(q)
      BY <1>2, <1>4, <1>5 DEF NodeOK
    <2>2. \A q \in Statics(m) : hasStaticResult(q)
      BY <1>2, <1>4, <1>5 DEF NodeOK
    <2>3. CacheOK(node[l])'
      <3>1. Decided(m)' <=> Decided(m)
        BY <1>8, <1>9 DEF Decided, Decisive
      <3> QED
        BY <1>5, <1>6, <3>1 DEF CacheOK, Decisive
    <2>4. SaysOperands(l)'
      <3> DEFINE before == Statics(n) \cup Dynamics(n)
                 added == Elements(statics) \cup Elements(dynamics)
      <3>1. /\ Statics(m) \cup Dynamics(m) = before \cup added
            /\ \A q \in before \cup added : Meaning(q)' = Meaning(q)
        BY <1>5, <1>8, <1>9
      <3>2. meaning[l] \subseteq Tuples /\ Meaning(p) \subseteq Tuples
        BY PredicateFacts DEF TreeInv
      <3>3. CASE n.kind = "conjunction"
        <4>1. meaning[l] = { t \in Tuples : \A q \in before : t \in Meaning(q) }
          BY <1>2, <3>3 DEF NodeOK, SaysOperands
        <4>2. Meaning(p) = { t \in Tuples : \A q \in added : t \in Meaning(q) }
          <5>1. CASE splice
            BY <1>3, <1>4, <3>3, <5>1, NodeAssumption DEF NodeOK, SaysOperands, Meaning
          <5>2. CASE ~splice
            BY <1>4, <3>2, <5>2
          <5> QED
            BY <5>1, <5>2
        <4>3. meaning'[l] = { t \in Tuples : \A q \in before \cup added : t \in Meaning(q) }
          BY <1>6, <3>3, <4>1, <4>2
        <4> QED
          BY <1>5, <1>6, <3>1, <3>3, <4>3 DEF SaysOperands
      <3>4. CASE n.kind = "disjunction"
        <4>1. meaning[l] = { t \in Tuples : \E q \in before : t \in Meaning(q) }
          BY <1>2, <3>4 DEF NodeOK, SaysOperands
        <4>2. Meaning(p) = { t \in Tuples : \E q \in added : t \in Meaning(q) }
          <5>1. CASE splice
            BY <1>3, <1>4, <3>4, <5>1, NodeAssumption DEF NodeOK, SaysOperands, Meaning
          <5>2. CASE ~splice
            BY <1>4, <3>2, <5>2
          <5> QED
            BY <5>1, <5>2
        <4>3. meaning'[l] = { t \in Tuples : \E q \in before \cup added : t \in Meaning(q) }
          BY <1>6, <3>4, <4>1, <4>2
        <4> QED
          BY <1>5, <1>6, <3>1, <3>4, <4>3 DEF SaysOperands
      <3> QED
        BY <1>1, <1>2, <3>3, <3>4, NodeTypes DEF Kinds
    <2>5. IsComplete(l)' => SaysStatic(l)'
      <3>1. \A q \in Predicate : Meaning(q)' \subseteq Tuples
        BY <1>6, LeafAssumption DEF Meaning, Predicate
      <3>2. \A q \in Statics(m) :
              hasStaticResult(q)' /\ SaysStatic(q)' /\ getStaticResult(q)' \in BOOLEAN
        BY <1>8, <1>9, <2>1, <2>2, PredicateFacts
      <3> QED
        BY <1>1, <1>5, <1>6, <2>3, <2>4, <3>1, <3>2, ListSaysStatic
    <2> QED
      BY <1>1, <1>5, <1>6, <1>8, <1>9, <2>1, <2>2, <2>3, <2>4, <2>5 DEF NodeOK
  <1> QED
    BY <1>5, <1>6, <1>7, <1>10 DEF TreeInv

LEMMA NegatePredicateOK ==
  ASSUME TreeInv, NEW l \in Nodes, NEW p \in Predicate, NegatePredicate(l, p)
  PROVE  TreeInv'
  <1>1. IsComplete(p) /\ IsRoot(p)
    BY DEF NegatePredicate
  <1>2. CASE p \in Nodes /\ node[p].kind = "negation"
    <2>1. node' = [node EXCEPT ![p] = NULL] /\ meaning' = meaning
      BY <1>2 DEF NegatePredicate
    <2>2. ASSUME NEW q \in Nodes, node'[q] # NULL PROVE node'[q] \in NodeRecords /\ NodeOK(q)'
      <3>1. node'[q] = node[q] /\ node[q] # NULL /\ node[q] \in NodeRecords
        BY <2>1, <2>2 DEF TreeInv
      <3>2. p \notin Statics(node[q]) \cup Dynamics(node[q])
        BY <1>1, <1>2, <3>1, RootIsNoOperand
      <3>3. \A r \in Nodes \ {p} : node'[r] = node[r] /\ meaning'[r] = meaning[r]
        BY <2>1 DEF TreeInv
      <3> QED
        BY <2>1, <3>1, <3>2, <3>3, UntouchedNode
    <2> QED
      BY <2>1, <2>2 DEF TreeInv
  <1>3. CASE ~(p \in Nodes /\ node[p].kind = "negation")
    <2> DEFINE has == hasStaticResult(p)
               says == getStaticResult(p)
    <2>1. PICK n : n = NewNegation(p)
      OBVIOUS
    <2>2. /\ node[l] = NULL /\ node' = [node EXCEPT ![l] = n]
          /\ meaning' = [meaning EXCEPT ![l] = Tuples \ Meaning(p)]
      BY <1>3, <2>1 DEF NegatePredicate
    <2>3. has \in BOOLEAN /\ says \in BOOLEAN /\ SaysStatic(p) /\ Meaning(p) \subseteq Tuples
      BY <1>1, PredicateFacts
    <2>4. /\ n \in NodeRecords /\ n.kind = "negation" /\ Statics(n) = {} /\ Dynamics(n) = {p}
          /\ n.static_operand_list_ = <<>> /\ Len(n.dynamic_operand_list_) = 1
          /\ n.has_static_result_ <=> has
          /\ n.static_result_ <=> has /\ ~says
      <3>1. n = [kind |-> "negation", static_operand_list_ |-> <<>>,
                 dynamic_operand_list_ |-> <<p>>, has_static_result_ |-> has,
                 static_result_ |-> has /\ ~says, fresh_ |-> FALSE]
        BY <2>1 DEF NewNegation
      <3>2. <<p>> \in Seq(Predicate) /\ <<>> \in Seq(Predicate) /\ (has /\ ~says) \in BOOLEAN
        BY <2>3
      <3>3. n \in NodeRecords
        BY <2>3, <3>1, <3>2 DEF NodeRecords, Kinds
      <3>4. Statics(n) = {} /\ Dynamics(n) = {p}
        BY <3>1 DEF Statics, Dynamics, Elements
      <3> QED
        BY <3>1, <3>3, <3>4
    <2>5. l # p
      BY <1>1, <2>2 DEF IsComplete
    <2>6. /\ node' \in [Nodes -> NodeRecords \cup {NULL}] /\ meaning' \in [Nodes -> SUBSET Tuples]
          /\ node'[l] = n /\ meaning'[l] = Tuples \ Meaning(p)
          /\ \A q \in Nodes \ {l} : node'[q] = node[q] /\ meaning'[q] = meaning[q]
      BY <2>2, <2>4 DEF TreeInv
    <2>7. ASSUME NEW q \in Nodes \ {l}, node'[q] # NULL PROVE node'[q] \in NodeRecords /\ NodeOK(q)'
      <3>1. node[q] # NULL /\ node[q] \in NodeRecords /\ NodeOK(q)
        BY <2>6, <2>7 DEF TreeInv
      <3>2. l \notin Statics(node[q]) \cup Dynamics(node[q])
        BY <2>2, <3>1 DEF NodeOK, IsComplete
      <3> QED
        BY <2>6, <3>1, <3>2, UntouchedNode
    <2>8. IsComplete(p)' /\ Meaning(p)' = Meaning(p)
      BY <1>1, <2>5, <2>6, Unchanged
    <2>9. NodeOK(l)'
      <3>1. SaysOperands(l)'
        BY <2>3, <2>4, <2>6, <2>8 DEF SaysOperands
      <3>2. SaysStatic(l)'
        <4>1. l \notin Leaves
          BY NodeAssumption
        <4>2. /\ Meaning(l)' = Tuples \ Meaning(p) /\ hasStaticResult(l)' = n.has_static_result_
              /\ getStaticResult(l)' = n.static_result_
          BY <2>6, <4>1 DEF Meaning, hasStaticResult, getStaticResult
        <4>3. has => Meaning(p) = IF says THEN Tuples ELSE {}
          BY <2>3 DEF SaysStatic
        <4>4. SUFFICES ASSUME n.has_static_result_
                       PROVE  Tuples \ Meaning(p) = IF n.static_result_ THEN Tuples ELSE {}
          BY <4>2 DEF SaysStatic
        <4>5. CASE says
          BY <2>4, <4>3, <4>4, <4>5
        <4>6. CASE ~says
          BY <2>4, <4>3, <4>4, <4>6
        <4> QED
          BY <4>5, <4>6
      <3> QED
        BY <2>4, <2>6, <2>8, <3>1, <3>2 DEF NodeOK
    <2> QED
      BY <2>4, <2>6, <2>7, <2>9 DEF TreeInv
  <1> QED
    BY <1>2, <1>3

LEMMA BuildOK == ASSUME TreeInv, Build PROVE TreeInv'
  <1>1. PICK l \in Nodes :
          \/ \E kind \in {"conjunction", "disjunction"} : ConstructList(l, kind)
          \/ \E p \in Predicate : addPredicate(l, p) \/ NegatePredicate(l, p)
    BY DEF Build
  <1> QED
    BY <1>1, ConstructListOK, AddPredicateOK, NegatePredicateOK

\* Predicates are not touched while the operator runs.
LEMMA SameTree == ASSUME TreeInv, UNCHANGED <<node, meaning>> PROVE TreeInv'
  <1>1. \A l \in Nodes : node[l] # NULL => NodeOK(l)'
    BY UntouchedNode
  <1> QED
    BY <1>1 DEF TreeInv

LEMMA NoTree ==
  ASSUME node' = [l \in Nodes |-> NULL], meaning' = [l \in Nodes |-> {}]
  PROVE  TreeInv'
  BY DEF TreeInv

LEMMA NextTreeInv == TreeInv /\ [Next]_vars => TreeInv'
  <1> SUFFICES ASSUME TreeInv, [Next]_vars PROVE TreeInv'
    OBVIOUS
  <1>1. CASE Build
    BY <1>1, BuildOK
  <1>2. CASE close
    BY <1>2, NoTree DEF close
  <1>3. ASSUME UNCHANGED <<node, meaning>> PROVE TreeInv'
    BY <1>3, SameTree
  <1>4. CASE open \/ (\E batches \in Inputs : next(batches)) \/ NextInput \/ UNCHANGED vars
    BY <1>3, <1>4 DEF open, next, NextInput, predicateVars, vars
  <1>5. CASE Filter
    BY <1>3, <1>5 DEF Filter, ApplyPredicate, PredicateApplied, AllApplied, getAllMatches, predicateVars
  <1>6. CASE Select
    BY <1>3, <1>6 DEF Select, SelectAttributes, EvaluateExpression, ExpressionEvaluated,
                      SelectValues, predicateVars
  <1>7. CASE PredicateStep
    BY <1>3, <1>7 DEF PredicateStep, EvaluateOperand, CallOperand, Return
  <1>8. CASE ScalarStep
    BY <1>3, <1>8 DEF ScalarStep, CaseStep, MatchWhen, WhenMatched, AllMatched, EvaluateThen,
                      EvaluateElse, MultiplexColumn, AllMultiplexed, getAllMatches, predicateVars
  <1> QED
    BY <1>1, <1>2, <1>4, <1>5, <1>6, <1>7, <1>8 DEF Next

LEMMA InitTreeInv == Init => TreeInv
  BY DEF Init, TreeInv

LEMMA TreeMeaning == TreeInv => NodesMeanWhatWasAdded
  <1> SUFFICES ASSUME TreeInv, NEW l \in Nodes, node[l] # NULL, IsComplete(l)
               PROVE  meaning[l] = { t \in Tuples : matchesForSingleTuple(l, t) }
    BY DEF NodesMeanWhatWasAdded
  <1> DEFINE n == node[l]
  <1>1. n \in NodeRecords /\ NodeOK(l) /\ l \notin Leaves
    BY NodeAssumption DEF TreeInv
  <1>2. CASE n.has_static_result_
    <2>1. meaning[l] = IF n.static_result_ THEN Tuples ELSE {}
      BY <1>1, <1>2 DEF NodeOK, SaysStatic, Meaning, hasStaticResult, getStaticResult
    <2>2. \A t : matchesForSingleTuple(l, t) <=> n.static_result_
      BY <1>1, <1>2, NodeTypes DEF matchesForSingleTuple
    <2> QED
      BY <2>1, <2>2
  <1>3. CASE ~n.has_static_result_
    <2>1. /\ \A p \in Statics(n) : /\ IsComplete(p) /\ p \in Predicate
                                     /\ getStaticResult(p) \in BOOLEAN
                                     /\ Meaning(p) = IF getStaticResult(p) THEN Tuples ELSE {}
          /\ n.kind # "negation" => ~n.fresh_ /\ ~Decided(n)
          /\ n.kind = "negation" => Statics(n) = {}
      BY <1>1, <1>3, NodeTypes, PredicateFacts DEF NodeOK, CacheOK, IsComplete, SaysStatic
    <2>2. /\ n.kind = "conjunction" => \A p \in Statics(n) : Meaning(p) = Tuples
          /\ n.kind = "disjunction" => \A p \in Statics(n) : Meaning(p) = {}
      BY <2>1 DEF Decided, Decisive
    <2> DEFINE s == Statics(n)
               d == Dynamics(n)
    <2>3. /\ n.kind = "conjunction" => meaning[l] = { t \in Tuples : \A p \in s \cup d : t \in Meaning(p) }
          /\ n.kind = "disjunction" => meaning[l] = { t \in Tuples : \E p \in s \cup d : t \in Meaning(p) }
          /\ n.kind = "negation" => meaning[l] = { t \in Tuples : \A p \in s \cup d : t \notin Meaning(p) }
      BY <1>1 DEF NodeOK, SaysOperands
    <2>4. ASSUME NEW t
          PROVE  /\ n.kind = "conjunction" =>
                      (matchesForSingleTuple(l, t) <=> \A p \in d : t \in Meaning(p))
                 /\ n.kind = "disjunction" =>
                      (matchesForSingleTuple(l, t) <=> \E p \in d : t \in Meaning(p))
                 /\ n.kind = "negation" =>
                      (matchesForSingleTuple(l, t) <=> \A p \in d : t \notin Meaning(p))
      BY <1>3 DEF matchesForSingleTuple, Dynamics, Elements
    <2>5. n.kind \in {"conjunction", "disjunction", "negation"}
      BY <1>1, NodeTypes DEF Kinds
    <2> HIDE DEF s, d, n
    <2>6. CASE n.kind = "conjunction"
      <3>1. \A p \in s : Meaning(p) = Tuples
        BY <2>2, <2>6 DEF s
      <3> QED
        BY <2>3, <2>4, <2>6, <3>1
    <2>7. CASE n.kind = "disjunction"
      <3>1. \A p \in s : Meaning(p) = {}
        BY <2>2, <2>7 DEF s
      <3> QED
        BY <2>3, <2>4, <2>7, <3>1
    <2>8. CASE n.kind = "negation"
      <3>1. s = {}
        BY <2>1, <2>8 DEF s
      <3> QED
        BY <2>3, <2>4, <2>8, <3>1
    <2> QED
      BY <2>5, <2>6, <2>7, <2>8
  <1> QED
    BY <1>2, <1>3

\* However static, dynamic and nested operands are added and spliced, a predicate is
\* satisfied by exactly the tuples that satisfy what was ever given to it.
THEOREM NodesCorrect == Spec => []NodesMeanWhatWasAdded
  BY TreeMeaning, InitTreeInv, NextTreeInv, PTL DEF Spec

-----------------------------------------------------------------------------
(***************************************************************************)
(* One call of getAllMatches().                                            *)
(***************************************************************************)
\* What the call is asked for.
Wanted(p, filter, existence_map) ==
  { t \in Given(filter, existence_map) : batch[t] \in Meaning(p) }

Sequence == (SUBSET Ids) \cup {NULL}

Within(filter, existence_map) ==
  /\ filter \in Sequence /\ existence_map \in Sequence
  /\ filter # NULL /\ existence_map # NULL => filter \subseteq existence_map

\* What a running call has found so far.
FrameOK(f) ==
  LET g == Given(f.filter, f.existence_map)
      operands == OperandsOf(f)
      seen == 1 .. f.next - 1
  IN /\ f \in Frames
     /\ IsComplete(f.pred) /\ ~IsImmediate(f.pred)
     /\ Within(f.filter, f.existence_map)
     /\ f.next \in 1 .. Len(operands) + 1
     /\ KindOf(f) = "conjunction" =>
          f.result = { t \in g : \A k \in seen : batch[t] \in Meaning(operands[k]) }
     /\ KindOf(f) = "disjunction" =>
          /\ f.result = { t \in g : \E k \in seen : batch[t] \in Meaning(operands[k]) }
          /\ f.rest = g \ f.result
     /\ KindOf(f) = "negation" =>
          f.result = { t \in g : f.next = 2 /\ batch[t] \notin Meaning(operands[1]) }

\* The batches that can come in, and none.
BatchSet == { b \in Seq(Tuples) : NULL \notin SUBSET (DOMAIN b) }

BatchOK == batch \in BatchSet

LEMMA BatchesFacts == <<>> \in BatchSet /\ Inputs \subseteq Seq(BatchSet)
  <1>1. <<>> \in Seq(Tuples) /\ <<>> \in {<<>>}
    OBVIOUS
  <1>2. <<>> \in BatchSet
    BY <1>1, NullAssumption DEF BatchSet
  <1>3. ASSUME NEW batches \in Inputs PROVE batches \in Seq(BatchSet)
    <2>1. batches \in Seq(Seq(Tuples))
      BY InputsAssumption
    <2>2. ASSUME NEW k \in 1 .. Len(batches) PROVE batches[k] \in BatchSet
      <3>1. batches[k] \in { batches[i] : i \in DOMAIN batches } /\ batches[k] \in Seq(Tuples)
        BY <2>1
      <3>2. \A ids \in SUBSET (DOMAIN batches[k]) : ids # NULL
        BY <3>1, NullAssumption
      <3> QED
        BY <3>1, <3>2 DEF BatchSet
    <2>3. batches \in [1 .. Len(batches) -> BatchSet] /\ Len(batches) \in Nat
      BY <2>1, <2>2
    <2> QED
      BY <2>3
  <1> QED
    BY <1>2, <1>3

LEMMA IdsFacts ==
  ASSUME BatchOK
  PROVE  /\ Ids = 1 .. Len(batch) /\ Len(batch) \in Nat
         /\ \A t \in Ids : batch[t] \in Tuples
         /\ NULL \notin SUBSET Ids
  BY DEF BatchOK, BatchSet, Ids

LEMMA GivenFacts ==
  ASSUME BatchOK, NEW filter, NEW map, Within(filter, map)
  PROVE  /\ Given(filter, map) \subseteq Ids
         /\ filter # NULL => Given(filter, map) = filter
         /\ map # NULL => Given(filter, map) \subseteq map
  BY DEF Within, Given, Sequence

\* The parts of a predicate that has no static result.
LEMMA DynamicMeaning ==
  ASSUME TreeInv, NEW p \in Nodes, IsComplete(p), ~IsImmediate(p)
  PROVE  LET n == node[p]
             d == n.dynamic_operand_list_
         IN /\ n.kind \in Kinds /\ d \in Seq(Predicate)
            /\ \A k \in 1 .. Len(d) : d[k] \in Predicate /\ IsComplete(d[k])
            /\ Meaning(p) =
                 CASE n.kind = "conjunction" -> { t \in Tuples : \A k \in 1 .. Len(d) : t \in Meaning(d[k]) }
                   [] n.kind = "disjunction" -> { t \in Tuples : \E k \in 1 .. Len(d) : t \in Meaning(d[k]) }
                   [] n.kind = "negation"    -> { t \in Tuples : t \notin Meaning(d[1]) }
            /\ n.kind = "negation" => Len(d) = 1
  <1> DEFINE n == node[p]
             d == n.dynamic_operand_list_
  <1>1. p \notin Leaves /\ n \in NodeRecords /\ NodeOK(p) /\ ~n.has_static_result_
    BY NodeAssumption DEF IsComplete, IsImmediate, TreeInv
  <1>2. /\ n.kind \in Kinds /\ d \in Seq(Predicate)
        /\ \A k \in 1 .. Len(d) : d[k] \in Predicate /\ IsComplete(d[k])
        /\ n.kind = "negation" => Len(d) = 1
    BY <1>1, NodeTypes DEF NodeOK, Dynamics, Elements
  <1>3. Meaning(p) = { t \in Tuples : matchesForSingleTuple(p, t) }
    BY <1>1, TreeMeaning DEF NodesMeanWhatWasAdded, Meaning, IsComplete
  <1>4. \A t : matchesForSingleTuple(p, t) <=>
          CASE n.kind = "conjunction" -> \A k \in 1 .. Len(d) : t \in Meaning(d[k])
            [] n.kind = "disjunction" -> \E k \in 1 .. Len(d) : t \in Meaning(d[k])
            [] n.kind = "negation"    -> t \notin Meaning(d[1])
    BY <1>1, <1>2 DEF matchesForSingleTuple, Kinds
  <1> QED
    BY <1>2, <1>3, <1>4 DEF Kinds

LEMMA ImmediateOK ==
  ASSUME TreeInv, BatchOK, NEW p \in Predicate, IsComplete(p), IsImmediate(p),
         NEW filter, NEW map, Within(filter, map)
  PROVE  ImmediateMatches(p, filter, map) = Wanted(p, filter, map)
  <1>1. CASE p \in Leaves
    BY <1>1 DEF ImmediateMatches, LeafMatches, Wanted, Meaning
  <1>2. CASE p \notin Leaves
    <2>1. p \in Nodes /\ node[p].has_static_result_
      BY <1>2 DEF Predicate, IsImmediate
    <2>2. Meaning(p) = IF node[p].static_result_ THEN Tuples ELSE {}
      BY <1>2, <2>1, PredicateFacts DEF SaysStatic, hasStaticResult, getStaticResult
    <2>3. \A t \in Given(filter, map) : batch[t] \in Tuples
      BY IdsFacts, GivenFacts
    <2> QED
      BY <1>2, <2>2, <2>3 DEF ImmediateMatches, GenerateSequenceForStaticResult, Wanted
  <1> QED
    BY <1>1, <1>2

LEMMA NewFrameOK ==
  ASSUME TreeInv, BatchOK, NEW p \in Predicate, IsComplete(p), ~IsImmediate(p),
         NEW filter, NEW map, Within(filter, map)
  PROVE  /\ FrameOK(NewFrame(p, filter, map))
         /\ NewFrame(p, filter, map).pred = p
         /\ NewFrame(p, filter, map).filter = filter
         /\ NewFrame(p, filter, map).existence_map = map
  <1>1. PICK f : f = NewFrame(p, filter, map)
    OBVIOUS
  <1>2. /\ f.pred = p /\ f.filter = filter /\ f.existence_map = map /\ f.next = 1
        /\ f.result = IF node[p].kind = "conjunction" THEN Given(filter, map) ELSE {}
        /\ f.rest = Given(filter, map)
    BY <1>1 DEF NewFrame
  <1>3. p \in Nodes
    BY DEF Predicate, IsImmediate
  <1>4. f \in Frames
    BY <1>1, <1>3, GivenFacts DEF NewFrame, Frames, Within, Sequence
  <1>5. Len(OperandsOf(f)) \in Nat /\ KindOf(f) = node[p].kind
    BY <1>2, <1>3, DynamicMeaning DEF OperandsOf, KindOf
  <1>6. 1 .. f.next - 1 = {}
    BY <1>2
  <1> QED
    BY <1>1, <1>2, <1>4, <1>5, <1>6 DEF FrameOK

\* The operand whose turn it is gets a filter that the call may ask for.
LEMMA OperandFilterOK ==
  ASSUME TreeInv, BatchOK, NEW f, FrameOK(f), IsLooping(f)
  PROVE  LET p == OperandsOf(f)[f.next]
         IN /\ p \in Predicate /\ IsComplete(p)
            /\ Within(FilterForOperand(f), f.existence_map)
            /\ KindOf(f) = "conjunction" => Given(FilterForOperand(f), f.existence_map) = f.result
            /\ KindOf(f) = "negation" =>
                 Given(FilterForOperand(f), f.existence_map) = Given(f.filter, f.existence_map)
            /\ KindOf(f) = "disjunction" =>
                 Given(FilterForOperand(f), f.existence_map)
                   \in {f.rest, Given(f.filter, f.existence_map)}
  <1> DEFINE g == Given(f.filter, f.existence_map)
  <1>1. /\ f.pred \in Nodes /\ f.result \in SUBSET Ids /\ f.rest \in SUBSET Ids /\ f.next \in Nat
        /\ Within(f.filter, f.existence_map)
        /\ IsComplete(f.pred) /\ ~IsImmediate(f.pred)
        /\ f.next \in 1 .. Len(OperandsOf(f))
    BY DEF FrameOK, Frames, IsLooping
  <1>2. OperandsOf(f)[f.next] \in Predicate /\ IsComplete(OperandsOf(f)[f.next]) /\ KindOf(f) \in Kinds
    BY <1>1, DynamicMeaning DEF OperandsOf, KindOf
  <1>3. CASE KindOf(f) = "conjunction"
    <2>1. FilterForOperand(f) = f.result /\ f.result \subseteq g
      BY <1>3 DEF FilterForOperand, FrameOK
    <2>2. f.result # NULL
      BY <1>1, IdsFacts
    <2>3. Within(f.result, f.existence_map)
      BY <1>1, <2>1, GivenFacts DEF Within, Sequence
    <2> QED
      BY <1>2, <1>3, <2>1, <2>2, <2>3, GivenFacts
  <1>4. CASE KindOf(f) = "disjunction" /\ short_circuit
    <2>1. FilterForOperand(f) = f.rest /\ f.rest \subseteq g
      BY <1>4 DEF FilterForOperand, FrameOK
    <2>2. f.rest # NULL
      BY <1>1, IdsFacts
    <2>3. Within(f.rest, f.existence_map)
      BY <1>1, <2>1, GivenFacts DEF Within, Sequence
    <2> QED
      BY <1>2, <1>4, <2>1, <2>2, <2>3, GivenFacts
  <1>5. CASE KindOf(f) = "negation" \/ (KindOf(f) = "disjunction" /\ ~short_circuit)
    <2>1. FilterForOperand(f) = f.filter
      BY <1>5 DEF FilterForOperand
    <2> QED
      BY <1>1, <1>2, <1>5, <2>1
  <1> QED
    BY <1>2, <1>3, <1>4, <1>5 DEF Kinds

\* The frame of the next turn of a loop.
Advanced(f, result, rest) == [f EXCEPT !.next = @ + 1, !.result = result, !.rest = rest]

LEMMA AdvancedFields ==
  ASSUME NEW f \in Frames, NEW result \in SUBSET Ids, NEW rest \in SUBSET Ids,
         NEW h, h = Advanced(f, result, rest)
  PROVE  /\ h \in Frames /\ h.pred = f.pred /\ h.filter = f.filter
         /\ h.existence_map = f.existence_map /\ h.next = f.next + 1
         /\ h.result = result /\ h.rest = rest
         /\ OperandsOf(h) = OperandsOf(f) /\ KindOf(h) = KindOf(f)
  <1>1. f.next + 1 \in Nat
    BY DEF Frames
  <1>2. /\ h \in Frames /\ h.pred = f.pred /\ h.filter = f.filter
        /\ h.existence_map = f.existence_map /\ h.next = f.next + 1
        /\ h.result = result /\ h.rest = rest
    BY <1>1 DEF Frames, Advanced
  <1> QED
    BY <1>2 DEF OperandsOf, KindOf

LEMMA AfterOperandAdvances ==
  ASSUME NEW f \in Frames, NEW m
  PROVE  /\ KindOf(f) = "conjunction" => AfterOperand(f, m) = Advanced(f, f.result \cap m, f.rest)
         /\ KindOf(f) = "disjunction" =>
              AfterOperand(f, m) = Advanced(f, f.result \cup m, f.rest \cap Inverted(m))
         /\ KindOf(f) = "negation" =>
              AfterOperand(f, m) =
                Advanced(f, Intersected(Intersected(Inverted(m), f.filter), f.existence_map), f.rest)
  <1>1. \A result : [f EXCEPT !.next = @ + 1, !.result = result] = Advanced(f, result, f.rest)
    BY DEF Frames, Advanced
  <1>2. CASE KindOf(f) = "conjunction"
    <2>1. AfterOperand(f, m) = [f EXCEPT !.next = @ + 1, !.result = f.result \cap m]
      BY <1>2 DEF AfterOperand
    <2> QED
      BY <1>1, <1>2, <2>1
  <1>3. CASE KindOf(f) = "disjunction"
    BY <1>3 DEF AfterOperand, Advanced
  <1>4. CASE KindOf(f) = "negation"
    <2>1. AfterOperand(f, m) = [f EXCEPT !.next = @ + 1,
                 !.result = Intersected(Intersected(Inverted(m), f.filter), f.existence_map)]
      BY <1>4 DEF AfterOperand
    <2> QED
      BY <1>1, <1>4, <2>1
  <1> QED
    BY <1>2, <1>3, <1>4

\* An operand's answer keeps the frame of its caller right.
LEMMA AfterOperandOK ==
  ASSUME TreeInv, BatchOK, NEW f, FrameOK(f), IsLooping(f), NEW m,
         m = Wanted(OperandsOf(f)[f.next], FilterForOperand(f), f.existence_map)
  PROVE  /\ FrameOK(AfterOperand(f, m))
         /\ AfterOperand(f, m).pred = f.pred /\ AfterOperand(f, m).filter = f.filter
         /\ AfterOperand(f, m).existence_map = f.existence_map
  <1> DEFINE g == Given(f.filter, f.existence_map)
             asked == Given(FilterForOperand(f), f.existence_map)
             operands == OperandsOf(f)
             p == operands[f.next]
  <1>1. /\ f \in Frames /\ f.next \in 1 .. Len(operands) /\ Len(operands) \in Nat
        /\ Within(f.filter, f.existence_map) /\ IsComplete(f.pred) /\ ~IsImmediate(f.pred)
        /\ f.pred \in Nodes /\ f.result \subseteq Ids /\ f.rest \subseteq Ids /\ KindOf(f) \in Kinds
        /\ g \subseteq Ids
        /\ KindOf(f) = "negation" => Len(operands) = 1
    BY DynamicMeaning, GivenFacts DEF FrameOK, Frames, IsLooping, OperandsOf, KindOf
  <1>2. /\ m = { t \in asked : batch[t] \in Meaning(p) } /\ m \subseteq Ids
        /\ KindOf(f) = "conjunction" => asked = f.result
        /\ KindOf(f) = "negation" => asked = g
        /\ KindOf(f) = "disjunction" => asked \in {f.rest, g}
    BY OperandFilterOK, GivenFacts DEF Wanted
  <1>3. PICK h : h = AfterOperand(f, m)
    OBVIOUS
  <1>4. 1 .. (f.next + 1) - 1 = (1 .. f.next - 1) \cup {f.next}
    BY <1>1
  <1>5. CASE KindOf(f) = "conjunction"
    <2>1. h = Advanced(f, f.result \cap m, f.rest)
      BY <1>1, <1>3, <1>5, AfterOperandAdvances
    <2>2. /\ h \in Frames /\ h.pred = f.pred /\ h.filter = f.filter
          /\ h.existence_map = f.existence_map /\ h.next = f.next + 1 /\ h.result = f.result \cap m
          /\ OperandsOf(h) = OperandsOf(f) /\ KindOf(h) = KindOf(f)
      BY <1>1, <2>1, AdvancedFields
    <2>3. h.result = { t \in g : \A k \in 1 .. h.next - 1 : batch[t] \in Meaning(operands[k]) }
      BY <1>2, <1>4, <1>5, <2>2 DEF FrameOK
    <2> QED
      BY <1>1, <1>3, <1>5, <2>2, <2>3 DEF FrameOK
  <1>6. CASE KindOf(f) = "disjunction"
    <2>1. h = Advanced(f, f.result \cup m, f.rest \cap Inverted(m))
      BY <1>1, <1>3, <1>6, AfterOperandAdvances
    <2>2. /\ h \in Frames /\ h.pred = f.pred /\ h.filter = f.filter
          /\ h.existence_map = f.existence_map /\ h.next = f.next + 1
          /\ h.result = f.result \cup m /\ h.rest = f.rest \cap Inverted(m)
          /\ OperandsOf(h) = OperandsOf(f) /\ KindOf(h) = KindOf(f)
      <3>1. f.result \cup m \in SUBSET Ids /\ f.rest \cap Inverted(m) \in SUBSET Ids
        BY <1>1, <1>2
      <3> QED
        BY <1>1, <2>1, <3>1, AdvancedFields
    <2>3. /\ f.result = { t \in g : \E k \in 1 .. f.next - 1 : batch[t] \in Meaning(operands[k]) }
          /\ f.rest = g \ f.result
      BY <1>6 DEF FrameOK
    <2>4. f.result \cup m = f.result \cup { t \in g : batch[t] \in Meaning(p) }
      BY <1>2, <1>6, <2>3
    <2>5. h.result = { t \in g : \E k \in 1 .. h.next - 1 : batch[t] \in Meaning(operands[k]) }
      BY <1>4, <2>2, <2>3, <2>4
    <2>6. h.rest = g \ h.result
      BY <1>1, <2>2, <2>3 DEF Inverted
    <2> QED
      BY <1>1, <1>3, <1>6, <2>2, <2>5, <2>6 DEF FrameOK
  <1>7. CASE KindOf(f) = "negation"
    <2>1. Intersected(Intersected(Inverted(m), f.filter), f.existence_map) = g \ m
      BY <1>1 DEF Intersected, Inverted, Within, Given, Sequence
    <2>2. h = Advanced(f, g \ m, f.rest)
      BY <1>1, <1>3, <1>7, <2>1, AfterOperandAdvances
    <2>3. /\ h \in Frames /\ h.pred = f.pred /\ h.filter = f.filter
          /\ h.existence_map = f.existence_map /\ h.next = f.next + 1 /\ h.result = g \ m
          /\ OperandsOf(h) = OperandsOf(f) /\ KindOf(h) = KindOf(f)
      BY <1>1, <2>2, AdvancedFields
    <2>4. f.next = 1
      <3>1. f.next \in 1 .. Len(operands) /\ Len(operands) = 1
        BY <1>1, <1>7
      <3> HIDE DEF operands
      <3> QED
        BY <3>1
    <2>5. m = { t \in g : batch[t] \in Meaning(operands[1]) }
      BY <1>2, <1>7, <2>4
    <2>6. h.result = { t \in g : h.next = 2 /\ batch[t] \notin Meaning(operands[1]) }
      BY <2>3, <2>4, <2>5
    <2>7. h.next \in 1 .. Len(operands) + 1
      BY <1>1, <2>3
    <2> QED
      BY <1>1, <1>3, <1>7, <2>3, <2>6, <2>7 DEF FrameOK
  <1> QED
    BY <1>1, <1>5, <1>6, <1>7 DEF Kinds

\* What a call returns is what it was asked for.
LEMMA ResultOK ==
  ASSUME TreeInv, BatchOK, NEW f, FrameOK(f), ~IsLooping(f)
  PROVE  f.result = Wanted(f.pred, f.filter, f.existence_map)
  <1> DEFINE g == Given(f.filter, f.existence_map)
             operands == OperandsOf(f)
             n == Len(operands)
  <1>1. /\ f.pred \in Nodes /\ IsComplete(f.pred) /\ ~IsImmediate(f.pred)
        /\ f.next \in 1 .. n + 1 /\ n \in Nat /\ KindOf(f) \in Kinds
        /\ f.next = n + 1 \/ (KindOf(f) = "conjunction" /\ f.result = {})
        /\ \A t \in g : batch[t] \in Tuples
        /\ KindOf(f) = "negation" => n = 1
    <2>1. f.pred \in Nodes /\ IsComplete(f.pred) /\ ~IsImmediate(f.pred) /\ f.next \in 1 .. n + 1
      BY DEF FrameOK, Frames
    <2>2. /\ node[f.pred].kind \in Kinds /\ node[f.pred].dynamic_operand_list_ \in Seq(Predicate)
          /\ node[f.pred].kind = "negation" => Len(node[f.pred].dynamic_operand_list_) = 1
      BY <2>1, DynamicMeaning
    <2>3. n \in Nat /\ KindOf(f) \in Kinds /\ (KindOf(f) = "negation" => n = 1)
      BY <2>2 DEF OperandsOf, KindOf
    <2>4. f.next = n + 1 \/ (KindOf(f) = "conjunction" /\ f.result = {})
      <3>1. ~(f.next <= n) \/ (KindOf(f) = "conjunction" /\ f.result = {})
        BY DEF IsLooping
      <3> HIDE DEF n
      <3> QED
        BY <2>1, <2>3, <3>1
    <2>5. \A t \in g : batch[t] \in Tuples
      <3>1. Within(f.filter, f.existence_map)
        BY DEF FrameOK
      <3> QED
        BY <3>1, GivenFacts, IdsFacts
    <2> QED
      BY <2>1, <2>3, <2>4, <2>5
  <1>2. CASE KindOf(f) = "conjunction"
    <2>1. Meaning(f.pred) = { t \in Tuples : \A k \in 1 .. n : t \in Meaning(operands[k]) }
      BY <1>1, <1>2, DynamicMeaning DEF OperandsOf, KindOf
    <2>2. f.result = { t \in g : \A k \in 1 .. f.next - 1 : batch[t] \in Meaning(operands[k]) }
      BY <1>2 DEF FrameOK
    <2>3. CASE f.next = n + 1
      BY <1>1, <2>1, <2>2, <2>3 DEF Wanted
    <2>4. CASE f.result = {}
      <3>1. \A t \in g : \E k \in 1 .. n : batch[t] \notin Meaning(operands[k])
        BY <1>1, <2>2, <2>4
      <3> QED
        BY <2>1, <2>4, <3>1 DEF Wanted
    <2> QED
      BY <1>1, <2>3, <2>4
  <1>3. CASE KindOf(f) = "disjunction"
    <2>1. Meaning(f.pred) = { t \in Tuples : \E k \in 1 .. n : t \in Meaning(operands[k]) }
      BY <1>1, <1>3, DynamicMeaning DEF OperandsOf, KindOf
    <2>2. f.result = { t \in g : \E k \in 1 .. n : batch[t] \in Meaning(operands[k]) }
      BY <1>1, <1>3 DEF FrameOK
    <2> QED
      BY <1>1, <2>1, <2>2 DEF Wanted
  <1>4. CASE KindOf(f) = "negation"
    <2>1. Meaning(f.pred) = { t \in Tuples : t \notin Meaning(operands[1]) }
      BY <1>1, <1>4, DynamicMeaning DEF OperandsOf, KindOf
    <2>2. f.next = 2
      <3>1. f.next = n + 1 /\ n = 1
        BY <1>1, <1>4
      <3> HIDE DEF n
      <3> QED
        BY <3>1
    <2>3. f.result = { t \in g : batch[t] \notin Meaning(operands[1]) }
      BY <1>4, <2>2 DEF FrameOK
    <2> QED
      BY <1>1, <2>1, <2>3 DEF Wanted
  <1> QED
    BY <1>1, <1>2, <1>3, <1>4 DEF Kinds

-----------------------------------------------------------------------------
(***************************************************************************)
(* The branches of a CASE.                                                 *)
(***************************************************************************)
\* The branch that a CHOOSE of the least one picks exists.
LEMMA Minimum ==
  ASSUME NEW S \in SUBSET Nat, S # {}
  PROVE  \E k \in S : \A i \in S : k <= i
  <1> DEFINE R == OpToRel(<, Nat)
  <1>1. IsWellFoundedOn(R, Nat)
    BY NatLessThanWellFounded
  <1>2. \A x \in Nat, y \in Nat : x < y => <<x, y>> \in R
    BY DEF OpToRel
  <1> HIDE DEF R
  <1>3. PICK k \in S : \A i \in S : ~(<<i, k>> \in R)
    BY <1>1, WFMin
  <1>4. \A i \in S : ~(i < k)
    BY <1>2, <1>3
  <1> QED
    BY <1>4

\* The branch of a tuple is that of the first WHEN it satisfies, or ELSE.
LEMMA FirstMatchFacts ==
  ASSUME NEW e \in Seq(Predicate), NEW t
  PROVE  /\ FirstMatch(e, t) \in 1 .. Len(e) + 1
         /\ FirstMatch(e, t) <= Len(e) => t \in Meaning(e[FirstMatch(e, t)])
         /\ \A k \in 1 .. Len(e) : t \in Meaning(e[k]) => FirstMatch(e, t) <= k
  <1> DEFINE matching == { k \in DOMAIN e : t \in Meaning(e[k]) }
  <1>1. DOMAIN e = 1 .. Len(e) /\ Len(e) \in Nat
    OBVIOUS
  <1>2. CASE matching = {}
    <2>1. FirstMatch(e, t) = Len(e) + 1
        BY <1>2 DEF FirstMatch, Else
    <2> QED
      BY <1>1, <1>2, <2>1
  <1>3. CASE matching # {}
    <2>1. \E k \in matching : \A i \in matching : k <= i
      <3>1. matching \in SUBSET Nat
        BY <1>1
      <3> HIDE DEF matching
      <3> QED
        BY <1>3, <3>1, Minimum
    <2>2. FirstMatch(e, t) = CHOOSE k \in matching : \A i \in matching : k <= i
      BY <1>3 DEF FirstMatch
    <2>3. FirstMatch(e, t) \in matching /\ \A i \in matching : FirstMatch(e, t) <= i
      BY <2>1, <2>2
    <2> QED
      BY <1>1, <2>3
  <1> QED
    BY <1>2, <1>3

-----------------------------------------------------------------------------
(***************************************************************************)
(* The invariant of next().                                                *)
(***************************************************************************)
GoodFrames == { f \in Frames : FrameOK(f) }

\* A call and the call it makes.
Calls ==
  { c \in GoodFrames \X GoodFrames :
      /\ IsLooping(c[1])
      /\ c[2].pred = OperandsOf(c[1])[c[1].next]
      /\ c[2].filter = FilterForOperand(c[1])
      /\ c[2].existence_map = c[1].existence_map }

\* What next() or a CASE asks of getAllMatches().
Asked ==
  IF pc = "filter"
  THEN [pred |-> select_spec_.predicates[filters + 1], filter |-> filter_result,
        existence_map |-> NULL]
  ELSE [pred |-> when_predicates[Len(case_matches) + 1], filter |-> else_matches,
        existence_map |-> accessor_sequence]

AskedOK ==
  /\ Asked.pred \in Predicate /\ IsComplete(Asked.pred)
  /\ Within(Asked.filter, Asked.existence_map)

Answer == Wanted(Asked.pred, Asked.filter, Asked.existence_map)

CallInv ==
  /\ stack \in Seq(GoodFrames)
  /\ \A k \in 1 .. Len(stack) - 1 : <<stack[k], stack[k + 1]>> \in Calls
  /\ stack # <<>> => /\ matches = NULL
                     /\ stack[1].pred = Asked.pred /\ stack[1].filter = Asked.filter
                     /\ stack[1].existence_map = Asked.existence_map
  /\ matches # NULL => matches = Answer

SpecOK ==
  /\ select_spec_.predicates \in Seq(Predicate)
  /\ \A k \in 1 .. Len(select_spec_.predicates) : IsComplete(select_spec_.predicates[k])
  /\ select_spec_.select_expressions \in Seq(Seq(Predicate))
  /\ \A c \in 1 .. Len(select_spec_.select_expressions) :
       \A k \in 1 .. Len(select_spec_.select_expressions[c]) :
         IsComplete(select_spec_.select_expressions[c][k])
  /\ select_spec_.simple_projection_ => select_spec_.select_expressions = <<>>

OperatorInv ==
  /\ short_circuit \in BOOLEAN
  /\ BatchOK /\ inputs \in Seq(BatchSet)
  /\ \E S : outputs \in Seq(S)
  /\ \E S : columns \in Seq(S)
  /\ pc \in {"ready", "input", "filter", "select"}
  /\ values_pc \in {"idle", "match", "evaluate", "multiplex", "done"}
  /\ pc # "ready" => select_spec_ # NULL
  /\ select_spec_ # NULL => SpecOK
  /\ filter_result \in Sequence /\ filters \in Nat
  /\ pc = "filter" => filters <= Len(select_spec_.predicates)
  /\ values_pc # "idle" => pc = "select" /\ select_spec_.select_expressions # <<>>
  /\ stack # <<>> \/ matches # NULL =>
       \/ pc = "filter" /\ filters < Len(select_spec_.predicates)
       \/ /\ values_pc = "match" /\ Len(case_matches) < Len(when_predicates)
          /\ else_matches # {}

CaseInv ==
  /\ when_predicates \in Seq(Predicate)
  /\ \A k \in 1 .. Len(when_predicates) : IsComplete(when_predicates[k])
  /\ accessor_sequence \in Sequence
  /\ else_matches \in SUBSET Ids
  /\ case_matches \in Seq(SUBSET Ids)
  /\ multiplexed \in Nat
  /\ values_pc = "idle" => /\ when_predicates = <<>> /\ accessor_sequence = NULL
                           /\ else_matches = {} /\ case_matches = <<>>
  /\ BranchesPartition

SelectInv == TreeInv /\ OperatorInv /\ CaseInv /\ CallInv /\ FilterIsMeant

-----------------------------------------------------------------------------
(* The calls.                                                              *)

LEMMA SameFrames ==
  ASSUME UNCHANGED <<node, meaning, short_circuit, batch>>
  PROVE  GoodFrames' = GoodFrames /\ Calls' = Calls
  <1>1. Ids' = Ids /\ Frames' = Frames /\ Sequence' = Sequence
    BY DEF Ids, Frames, Sequence
  <1>2. \A p : IsComplete(p)' <=> IsComplete(p)
    BY DEF IsComplete, Operands
  <1>3. \A p : IsImmediate(p)' <=> IsImmediate(p)
    BY DEF IsImmediate
  <1>4. \A p : Meaning(p)' = Meaning(p)
    BY DEF Meaning
  <1>5. \A f : OperandsOf(f)' = OperandsOf(f) /\ KindOf(f)' = KindOf(f)
    BY DEF OperandsOf, KindOf
  <1>6. \A filter, map : /\ Given(filter, map)' = Given(filter, map)
                         /\ Within(filter, map)' <=> Within(filter, map)
    BY <1>1 DEF Given, Within
  <1>7. \A f : IsLooping(f)' <=> IsLooping(f)
    BY <1>5 DEF IsLooping
  <1>8. \A f : FilterForOperand(f)' = FilterForOperand(f)
    BY <1>5 DEF FilterForOperand
  <1>9. \A f : FrameOK(f)' <=> FrameOK(f)
    BY <1>1, <1>2, <1>3, <1>4, <1>5, <1>6 DEF FrameOK
  <1>10. GoodFrames' = GoodFrames
    BY <1>1, <1>9 DEF GoodFrames
  <1> QED
    BY <1>5, <1>7, <1>8, <1>10 DEF Calls

LEMMA FrameFacts ==
  ASSUME NEW f \in GoodFrames
  PROVE  /\ f \in Frames /\ FrameOK(f)
         /\ f.pred \in Nodes /\ f.result \in SUBSET Ids /\ Within(f.filter, f.existence_map)
  BY DEF GoodFrames, FrameOK, Frames

LEMMA FrameIsGood == ASSUME NEW f, FrameOK(f) PROVE f \in GoodFrames
  BY DEF GoodFrames, FrameOK

LEMMA StackTop ==
  ASSUME stack \in Seq(GoodFrames), stack # <<>>
  PROVE  /\ Len(stack) \in Nat \ {0} /\ Top = stack[Len(stack)]
         /\ \A k \in 1 .. Len(stack) : stack[k] \in GoodFrames
         /\ Top \in GoodFrames /\ FrameOK(Top)
  <1>1. /\ Len(stack) \in Nat \ {0} /\ Top = stack[Len(stack)]
        /\ \A k \in 1 .. Len(stack) : stack[k] \in GoodFrames
    BY DEF Top
  <1> QED
    BY <1>1, FrameFacts

\* The call from outside.
LEMMA CallStarts ==
  ASSUME TreeInv, BatchOK, AskedOK, stack = <<>>,
         getAllMatches(Asked.pred, Asked.filter, Asked.existence_map), Asked' = Asked
  PROVE  CallInv'
  <1> DEFINE p == Asked.pred
             f == NewFrame(p, Asked.filter, Asked.existence_map)
  <1>1. GoodFrames' = GoodFrames /\ Calls' = Calls
    BY SameFrames DEF getAllMatches
  <1>2. CASE IsImmediate(p)
    <2>1. /\ stack' = <<>>
          /\ matches' = ImmediateMatches(p, Asked.filter, Asked.existence_map)
      BY <1>2 DEF getAllMatches
    <2>2. matches' = Answer
      BY <1>2, <2>1, ImmediateOK DEF AskedOK, Answer
    <2>3. Answer' = Answer
      BY DEF Answer, Wanted, Given, Ids, Meaning, getAllMatches
    <2> QED
      BY <1>1, <2>1, <2>2, <2>3 DEF CallInv
  <1>3. CASE ~IsImmediate(p)
    <2>1. stack' = <<f>> /\ matches' = NULL
      BY <1>3 DEF getAllMatches
    <2>2. /\ f \in GoodFrames /\ f.pred = p /\ f.filter = Asked.filter
          /\ f.existence_map = Asked.existence_map
      BY <1>3, NewFrameOK, FrameIsGood DEF AskedOK
    <2> HIDE DEF f
    <2>3. stack' \in Seq(GoodFrames) /\ Len(stack') = 1 /\ stack'[1] = f
      BY <2>1, <2>2
    <2> QED
      BY <1>1, <2>1, <2>2, <2>3 DEF CallInv
  <1> QED
    BY <1>2, <1>3

\* One turn of a loop over operands.
LEMMA CallAdvances ==
  ASSUME TreeInv, BatchOK, CallInv, Asked' = Asked, EvaluateOperand
  PROVE  CallInv'
  <1> DEFINE n == Len(stack)
             m == ImmediateMatches(CurrentOperand, FilterForOperand(Top), Top.existence_map)
             h == AfterOperand(Top, m)
  <1>1. GoodFrames' = GoodFrames /\ Calls' = Calls
    BY SameFrames DEF EvaluateOperand
  <1>2. /\ stack # <<>> /\ IsLooping(Top) /\ IsImmediate(CurrentOperand)
        /\ stack' = [stack EXCEPT ![n] = h] /\ matches' = matches
    BY DEF EvaluateOperand, Top
  <1>3. /\ n \in Nat \ {0} /\ Top = stack[n] /\ Top \in GoodFrames /\ FrameOK(Top)
        /\ \A k \in 1 .. n : stack[k] \in GoodFrames
        /\ stack \in Seq(GoodFrames)
    BY <1>2, StackTop DEF CallInv
  <1>4. m = Wanted(CurrentOperand, FilterForOperand(Top), Top.existence_map)
    BY <1>2, <1>3, OperandFilterOK, ImmediateOK DEF CurrentOperand
  <1>5. /\ h \in GoodFrames /\ h.pred = Top.pred /\ h.filter = Top.filter
        /\ h.existence_map = Top.existence_map
    BY <1>2, <1>3, <1>4, AfterOperandOK, FrameIsGood DEF CurrentOperand
  <1> HIDE DEF m, h
  <1>6. /\ stack' \in Seq(GoodFrames) /\ Len(stack') = n /\ stack'[n] = h
        /\ \A k \in 1 .. n - 1 : stack'[k] = stack[k]
    BY <1>2, <1>3, <1>5
  <1>7. \A k \in 1 .. n - 1 : <<stack'[k], stack'[k + 1]>> \in Calls
    <2> SUFFICES ASSUME NEW k \in 1 .. n - 1
                 PROVE  <<stack'[k], stack'[k + 1]>> \in Calls
      OBVIOUS
    <2>1. <<stack[k], stack[k + 1]>> \in Calls
      BY DEF CallInv
    <2>2. CASE k = n - 1
      <3>1. stack'[k] = stack[k] /\ stack'[k + 1] = h /\ stack[k + 1] = Top
        BY <1>3, <1>6, <2>2
      <3> QED
        BY <1>5, <2>1, <3>1 DEF Calls
    <2>3. CASE k # n - 1
      <3>1. stack'[k] = stack[k] /\ stack'[k + 1] = stack[k + 1]
        BY <1>3, <1>6, <2>3
      <3> QED
        BY <2>1, <3>1
    <2> QED
      BY <2>2, <2>3
  <1>8. /\ stack'[1].pred = stack[1].pred /\ stack'[1].filter = stack[1].filter
        /\ stack'[1].existence_map = stack[1].existence_map
    <2>1. CASE n = 1
      BY <1>3, <1>5, <1>6, <2>1
    <2>2. CASE n # 1
      <3>1. stack'[1] = stack[1]
        BY <1>3, <1>6, <2>2
      <3> QED
        BY <3>1
    <2> QED
      BY <2>1, <2>2
  <1>9. matches' = NULL
    BY <1>2 DEF CallInv
  <1>10. /\ stack[1].pred = Asked.pred /\ stack[1].filter = Asked.filter
         /\ stack[1].existence_map = Asked.existence_map
    BY <1>2 DEF CallInv
  <1> QED
    BY <1>1, <1>6, <1>7, <1>8, <1>9, <1>10 DEF CallInv

\* An operand that is itself a list or a negation is called.
LEMMA CallDeepens ==
  ASSUME TreeInv, BatchOK, CallInv, Asked' = Asked, CallOperand
  PROVE  CallInv'
  <1> DEFINE n == Len(stack)
             h == NewFrame(CurrentOperand, FilterForOperand(Top), Top.existence_map)
  <1>1. GoodFrames' = GoodFrames /\ Calls' = Calls
    BY SameFrames DEF CallOperand
  <1>2. /\ stack # <<>> /\ IsLooping(Top) /\ ~IsImmediate(CurrentOperand)
        /\ stack' = Append(stack, h) /\ matches' = matches
    BY DEF CallOperand
  <1>3. /\ n \in Nat \ {0} /\ Top = stack[n] /\ Top \in GoodFrames /\ FrameOK(Top)
        /\ \A k \in 1 .. n : stack[k] \in GoodFrames
        /\ stack \in Seq(GoodFrames)
    BY <1>2, StackTop DEF CallInv
  <1>4. /\ h \in GoodFrames /\ h.pred = CurrentOperand /\ h.filter = FilterForOperand(Top)
        /\ h.existence_map = Top.existence_map
    BY <1>2, <1>3, OperandFilterOK, NewFrameOK, FrameIsGood DEF CurrentOperand
  <1> HIDE DEF h
  <1>5. /\ stack' \in Seq(GoodFrames) /\ Len(stack') = n + 1 /\ stack'[n + 1] = h
        /\ \A k \in 1 .. n : stack'[k] = stack[k]
    BY <1>2, <1>3, <1>4
  <1>6. <<Top, h>> \in Calls
    BY <1>2, <1>3, <1>4 DEF Calls, CurrentOperand
  <1>7. \A k \in 1 .. n : <<stack'[k], stack'[k + 1]>> \in Calls
    <2> SUFFICES ASSUME NEW k \in 1 .. n
                 PROVE  <<stack'[k], stack'[k + 1]>> \in Calls
      OBVIOUS
    <2>1. CASE k = n
      <3>1. stack'[k] = Top /\ stack'[k + 1] = h
        BY <1>3, <1>5, <2>1
      <3> QED
        BY <1>6, <3>1
    <2>2. CASE k # n
      <3>1. k \in 1 .. n - 1 /\ stack'[k] = stack[k] /\ stack'[k + 1] = stack[k + 1]
        BY <1>3, <1>5, <2>2
      <3> QED
        BY <3>1 DEF CallInv
    <2> QED
      BY <2>1, <2>2
  <1>8. stack'[1] = stack[1] /\ Len(stack') - 1 = n
    BY <1>3, <1>5
  <1>9. /\ matches' = NULL
        /\ stack[1].pred = Asked.pred /\ stack[1].filter = Asked.filter
        /\ stack[1].existence_map = Asked.existence_map
    BY <1>2 DEF CallInv
  <1> QED
    BY <1>1, <1>5, <1>7, <1>8, <1>9 DEF CallInv

\* A call answers the call that made it, or the caller from outside.
LEMMA CallReturns ==
  ASSUME TreeInv, BatchOK, CallInv, Asked' = Asked, Return
  PROVE  CallInv'
  <1> DEFINE n == Len(stack)
             f == stack[n - 1]
             h == AfterOperand(f, Top.result)
  <1>1. GoodFrames' = GoodFrames /\ Calls' = Calls
    BY SameFrames DEF Return
  <1>2. stack # <<>> /\ ~IsLooping(Top)
    BY DEF Return
  <1>3. /\ n \in Nat \ {0} /\ Top = stack[n] /\ Top \in GoodFrames /\ FrameOK(Top)
        /\ \A k \in 1 .. n : stack[k] \in GoodFrames
        /\ stack \in Seq(GoodFrames)
    BY <1>2, StackTop DEF CallInv
  <1>4. Top.result = Wanted(Top.pred, Top.filter, Top.existence_map)
    BY <1>2, <1>3, ResultOK
  <1>5. /\ matches = NULL
        /\ stack[1].pred = Asked.pred /\ stack[1].filter = Asked.filter
        /\ stack[1].existence_map = Asked.existence_map
    BY <1>2 DEF CallInv
  <1>6. CASE n = 1
    <2>1. stack' = <<>> /\ matches' = Top.result
      BY <1>6 DEF Return
    <2>2. Top.result = Answer
      BY <1>3, <1>4, <1>5, <1>6 DEF Answer
    <2>3. Answer' = Answer
      BY DEF Answer, Wanted, Given, Ids, Meaning, Return
    <2> QED
      BY <2>1, <2>2, <2>3, <1>1 DEF CallInv
  <1>7. CASE n # 1
    <2>1. /\ stack' = [k \in 1 .. n - 1 |-> IF k = n - 1 THEN h ELSE stack[k]]
          /\ matches' = matches
      BY <1>7 DEF Return
    <2>2. <<f, Top>> \in Calls /\ f \in GoodFrames
      <3>1. n - 1 \in 1 .. n - 1 /\ (n - 1) + 1 = n
        <4>1. n \in Nat \ {0} /\ n # 1
          BY <1>3, <1>7
        <4> HIDE DEF n
        <4> QED
          BY <4>1
      <3>2. <<stack[n - 1], stack[(n - 1) + 1]>> \in Calls
        BY <3>1 DEF CallInv
      <3> QED
        BY <1>3, <3>1, <3>2
    <2>3. /\ FrameOK(f) /\ IsLooping(f)
          /\ Top.result = Wanted(OperandsOf(f)[f.next], FilterForOperand(f), f.existence_map)
      BY <1>4, <2>2, FrameFacts DEF Calls
    <2>4. /\ h \in GoodFrames /\ h.pred = f.pred /\ h.filter = f.filter
          /\ h.existence_map = f.existence_map
      BY <2>3, AfterOperandOK, FrameIsGood
    <2> HIDE DEF h
    <2>5. /\ stack' \in Seq(GoodFrames) /\ Len(stack') = n - 1 /\ stack'[n - 1] = h
          /\ \A k \in 1 .. n - 2 : stack'[k] = stack[k]
      <3>1. PICK l : l = n
        OBVIOUS
      <3>2. l \in Nat \ {0, 1} /\ \A k \in 1 .. l : stack[k] \in GoodFrames
        BY <1>3, <1>7, <3>1
      <3>3. stack' = [k \in 1 .. l - 1 |-> IF k = l - 1 THEN h ELSE stack[k]]
        BY <2>1, <3>1
      <3>4. l - 1 \in Nat /\ stack' \in [1 .. l - 1 -> GoodFrames]
        BY <2>4, <3>2, <3>3
      <3>5. stack' \in Seq(GoodFrames) /\ Len(stack') = l - 1
        BY <3>4
      <3> QED
        BY <3>1, <3>2, <3>3, <3>5
    <2>6. \A k \in 1 .. (n - 1) - 1 : <<stack'[k], stack'[k + 1]>> \in Calls
      <3> SUFFICES ASSUME NEW k \in 1 .. (n - 1) - 1
                   PROVE  <<stack'[k], stack'[k + 1]>> \in Calls
        OBVIOUS
      <3>1. k \in 1 .. n - 2 /\ k \in 1 .. n - 1 /\ stack'[k] = stack[k]
        BY <1>3, <2>5
      <3>2. <<stack[k], stack[k + 1]>> \in Calls
        BY <3>1 DEF CallInv
      <3>3. CASE k = n - 2
        <4>1. stack'[k + 1] = h /\ stack[k + 1] = f
          BY <1>3, <2>5, <3>3
        <4> QED
          BY <2>4, <3>1, <3>2, <4>1 DEF Calls
      <3>4. CASE k # n - 2
        <4>1. stack'[k + 1] = stack[k + 1]
          BY <1>3, <2>5, <3>4
        <4> QED
          BY <3>1, <3>2, <4>1
      <3> QED
        BY <3>3, <3>4
    <2>7. /\ stack'[1].pred = stack[1].pred /\ stack'[1].filter = stack[1].filter
          /\ stack'[1].existence_map = stack[1].existence_map
      <3>1. CASE n = 2
        BY <1>3, <2>4, <2>5, <3>1
      <3>2. CASE n # 2
        <4>1. stack'[1] = stack[1]
          BY <1>3, <1>7, <2>5, <3>2
        <4> QED
          BY <4>1
      <3> QED
        BY <3>1, <3>2
    <2> QED
      BY <1>1, <1>5, <2>1, <2>5, <2>6, <2>7 DEF CallInv
  <1> QED
    BY <1>6, <1>7

\* Nothing has been asked, or what was asked has been taken.
LEMMA NoCall == ASSUME stack' = <<>>, matches' = NULL PROVE CallInv'
  BY DEF CallInv

LEMMA CallStays ==
  ASSUME CallInv, UNCHANGED predicateVars, Asked' = Asked
  PROVE  CallInv'
  <1>1. GoodFrames' = GoodFrames /\ Calls' = Calls
    BY SameFrames DEF predicateVars
  <1>2. Answer' = Answer /\ stack' = stack /\ matches' = matches
    BY DEF Answer, Wanted, Given, Ids, Meaning, predicateVars
  <1> QED
    BY <1>1, <1>2 DEF CallInv

-----------------------------------------------------------------------------
(***************************************************************************)
(* The steps of next().                                                    *)
(***************************************************************************)
LEMMA SamePredicates ==
  ASSUME UNCHANGED <<node, meaning>>
  PROVE  /\ \A p : IsComplete(p)' <=> IsComplete(p)
         /\ \A p : Meaning(p)' = Meaning(p)
         /\ \A e, t : FirstMatch(e, t)' = FirstMatch(e, t)
  <1>1. \A p : IsComplete(p)' <=> IsComplete(p)
    BY DEF IsComplete, Operands
  <1>2. \A p : Meaning(p)' = Meaning(p)
    BY DEF Meaning
  <1>3. \A e, t : FirstMatch(e, t)' = FirstMatch(e, t)
    <2> SUFFICES ASSUME NEW e, NEW t PROVE FirstMatch(e, t)' = FirstMatch(e, t)
      OBVIOUS
    <2> DEFINE matching == { k \in DOMAIN e : t \in Meaning(e[k]) }
    <2>1. matching' = matching
      BY <1>2
    <2>2. FirstMatch(e, t) = IF matching = {} THEN Len(e) + 1
                             ELSE CHOOSE k \in matching : \A i \in matching : k <= i
      BY DEF FirstMatch, Else
    <2>3. FirstMatch(e, t)' = IF matching' = {} THEN Len(e) + 1
                             ELSE CHOOSE k \in matching' : \A i \in matching' : k <= i
      BY DEF FirstMatch, Else
    <2> HIDE DEF matching
    <2> QED
      BY <2>1, <2>2, <2>3
  <1> QED
    BY <1>1, <1>2, <1>3

LEMMA SameSpec ==
  ASSUME UNCHANGED <<node, meaning, select_spec_>>
  PROVE  SpecOK' <=> SpecOK
  BY SamePredicates DEF SpecOK

LEMMA SameCase ==
  ASSUME CaseInv, UNCHANGED <<node, meaning, batch, caseVars>>
  PROVE  CaseInv'
  <1>1. /\ Ids' = Ids /\ Sequence' = Sequence /\ AccessorIds' = AccessorIds
        /\ UNCHANGED <<values_pc, when_predicates, accessor_sequence, else_matches, case_matches,
                       multiplexed>>
    BY DEF Ids, Sequence, AccessorIds, Given, caseVars
  <1>2. BranchesPartition' <=> BranchesPartition
    BY <1>1, SamePredicates DEF BranchesPartition
  <1> QED
    BY <1>1, <1>2, SamePredicates DEF CaseInv

LEMMA NoCase ==
  ASSUME values_pc' = "idle", when_predicates' = <<>>, accessor_sequence' = NULL,
         else_matches' = {}, case_matches' = <<>>, multiplexed' \in Nat
  PROVE  CaseInv'
  BY DEF CaseInv, BranchesPartition, Sequence

LEMMA SameFilter ==
  ASSUME FilterIsMeant, UNCHANGED <<node, meaning, batch, select_spec_, filter_result, filters>>,
         pc' \in {"filter", "select"} => pc \in {"filter", "select"}
  PROVE  FilterIsMeant'
  <1>1. Ids' = Ids /\ \A p : Meaning(p)' = Meaning(p)
    BY SamePredicates DEF Ids
  <1> QED
    BY <1>1 DEF FilterIsMeant, Given

LEMMA NoFilter == ASSUME pc' \in {"ready", "input"} PROVE FilterIsMeant'
  BY DEF FilterIsMeant

\* While nothing is called and no CASE is evaluated.
LEMMA QuietFacts ==
  ASSUME SelectInv, pc \in {"ready", "input"}
  PROVE  /\ stack = <<>> /\ matches = NULL /\ values_pc = "idle"
         /\ when_predicates = <<>> /\ accessor_sequence = NULL
         /\ else_matches = {} /\ case_matches = <<>> /\ multiplexed \in Nat
  BY DEF SelectInv, OperatorInv, CaseInv

LEMMA BuildStep ==
  ASSUME SelectInv, Build
  PROVE  OperatorInv' /\ CaseInv' /\ CallInv' /\ FilterIsMeant'
  <1>1. /\ select_spec_ = NULL /\ pc = "ready"
        /\ UNCHANGED <<short_circuit, batch, stack, matches, values_pc, when_predicates,
             accessor_sequence, else_matches, case_matches, multiplexed, select_spec_, pc, inputs,
             outputs, filter_result, filters, columns>>
    BY DEF SelectInv, OperatorInv, Build, caseVars, operatorVars
  <1>2. /\ stack = <<>> /\ matches = NULL /\ values_pc = "idle"
        /\ when_predicates = <<>> /\ accessor_sequence = NULL
        /\ else_matches = {} /\ case_matches = <<>> /\ multiplexed \in Nat
    BY <1>1, QuietFacts
  <1>3. OperatorInv'
    BY <1>1, <1>2 DEF SelectInv, OperatorInv, BatchOK, Sequence, Ids
  <1> QED
    BY <1>1, <1>2, <1>3, NoCase, NoCall, NoFilter

\* What a spec is made of.
LEMMA SpecsFacts ==
  ASSUME NEW spec \in Specs
  PROVE  /\ spec.predicates \in Seq(Predicate)
         /\ \A k \in 1 .. Len(spec.predicates) : IsComplete(spec.predicates[k])
         /\ spec.select_expressions \in Seq(Seq(Predicate))
         /\ \A c \in 1 .. Len(spec.select_expressions) :
              \A k \in 1 .. Len(spec.select_expressions[c]) :
                IsComplete(spec.select_expressions[c][k])
         /\ spec.simple_projection_ => spec.select_expressions = <<>>
  <1> DEFINE Complete == { p \in Predicate : IsComplete(p) }
  <1>1. \A s \in Filterings : s \in Seq(Complete)
    <2> SUFFICES ASSUME NEW s \in Filterings PROVE s \in Seq(Complete)
      OBVIOUS
    <2> DEFINE complete == { p \in { q \in Nodes : node[q] # NULL /\ IsRoot(q) } \cup BareLeaves :
                               IsComplete(p) }
    <2>1. PICK n \in 0 .. MaxPredicates : s \in [1 .. n -> complete]
      BY DEF Filterings
    <2>2. complete \subseteq Complete
      BY BareLeavesAssumption DEF Predicate
    <2>3. n \in Nat
      BY <2>1
    <2> HIDE DEF complete, Complete
    <2>4. s \in [1 .. n -> Complete]
      BY <2>1, <2>2
    <2> QED
      BY <2>3, <2>4
  <1>2. CASE spec \in [predicates : Filterings, select_expressions : {<<>>},
                       simple_projection_ : {TRUE}]
    <2>1. /\ spec.predicates \in Seq(Complete) /\ spec.select_expressions = <<>>
      BY <1>1, <1>2
    <2> QED
      BY <2>1
  <1>3. CASE \E s \in Filterings : \E n \in 0 .. Len(s) :
               spec = [predicates |-> SubSeq(s, 1, n),
                       select_expressions |-> <<SubSeq(s, n + 1, Len(s)), <<>> >>,
                       simple_projection_ |-> FALSE]
    <2>1. PICK s \in Filterings : \E n \in 0 .. Len(s) :
               spec = [predicates |-> SubSeq(s, 1, n),
                       select_expressions |-> <<SubSeq(s, n + 1, Len(s)), <<>> >>,
                       simple_projection_ |-> FALSE]
      BY <1>3
    <2>2. PICK n \in 0 .. Len(s) :
               spec = [predicates |-> SubSeq(s, 1, n),
                       select_expressions |-> <<SubSeq(s, n + 1, Len(s)), <<>> >>,
                       simple_projection_ |-> FALSE]
      BY <2>1
    <2>3. s \in Seq(Complete) /\ Len(s) \in Nat /\ n \in Nat /\ \A k \in 1 .. Len(s) : s[k] \in Complete
      BY <1>1
    <2>4. SubSeq(s, 1, n) \in Seq(Complete)
      <3>1. \A k \in 1 .. n : s[k] \in Complete
        BY <2>3
      <3> HIDE DEF Complete
      <3> QED
        BY <2>3, <3>1, SubSeqProperties
    <2>5. SubSeq(s, n + 1, Len(s)) \in Seq(Complete)
      <3>1. \A k \in n + 1 .. Len(s) : s[k] \in Complete
        BY <2>3
      <3> HIDE DEF Complete
      <3> QED
        BY <2>3, <3>1, SubSeqProperties
    <2>6. /\ spec.predicates \in Seq(Complete)
          /\ spec.select_expressions \in Seq(Seq(Complete))
          /\ ~spec.simple_projection_
      <3>1. PICK e : e = SubSeq(s, n + 1, Len(s))
        OBVIOUS
      <3> HIDE DEF Complete
      <3>2. e \in Seq(Complete) /\ <<>> \in Seq(Complete)
        BY <2>5, <3>1
      <3>3. << e, <<>> >> \in Seq(Seq(Complete))
        BY <3>2
      <3> QED
        BY <2>2, <2>4, <3>1, <3>3
    <2>7. \A c \in 1 .. Len(spec.select_expressions) : spec.select_expressions[c] \in Seq(Complete)
      BY <2>6
    <2> QED
      BY <2>6, <2>7
  <1> QED
    BY <1>2, <1>3 DEF Specs

LEMMA OpenStep ==
  ASSUME SelectInv, open
  PROVE  OperatorInv' /\ CaseInv' /\ CallInv' /\ FilterIsMeant'
  <1>1. /\ pc = "ready"
        /\ UNCHANGED <<node, meaning, short_circuit, batch, stack, matches, caseVars, values_pc,
             case_matches, when_predicates, pc, inputs, outputs, filter_result, filters, columns>>
    BY DEF SelectInv, OperatorInv, open, predicateVars, caseVars
  <1>2. stack = <<>> /\ matches = NULL /\ values_pc = "idle"
    BY <1>1, QuietFacts
  <1>3. SpecOK'
    <2>1. PICK spec : spec = select_spec_'
      OBVIOUS
    <2>2. spec \in Specs
      BY <2>1 DEF open
    <2> QED
      BY <1>1, <2>1, <2>2, SpecsFacts, SamePredicates DEF SpecOK
  <1>4. OperatorInv'
    BY <1>1, <1>2, <1>3 DEF SelectInv, OperatorInv, BatchOK, Sequence, Ids
  <1> QED
    BY <1>1, <1>2, <1>4, SameCase, NoCall, NoFilter DEF SelectInv

LEMMA NextStep ==
  ASSUME SelectInv, NEW batches \in Inputs, next(batches)
  PROVE  OperatorInv' /\ CaseInv' /\ CallInv' /\ FilterIsMeant'
  <1>1. /\ pc = "ready" /\ select_spec_ # NULL /\ pc' = "input" /\ inputs' = batches
        /\ outputs' = <<>>
        /\ UNCHANGED <<node, meaning, short_circuit, batch, stack, matches, caseVars, values_pc,
             case_matches, when_predicates, select_spec_, filter_result, filters, columns>>
    BY DEF next, predicateVars, caseVars
  <1>2. stack = <<>> /\ matches = NULL /\ values_pc = "idle"
    BY <1>1, QuietFacts
  <1>3. SpecOK' /\ inputs' \in Seq(BatchSet) /\ \E S : outputs' \in Seq(S)
    <2>1. SpecOK /\ outputs' \in Seq({})
      BY <1>1 DEF SelectInv, OperatorInv
    <2> QED
      BY <1>1, <2>1, SameSpec, BatchesFacts
  <1>4. OperatorInv'
    BY <1>1, <1>2, <1>3 DEF SelectInv, OperatorInv, BatchOK, Sequence, Ids
  <1> QED
    BY <1>1, <1>2, <1>4, SameCase, NoCall, NoFilter DEF SelectInv

LEMMA CloseStep ==
  ASSUME SelectInv, close
  PROVE  OperatorInv' /\ CaseInv' /\ CallInv' /\ FilterIsMeant'
  <1>1. /\ pc = "ready" /\ select_spec_' = NULL /\ inputs' = <<>> /\ outputs' = <<>>
        /\ UNCHANGED <<short_circuit, batch, stack, matches, values_pc, when_predicates,
             accessor_sequence, else_matches, case_matches, multiplexed, pc, filter_result,
             filters, columns>>
    BY DEF close, caseVars
  <1>2. /\ stack = <<>> /\ matches = NULL /\ values_pc = "idle"
        /\ when_predicates = <<>> /\ accessor_sequence = NULL
        /\ else_matches = {} /\ case_matches = <<>> /\ multiplexed \in Nat
    BY <1>1, QuietFacts
  <1>3. inputs' \in Seq(BatchSet) /\ \E S : outputs' \in Seq(S)
    <2>1. outputs' \in Seq({})
      BY <1>1
    <2> QED
      BY <1>1, <2>1
  <1>4. OperatorInv'
    BY <1>1, <1>2, <1>3 DEF SelectInv, OperatorInv, BatchOK, Sequence, Ids
  <1> QED
    BY <1>1, <1>2, <1>4, NoCase, NoCall, NoFilter

LEMMA NextInputStep ==
  ASSUME SelectInv, NextInput
  PROVE  OperatorInv' /\ CaseInv' /\ CallInv' /\ FilterIsMeant'
  <1>1. /\ pc = "input" /\ pc' \in {"filter", "ready"}
        /\ filter_result' = NULL /\ filters' = 0 /\ columns' = <<>>
        /\ UNCHANGED <<node, meaning, short_circuit, stack, matches, values_pc, when_predicates,
             accessor_sequence, else_matches, case_matches, multiplexed, select_spec_, inputs,
             outputs>>
    BY DEF NextInput, caseVars
  <1>2. /\ stack = <<>> /\ matches = NULL /\ values_pc = "idle"
        /\ when_predicates = <<>> /\ accessor_sequence = NULL
        /\ else_matches = {} /\ case_matches = <<>> /\ multiplexed \in Nat
    BY <1>1, QuietFacts
  <1>3. SpecOK /\ SpecOK'
    BY <1>1, SameSpec DEF SelectInv, OperatorInv
  <1>4. batch' \in BatchSet
    <2>1. inputs \in Seq(BatchSet) /\ \E S : outputs \in Seq(S)
      BY DEF SelectInv, OperatorInv
    <2>2. CASE Len(outputs) < Len(inputs)
      <3>1. Len(outputs) + 1 \in 1 .. Len(inputs)
        BY <2>1, <2>2
      <3> QED
        BY <2>1, <2>2, <3>1 DEF NextInput
    <2>3. CASE ~(Len(outputs) < Len(inputs))
      BY <2>3, BatchesFacts DEF NextInput
    <2> QED
      BY <2>2, <2>3
  <1>5. \E S : columns' \in Seq(S)
    <2>1. columns' \in Seq({})
      BY <1>1
    <2> QED
      BY <2>1
  <1>6. filters' <= Len(select_spec_'.predicates)
    <2>1. Len(select_spec_.predicates) \in Nat
      BY <1>3 DEF SpecOK
    <2> QED
      BY <1>1, <2>1
  <1>7. OperatorInv'
    BY <1>1, <1>2, <1>3, <1>4, <1>5, <1>6 DEF SelectInv, OperatorInv, BatchOK, Sequence
  <1>8. FilterIsMeant'
    BY <1>1 DEF FilterIsMeant, Given
  <1> QED
    BY <1>1, <1>2, <1>7, <1>8, NoCase, NoCall

-----------------------------------------------------------------------------
\* The next predicate of a spec may be asked for.
LEMMA FilterAsks ==
  ASSUME SelectInv, pc = "filter", filters < Len(select_spec_.predicates)
  PROVE  /\ AskedOK /\ values_pc = "idle"
         /\ Asked = [pred |-> select_spec_.predicates[filters + 1], filter |-> filter_result,
                     existence_map |-> NULL]
  <1>1. /\ SpecOK /\ filters \in Nat /\ filter_result \in Sequence /\ values_pc = "idle"
    BY DEF SelectInv, OperatorInv
  <1>2. filters + 1 \in 1 .. Len(select_spec_.predicates)
    BY <1>1 DEF SpecOK
  <1>3. Asked = [pred |-> select_spec_.predicates[filters + 1], filter |-> filter_result,
                 existence_map |-> NULL]
    BY DEF Asked
  <1>4. /\ select_spec_.predicates[filters + 1] \in Predicate
        /\ IsComplete(select_spec_.predicates[filters + 1])
    BY <1>1, <1>2 DEF SpecOK
  <1> QED
    BY <1>1, <1>3, <1>4 DEF AskedOK, Within, Sequence

LEMMA ApplyPredicateStep ==
  ASSUME SelectInv, ApplyPredicate
  PROVE  OperatorInv' /\ CaseInv' /\ CallInv' /\ FilterIsMeant'
  <1>1. /\ pc = "filter" /\ matches = NULL /\ filters < Len(select_spec_.predicates)
        /\ stack = <<>>
        /\ UNCHANGED <<node, meaning, short_circuit, batch, caseVars, values_pc, when_predicates,
             accessor_sequence, else_matches, case_matches, select_spec_, pc, inputs, outputs,
             filter_result, filters, columns>>
    BY DEF ApplyPredicate, getAllMatches, caseVars, operatorVars
  <1>2. /\ AskedOK /\ values_pc = "idle"
        /\ Asked = [pred |-> select_spec_.predicates[filters + 1], filter |-> filter_result,
                    existence_map |-> NULL]
    BY <1>1, FilterAsks
  <1>3. Asked' = Asked
    BY <1>1 DEF Asked
  <1>4. CallInv'
    <2>1. getAllMatches(Asked.pred, Asked.filter, Asked.existence_map)
      BY <1>2 DEF ApplyPredicate
    <2> QED
      BY <1>1, <1>2, <1>3, <2>1, CallStarts DEF SelectInv, OperatorInv
  <1>5. SpecOK'
    BY <1>1, SameSpec DEF SelectInv, OperatorInv
  <1>6. OperatorInv'
    BY <1>1, <1>2, <1>5 DEF SelectInv, OperatorInv, BatchOK, Sequence, Ids
  <1> QED
    BY <1>1, <1>4, <1>6, SameCase, SameFilter DEF SelectInv

LEMMA PredicateAppliedStep ==
  ASSUME SelectInv, PredicateApplied
  PROVE  OperatorInv' /\ CaseInv' /\ CallInv' /\ FilterIsMeant'
  <1>1. /\ pc = "filter" /\ matches # NULL
        /\ filter_result' = matches /\ filters' = filters + 1 /\ matches' = NULL
        /\ UNCHANGED <<node, meaning, short_circuit, batch, stack, caseVars, values_pc,
             when_predicates, accessor_sequence, else_matches, case_matches, select_spec_, pc,
             inputs, outputs, columns>>
    BY DEF PredicateApplied, caseVars
  <1>2. /\ filters < Len(select_spec_.predicates) /\ filters \in Nat
        /\ stack = <<>> /\ SpecOK /\ values_pc = "idle"
    BY <1>1 DEF SelectInv, OperatorInv, CallInv
  <1>3. /\ AskedOK
        /\ Asked = [pred |-> select_spec_.predicates[filters + 1], filter |-> filter_result,
                    existence_map |-> NULL]
    BY <1>1, <1>2, FilterAsks
  <1>4. matches = { t \in Given(filter_result, NULL) :
                      batch[t] \in Meaning(select_spec_.predicates[filters + 1]) }
    BY <1>1, <1>3 DEF SelectInv, CallInv, Answer, Wanted
  <1>5. matches \in SUBSET Ids
    BY <1>3, <1>4, GivenFacts DEF AskedOK, SelectInv, OperatorInv
  <1>6. OperatorInv'
    <2>1. SpecOK'
      BY <1>1, <1>2, SameSpec
    <2>2. filters' \in Nat /\ filters' <= Len(select_spec_'.predicates)
      BY <1>1, <1>2 DEF SpecOK
    <2>3. filter_result' \in Sequence'
      BY <1>1, <1>5 DEF Sequence, Ids
    <2> QED
      BY <1>1, <1>2, <2>1, <2>2, <2>3 DEF SelectInv, OperatorInv, BatchOK
  <1>7. FilterIsMeant'
    <2>1. Given(filter_result, NULL) =
            { t \in Ids : \A k \in 1 .. filters : batch[t] \in Meaning(select_spec_.predicates[k]) }
      BY <1>1 DEF SelectInv, FilterIsMeant
    <2>2. 1 .. filters' = (1 .. filters) \cup {filters + 1}
      BY <1>1, <1>2
    <2>3. matches =
            { t \in Ids : \A k \in 1 .. filters' : batch[t] \in Meaning(select_spec_.predicates[k]) }
      BY <1>4, <2>1, <2>2
    <2>4. Given(filter_result, NULL)' = matches
      BY <1>1 DEF Given
    <2>5. Ids' = Ids /\ \A p : Meaning(p)' = Meaning(p)
      BY <1>1, SamePredicates DEF Ids
    <2> QED
      BY <1>1, <2>3, <2>4, <2>5 DEF FilterIsMeant
  <1> QED
    BY <1>1, <1>2, <1>6, <1>7, SameCase, NoCall DEF SelectInv

LEMMA AllAppliedStep ==
  ASSUME SelectInv, AllApplied
  PROVE  OperatorInv' /\ CaseInv' /\ CallInv' /\ FilterIsMeant'
  <1>1. /\ pc = "filter" /\ pc' = "select" /\ matches = NULL
        /\ filters = Len(select_spec_.predicates)
        /\ UNCHANGED <<node, meaning, short_circuit, batch, stack, matches, caseVars, values_pc,
             case_matches, when_predicates, select_spec_, inputs, outputs, filter_result, filters,
             columns>>
    BY DEF AllApplied, predicateVars, caseVars
  <1>2. stack = <<>> /\ values_pc = "idle" /\ SpecOK /\ select_spec_ # NULL
    BY <1>1 DEF SelectInv, OperatorInv
  <1>3. SpecOK'
    BY <1>1, <1>2, SameSpec
  <1>4. OperatorInv'
    BY <1>1, <1>2, <1>3 DEF SelectInv, OperatorInv, BatchOK, Sequence, Ids
  <1>5. FilterIsMeant'
    BY <1>1, SameFilter DEF SelectInv
  <1> QED
    BY <1>1, <1>2, <1>4, <1>5, SameCase, NoCall DEF SelectInv

\* The rows of a batch are written.
LEMMA OutputStep ==
  ASSUME SelectInv, NEW rows, Output(rows), pc = "select", values_pc = "idle",
         UNCHANGED <<predicateVars, caseVars, select_spec_, inputs, filter_result, filters, columns>>
  PROVE  OperatorInv' /\ CaseInv' /\ CallInv' /\ FilterIsMeant'
  <1>1. /\ pc' = "input" /\ outputs' = Append(outputs, rows)
        /\ UNCHANGED <<node, meaning, short_circuit, batch, stack, matches, values_pc,
             case_matches, when_predicates>>
    BY DEF Output, predicateVars, caseVars
  <1>2. stack = <<>> /\ matches = NULL /\ SpecOK /\ select_spec_ # NULL
    BY DEF SelectInv, OperatorInv
  <1>3. SpecOK'
    BY <1>1, <1>2, SameSpec
  <1>4. \E S : outputs' \in Seq(S)
    <2>1. PICK S : outputs \in Seq(S)
      BY DEF SelectInv, OperatorInv
    <2>2. outputs \in Seq(S \cup {rows})
      BY <2>1
    <2>3. outputs' \in Seq(S \cup {rows})
      BY <1>1, <2>2
    <2> QED
      BY <2>3
  <1>5. OperatorInv'
    BY <1>1, <1>2, <1>3, <1>4 DEF SelectInv, OperatorInv, BatchOK, Sequence, Ids
  <1> QED
    BY <1>1, <1>2, <1>5, SameCase, NoCall, NoFilter DEF SelectInv

LEMMA SelectAttributesStep ==
  ASSUME SelectInv, SelectAttributes
  PROVE  OperatorInv' /\ CaseInv' /\ CallInv' /\ FilterIsMeant'
  <1>1. pc = "select" /\ values_pc = "idle"
    BY DEF SelectAttributes, SelectInv, OperatorInv, SpecOK
  <1>2. \E rows : Output(rows)
    BY DEF SelectAttributes
  <1>3. UNCHANGED <<predicateVars, caseVars, select_spec_, inputs, filter_result, filters, columns>>
    BY DEF SelectAttributes
  <1> QED
    BY <1>1, <1>2, <1>3, OutputStep

LEMMA SelectValuesStep ==
  ASSUME SelectInv, SelectValues
  PROVE  OperatorInv' /\ CaseInv' /\ CallInv' /\ FilterIsMeant'
  <1>1. pc = "select" /\ values_pc = "idle"
    BY DEF SelectValues
  <1>2. \E rows : Output(rows)
    BY DEF SelectValues
  <1>3. UNCHANGED <<predicateVars, caseVars, select_spec_, inputs, filter_result, filters, columns>>
    BY DEF SelectValues
  <1> QED
    BY <1>1, <1>2, <1>3, OutputStep

LEMMA EvaluateExpressionStep ==
  ASSUME SelectInv, EvaluateExpression
  PROVE  OperatorInv' /\ CaseInv' /\ CallInv' /\ FilterIsMeant'
  <1>1. /\ pc = "select" /\ values_pc = "idle"
        /\ Len(columns) < Len(select_spec_.select_expressions)
        /\ UNCHANGED <<node, meaning, short_circuit, batch, stack, matches, select_spec_, pc,
             inputs, outputs, filter_result, filters, columns>>
    BY DEF EvaluateExpression, predicateVars, operatorVars
  <1>2. /\ stack = <<>> /\ matches = NULL /\ SpecOK /\ select_spec_ # NULL
        /\ BatchOK /\ filter_result \in Sequence
        /\ \E S : columns \in Seq(S)
    BY <1>1 DEF SelectInv, OperatorInv
  <1>3. PICK e : e = select_spec_.select_expressions[Len(columns) + 1]
    OBVIOUS
  <1>4. /\ e \in Seq(Predicate) /\ \A k \in 1 .. Len(e) : IsComplete(e[k])
        /\ select_spec_.select_expressions # <<>>
    <2>1. Len(columns) + 1 \in 1 .. Len(select_spec_.select_expressions)
      BY <1>1, <1>2 DEF SpecOK
    <2>2. select_spec_.select_expressions # <<>>
      BY <2>1
    <2> QED
      BY <1>2, <1>3, <2>1, <2>2 DEF SpecOK
  <1>5. /\ when_predicates' = e /\ accessor_sequence' = filter_result
        /\ case_matches' = <<>> /\ multiplexed' = 0
        /\ \/ values_pc' = "done" /\ else_matches' = {}
           \/ values_pc' = "match" /\ else_matches' = Given(filter_result, NULL)
    BY <1>3 DEF EvaluateExpression, getAllValues
  <1>6. Ids' = Ids /\ Sequence' = Sequence /\ Given(filter_result, NULL) \in SUBSET Ids
    BY <1>1, <1>2 DEF Ids, Sequence, Given
  <1>7. SpecOK'
    BY <1>1, <1>2, SameSpec
  <1>8. OperatorInv'
    BY <1>1, <1>2, <1>4, <1>5, <1>6, <1>7 DEF SelectInv, OperatorInv, BatchOK
  <1>9. BranchesPartition'
    <2>1. CASE values_pc' = "done"
      BY <2>1 DEF BranchesPartition
    <2>2. CASE values_pc' = "match"
      <3>1. else_matches' = Given(filter_result, NULL) /\ AccessorIds' = Given(filter_result, NULL)
        BY <1>1, <1>5, <2>2 DEF AccessorIds, Given, Ids
      <3>2. \A t : FirstMatch(e, t) > 0
        BY <1>4, FirstMatchFacts
      <3>3. \A t : FirstMatch(e, t)' = FirstMatch(e, t)
        BY <1>1, SamePredicates
      <3> QED
        BY <1>5, <3>1, <3>2, <3>3 DEF BranchesPartition
    <2> QED
      BY <1>5, <2>1, <2>2
  <1>10. CaseInv'
    <2>1. \A k \in 1 .. Len(e) : IsComplete(e[k])'
      BY <1>1, <1>4, SamePredicates
    <2>2. (\A k \in 1 .. Len(when_predicates) : IsComplete(when_predicates[k]))'
      BY <1>5, <2>1
    <2>3. else_matches' \in SUBSET Ids' /\ case_matches' \in Seq(SUBSET Ids')
      BY <1>5, <1>6
    <2> QED
      BY <1>2, <1>4, <1>5, <1>6, <1>9, <2>2, <2>3 DEF CaseInv
  <1> QED
    BY <1>1, <1>2, <1>8, <1>10, NoCall, SameFilter DEF SelectInv

LEMMA ExpressionEvaluatedStep ==
  ASSUME SelectInv, ExpressionEvaluated
  PROVE  OperatorInv' /\ CaseInv' /\ CallInv' /\ FilterIsMeant'
  <1>1. /\ pc = "select" /\ values_pc = "done" /\ columns' = Append(columns, output)
        /\ values_pc' = "idle" /\ when_predicates' = <<>> /\ accessor_sequence' = NULL
        /\ else_matches' = {} /\ case_matches' = <<>> /\ multiplexed' = 0
        /\ UNCHANGED <<node, meaning, short_circuit, batch, stack, matches, select_spec_, pc,
             inputs, outputs, filter_result, filters>>
    BY DEF ExpressionEvaluated, predicateVars
  <1>2. stack = <<>> /\ matches = NULL /\ SpecOK /\ select_spec_ # NULL
    BY <1>1 DEF SelectInv, OperatorInv
  <1>3. SpecOK'
    BY <1>1, <1>2, SameSpec
  <1>4. \E S : columns' \in Seq(S)
    <2>1. PICK S : columns \in Seq(S)
      BY DEF SelectInv, OperatorInv
    <2>2. columns \in Seq(S \cup {output})
      BY <2>1
    <2>3. columns' \in Seq(S \cup {output})
      BY <1>1, <2>2
    <2> QED
      BY <2>3
  <1>5. OperatorInv'
    BY <1>1, <1>2, <1>3, <1>4 DEF SelectInv, OperatorInv, BatchOK, Sequence, Ids
  <1> QED
    BY <1>1, <1>2, <1>5, NoCase, NoCall, SameFilter DEF SelectInv

LEMMA PredicateStepStep ==
  ASSUME SelectInv, PredicateStep
  PROVE  OperatorInv' /\ CaseInv' /\ CallInv' /\ FilterIsMeant'
  <1>1. /\ stack # <<>>
        /\ UNCHANGED <<node, meaning, short_circuit, batch, caseVars, values_pc, when_predicates,
             accessor_sequence, else_matches, case_matches, select_spec_, pc, inputs, outputs,
             filter_result, filters, columns>>
    BY DEF PredicateStep, EvaluateOperand, CallOperand, Return, caseVars, operatorVars
  <1>2. Asked' = Asked
    BY <1>1 DEF Asked
  <1>3. CallInv'
    BY <1>2, CallAdvances, CallDeepens, CallReturns DEF PredicateStep, SelectInv, OperatorInv
  <1>4. SpecOK' <=> SpecOK
    BY <1>1, SameSpec
  <1>5. OperatorInv'
    BY <1>1, <1>4 DEF SelectInv, OperatorInv, BatchOK, Sequence, Ids
  <1> QED
    BY <1>1, <1>3, <1>5, SameCase, SameFilter DEF SelectInv

-----------------------------------------------------------------------------
(***************************************************************************)
(* The steps of a CASE.                                                    *)
(***************************************************************************)
\* While a CASE is matched, and nothing else is called.
LEMMA WhenFacts ==
  ASSUME SelectInv, values_pc = "match"
  PROVE  /\ pc = "select" /\ when_predicates \in Seq(Predicate)
         /\ else_matches \in SUBSET Ids /\ else_matches # NULL
         /\ accessor_sequence \in Sequence
         /\ Len(case_matches) < Len(when_predicates) =>
              /\ AskedOK
              /\ Asked = [pred |-> when_predicates[Len(case_matches) + 1],
                          filter |-> else_matches, existence_map |-> accessor_sequence]
  <1>1. /\ pc = "select" /\ when_predicates \in Seq(Predicate)
        /\ \A k \in 1 .. Len(when_predicates) : IsComplete(when_predicates[k])
        /\ else_matches \in SUBSET Ids /\ case_matches \in Seq(SUBSET Ids)
        /\ accessor_sequence \in Sequence /\ BatchOK
    BY DEF SelectInv, OperatorInv, CaseInv
  <1>2. else_matches # NULL
    BY <1>1, IdsFacts
  <1>3. else_matches \subseteq AccessorIds
    BY DEF SelectInv, CaseInv, BranchesPartition
  <1>4. Within(else_matches, accessor_sequence)
    BY <1>1, <1>3 DEF Within, Sequence, AccessorIds, Given
  <1>5. Asked = [pred |-> when_predicates[Len(case_matches) + 1],
                 filter |-> else_matches, existence_map |-> accessor_sequence]
    BY <1>1 DEF Asked
  <1>6. ASSUME Len(case_matches) < Len(when_predicates) PROVE AskedOK
    <2>1. Len(case_matches) + 1 \in 1 .. Len(when_predicates)
      BY <1>1, <1>6
    <2>2. /\ when_predicates[Len(case_matches) + 1] \in Predicate
          /\ IsComplete(when_predicates[Len(case_matches) + 1])
      BY <1>1, <2>1
    <2> QED
      BY <1>4, <1>5, <2>2 DEF AskedOK
  <1> QED
    BY <1>1, <1>2, <1>5, <1>6

LEMMA MatchWhenStep ==
  ASSUME SelectInv, MatchWhen, UNCHANGED operatorVars
  PROVE  OperatorInv' /\ CaseInv' /\ CallInv' /\ FilterIsMeant'
  <1>1. /\ values_pc = "match" /\ stack = <<>>
        /\ Len(case_matches) < Len(when_predicates) /\ else_matches # {}
        /\ UNCHANGED <<node, meaning, short_circuit, batch, caseVars, values_pc, when_predicates,
             accessor_sequence, else_matches, case_matches, select_spec_, pc, inputs, outputs,
             filter_result, filters, columns>>
    BY DEF MatchWhen, getAllMatches, caseVars, operatorVars
  <1>2. /\ AskedOK /\ pc = "select"
        /\ Asked = [pred |-> when_predicates[Len(case_matches) + 1],
                    filter |-> else_matches, existence_map |-> accessor_sequence]
    BY <1>1, WhenFacts
  <1>3. Asked' = Asked
    BY <1>1 DEF Asked
  <1>4. CallInv'
    <2>1. getAllMatches(Asked.pred, Asked.filter, Asked.existence_map)
      BY <1>2 DEF MatchWhen
    <2> QED
      BY <1>1, <1>2, <1>3, <2>1, CallStarts DEF SelectInv, OperatorInv
  <1>5. SpecOK' <=> SpecOK
    BY <1>1, SameSpec
  <1>6. OperatorInv'
    BY <1>1, <1>2, <1>5 DEF SelectInv, OperatorInv, BatchOK, Sequence, Ids
  <1> QED
    BY <1>1, <1>4, <1>6, SameCase, SameFilter DEF SelectInv

\* The matches of a WHEN are the tuples whose first matching WHEN it is.
LEMMA WhenMatchedStep ==
  ASSUME SelectInv, WhenMatched, UNCHANGED operatorVars
  PROVE  OperatorInv' /\ CaseInv' /\ CallInv' /\ FilterIsMeant'
  <1>1. /\ values_pc = "match" /\ matches # NULL /\ matches' = NULL
        /\ case_matches' = Append(case_matches, matches)
        /\ else_matches' = else_matches \ matches
        /\ UNCHANGED <<node, meaning, short_circuit, batch, stack, values_pc, when_predicates,
             accessor_sequence, multiplexed, select_spec_, pc, inputs, outputs, filter_result,
             filters, columns>>
    BY DEF WhenMatched, operatorVars
  <1>2. /\ pc = "select" /\ when_predicates \in Seq(Predicate)
        /\ else_matches \in SUBSET Ids /\ else_matches # NULL
        /\ accessor_sequence \in Sequence
    BY <1>1, WhenFacts
  <1>3. /\ Len(case_matches) < Len(when_predicates) /\ stack = <<>>
        /\ case_matches \in Seq(SUBSET Ids) /\ multiplexed \in Nat
    BY <1>1, <1>2 DEF SelectInv, OperatorInv, CaseInv, CallInv
  <1>4. Asked = [pred |-> when_predicates[Len(case_matches) + 1],
                 filter |-> else_matches, existence_map |-> accessor_sequence]
    BY <1>1, <1>3, WhenFacts
  <1>5. PICK n : n = Len(case_matches)
    OBVIOUS
  <1>6. n \in Nat /\ n + 1 \in 1 .. Len(when_predicates) /\ Len(when_predicates) \in Nat
    BY <1>2, <1>3, <1>5
  <1>7. matches = { t \in else_matches : batch[t] \in Meaning(when_predicates[n + 1]) }
    BY <1>1, <1>2, <1>4, <1>5 DEF SelectInv, CallInv, Answer, Wanted, Given
  <1>8. /\ \A k \in 1 .. n :
             case_matches[k] = { t \in AccessorIds : FirstMatch(when_predicates, batch[t]) = k }
        /\ else_matches = { t \in AccessorIds : FirstMatch(when_predicates, batch[t]) > n }
    BY <1>1, <1>3, <1>5 DEF SelectInv, CaseInv, BranchesPartition
  <1>9. \A t : /\ FirstMatch(when_predicates, t) \in 1 .. Len(when_predicates) + 1
               /\ FirstMatch(when_predicates, t) = n + 1 <=>
                    /\ FirstMatch(when_predicates, t) > n
                    /\ t \in Meaning(when_predicates[n + 1])
    <2> SUFFICES ASSUME NEW t
                 PROVE  /\ FirstMatch(when_predicates, t) \in 1 .. Len(when_predicates) + 1
                        /\ FirstMatch(when_predicates, t) = n + 1 <=>
                             /\ FirstMatch(when_predicates, t) > n
                             /\ t \in Meaning(when_predicates[n + 1])
      OBVIOUS
    <2>1. PICK f : f = FirstMatch(when_predicates, t)
      OBVIOUS
    <2>2. /\ f \in 1 .. Len(when_predicates) + 1
          /\ f <= Len(when_predicates) => t \in Meaning(when_predicates[f])
          /\ \A k \in 1 .. Len(when_predicates) : t \in Meaning(when_predicates[k]) => f <= k
      BY <1>2, <2>1, FirstMatchFacts
    <2>3. t \in Meaning(when_predicates[n + 1]) => f <= n + 1
      BY <1>6, <2>2
    <2> QED
      BY <1>6, <2>1, <2>2, <2>3
  <1>10. matches = { t \in AccessorIds : FirstMatch(when_predicates, batch[t]) = n + 1 }
    BY <1>7, <1>8, <1>9
  <1>11. else_matches' = { t \in AccessorIds : FirstMatch(when_predicates, batch[t]) > n + 1 }
    <2>1. \A t : FirstMatch(when_predicates, t) > n + 1 <=>
                   /\ FirstMatch(when_predicates, t) > n
                   /\ FirstMatch(when_predicates, t) # n + 1
      BY <1>6, <1>9
    <2> QED
      BY <1>1, <1>8, <1>10, <2>1
  <1>12. /\ Len(case_matches') = n + 1 /\ DOMAIN case_matches' = 1 .. n + 1
         /\ case_matches'[n + 1] = matches /\ \A k \in 1 .. n : case_matches'[k] = case_matches[k]
         /\ case_matches' \in Seq(SUBSET Ids)
    BY <1>1, <1>2, <1>3, <1>5, <1>7
  <1>13. BranchesPartition'
    <2>1. \A k \in 1 .. n + 1 :
            case_matches'[k] = { t \in AccessorIds : FirstMatch(when_predicates, batch[t]) = k }
      BY <1>6, <1>8, <1>10, <1>12
    <2>2. AccessorIds' = AccessorIds
      BY <1>1 DEF AccessorIds, Given, Ids
    <2> QED
      BY <1>1, <1>11, <1>12, <2>1, <2>2, SamePredicates DEF BranchesPartition
  <1>14. CaseInv'
    <2>1. Ids' = Ids /\ Sequence' = Sequence
      BY <1>1 DEF Ids, Sequence
    <2>2. \A k \in 1 .. Len(when_predicates) : IsComplete(when_predicates[k])
      BY DEF SelectInv, CaseInv
    <2>3. (\A k \in 1 .. Len(when_predicates) : IsComplete(when_predicates[k]))'
      BY <1>1, <2>2, SamePredicates
    <2>4. else_matches' \in SUBSET Ids'
      BY <1>1, <1>2, <2>1
    <2> QED
      BY <1>1, <1>2, <1>3, <1>12, <1>13, <2>1, <2>3, <2>4 DEF CaseInv
  <1>15. SpecOK' <=> SpecOK
    BY <1>1, SameSpec
  <1>16. OperatorInv'
    BY <1>1, <1>2, <1>3, <1>15 DEF SelectInv, OperatorInv, BatchOK, Sequence, Ids
  <1> QED
    BY <1>1, <1>3, <1>14, <1>16, NoCall, SameFilter DEF SelectInv

\* The other steps leave the matches alone.
LEMMA BranchStep ==
  ASSUME SelectInv, AllMatched \/ EvaluateThen \/ EvaluateElse \/ MultiplexColumn \/ AllMultiplexed,
         UNCHANGED operatorVars
  PROVE  OperatorInv' /\ CaseInv' /\ CallInv' /\ FilterIsMeant'
  <1>1. /\ values_pc \in {"match", "evaluate", "multiplex"}
        /\ values_pc' \in {"evaluate", "multiplex", "done"}
        /\ values_pc = "match" => Len(case_matches) = Len(when_predicates) \/ else_matches = {}
        /\ multiplexed \in Nat => multiplexed' \in Nat
        /\ UNCHANGED <<node, meaning, short_circuit, batch, stack, matches, when_predicates,
             accessor_sequence, else_matches, case_matches, select_spec_, pc, inputs, outputs,
             filter_result, filters, columns>>
    BY DEF AllMatched, EvaluateThen, EvaluateElse, MultiplexColumn, AllMultiplexed, predicateVars,
           operatorVars
  <1>2. /\ pc = "select" /\ select_spec_ # NULL /\ select_spec_.select_expressions # <<>>
    BY <1>1 DEF SelectInv, OperatorInv
  <1>3. stack = <<>> /\ matches = NULL
    <2>1. when_predicates \in Seq(Predicate) /\ case_matches \in Seq(SUBSET Ids)
      BY DEF SelectInv, CaseInv
    <2> QED
      BY <1>1, <1>2, <2>1 DEF SelectInv, OperatorInv
  <1>4. SpecOK' <=> SpecOK
    BY <1>1, SameSpec
  <1>5. OperatorInv'
    BY <1>1, <1>2, <1>3, <1>4 DEF SelectInv, OperatorInv, BatchOK, Sequence, Ids
  <1>6. CaseInv'
    <2>1. /\ Ids' = Ids /\ Sequence' = Sequence /\ AccessorIds' = AccessorIds
      BY <1>1 DEF Ids, Sequence, AccessorIds, Given
    <2>2. BranchesPartition'
      BY <1>1, <2>1, SamePredicates DEF SelectInv, CaseInv, BranchesPartition
    <2>3. (\A k \in 1 .. Len(when_predicates) : IsComplete(when_predicates[k]))'
      BY <1>1, SamePredicates DEF SelectInv, CaseInv
    <2> QED
      BY <1>1, <2>1, <2>2, <2>3 DEF SelectInv, CaseInv
  <1> QED
    BY <1>1, <1>3, <1>5, <1>6, NoCall, SameFilter DEF SelectInv

-----------------------------------------------------------------------------
LEMMA InitSelectInv == Init => SelectInv
  <1> SUFFICES ASSUME Init PROVE SelectInv
    OBVIOUS
  <1>1. TreeInv
    BY InitTreeInv
  <1>2. /\ short_circuit \in BOOLEAN /\ batch = <<>> /\ stack = <<>> /\ matches = NULL
        /\ values_pc = "idle" /\ when_predicates = <<>> /\ accessor_sequence = NULL
        /\ else_matches = {} /\ case_matches = <<>> /\ multiplexed = 0
        /\ select_spec_ = NULL /\ pc = "ready" /\ inputs = <<>> /\ outputs = <<>>
        /\ filter_result = NULL /\ filters = 0 /\ columns = <<>>
    BY DEF Init, CaseInit
  <1>3. OperatorInv
    <2>1. outputs \in Seq({}) /\ columns \in Seq({})
      BY <1>2
    <2> QED
      BY <1>2, <2>1, BatchesFacts DEF OperatorInv, BatchOK, Sequence
  <1>4. CaseInv /\ CallInv /\ FilterIsMeant
    BY <1>2 DEF CaseInv, CallInv, FilterIsMeant, BranchesPartition, Sequence
  <1> QED
    BY <1>1, <1>3, <1>4 DEF SelectInv

LEMMA NextSelectInv == SelectInv /\ [Next]_vars => SelectInv'
  <1> SUFFICES ASSUME SelectInv, [Next]_vars PROVE SelectInv'
    OBVIOUS
  <1> USE DEF SelectInv
  <1>1. TreeInv'
    BY NextTreeInv
  <1> DEFINE Rest == OperatorInv /\ CaseInv /\ CallInv /\ FilterIsMeant
  <1>2. CASE Build \/ open \/ close \/ NextInput
    BY <1>1, <1>2, BuildStep, OpenStep, CloseStep, NextInputStep
  <1>3. CASE \E batches \in Inputs : next(batches)
    BY <1>1, <1>3, NextStep
  <1>4. CASE Filter
    BY <1>1, <1>4, ApplyPredicateStep, PredicateAppliedStep, AllAppliedStep DEF Filter
  <1>5. CASE Select
    BY <1>1, <1>5, SelectAttributesStep, EvaluateExpressionStep, ExpressionEvaluatedStep,
       SelectValuesStep DEF Select
  <1>6. CASE PredicateStep
    BY <1>1, <1>6, PredicateStepStep
  <1>7. CASE ScalarStep
    BY <1>1, <1>7, MatchWhenStep, WhenMatchedStep, BranchStep DEF ScalarStep, CaseStep
  <1>8. CASE UNCHANGED vars
    <2>1. UNCHANGED <<node, meaning, short_circuit, batch, stack, matches, caseVars, values_pc,
            when_predicates, accessor_sequence, else_matches, case_matches, select_spec_, pc,
            inputs, outputs, filter_result, filters, columns>>
      BY <1>8 DEF vars, predicateVars, caseVars, operatorVars
    <2>2. Asked' = Asked
      BY <2>1 DEF Asked
    <2>3. CallInv'
      BY <2>1, <2>2, CallStays DEF predicateVars
    <2>4. SpecOK' <=> SpecOK
      BY <2>1, SameSpec
    <2>5. OperatorInv'
      BY <2>1, <2>4 DEF OperatorInv, BatchOK, Sequence, Ids
    <2> QED
      BY <1>1, <2>1, <2>3, <2>5, SameCase, SameFilter
  <1> QED
    BY <1>2, <1>3, <1>4, <1>5, <1>6, <1>7, <1>8 DEF Next

LEMMA SelectInvariant == Spec => []SelectInv
  BY InitSelectInv, NextSelectInv, PTL DEF Spec

\* After each predicate of a spec the filter holds the tuples of the batch that
\* satisfy all predicates applied, whatever nodes, filters and short circuits the
\* calls of getAllMatches() went through.
THEOREM FilterCorrect == Spec => []FilterIsMeant
  <1>1. SelectInv => FilterIsMeant
    BY DEF SelectInv
  <1> QED
    BY <1>1, SelectInvariant, PTL

\* Each tuple goes to the branch of its first matching WHEN and to no other.
THEOREM BranchesCorrect == Spec => []BranchesPartition
  <1>1. SelectInv => BranchesPartition
    BY DEF SelectInv, CaseInv
  <1> QED
    BY <1>1, SelectInvariant, PTL

LEMMA SelectTypes == SelectInv => TypeOK
  <1> SUFFICES ASSUME SelectInv PROVE TypeOK
    OBVIOUS
  <1>1. stack \in Seq(Frames)
    <2>1. GoodFrames \subseteq Frames /\ stack \in Seq(GoodFrames)
      BY DEF SelectInv, CallInv, GoodFrames
    <2> QED
      BY <2>1
  <1>2. matches \in (SUBSET Ids) \cup {NULL}
    <2>1. CASE matches = NULL
      BY <2>1
    <2>2. CASE matches # NULL
      <3>1. AskedOK
        <4>1. CASE pc = "filter" /\ filters < Len(select_spec_.predicates)
          BY <4>1, FilterAsks
        <4>2. CASE values_pc = "match" /\ Len(case_matches) < Len(when_predicates)
          BY <4>2, WhenFacts
        <4> QED
          BY <2>2, <4>1, <4>2 DEF SelectInv, OperatorInv
      <3>2. matches = Answer /\ Given(Asked.filter, Asked.existence_map) \subseteq Ids
        BY <2>2, <3>1, GivenFacts DEF AskedOK, SelectInv, CallInv, OperatorInv
      <3> QED
        BY <3>2 DEF Answer, Wanted
    <2> QED
      BY <2>1, <2>2
  <1>3. stack # <<>> => matches = NULL
    BY DEF SelectInv, CallInv
  <1>4. batch \in Seq(Tuples) /\ inputs \in Seq(Seq(Tuples))
    <2>1. BatchSet \subseteq Seq(Tuples) /\ batch \in BatchSet /\ inputs \in Seq(BatchSet)
      BY DEF SelectInv, OperatorInv, BatchOK, BatchSet
    <2> QED
      BY <2>1
  <1> QED
    BY <1>1, <1>2, <1>3, <1>4
       DEF SelectInv, TreeInv, OperatorInv, CaseInv, BatchOK, Sequence, TypeOK

\* The variables have their types, and calls run only where next() makes them.
THEOREM TypeCorrect == Spec => []TypeOK
  BY SelectTypes, SelectInvariant, PTL

-----------------------------------------------------------------------------
(***************************************************************************)
(* The values of a CASE.  Position numbers a finite set of tuple ids from  *)
(* 1 on, and AtPosition is its inverse.                                    *)
(***************************************************************************)
LEMMA PositionFacts ==
  ASSUME NEW S \in SUBSET Nat, IsFiniteSet(S)
  PROVE  /\ Cardinality(S) \in Nat
         /\ \A t \in S : Position(S, t) \in 1 .. Cardinality(S)
         /\ \A t, u \in S : t < u => Position(S, t) < Position(S, u)
  <1> DEFINE UpTo(t) == { s \in S : s <= t }
  <1>1. Cardinality(S) \in Nat
    BY FS_CardinalityType
  <1>2. ASSUME NEW t \in S
        PROVE  /\ IsFiniteSet(UpTo(t)) /\ Cardinality(UpTo(t)) \in 1 .. Cardinality(S)
    <2>1. IsFiniteSet(UpTo(t)) /\ Cardinality(UpTo(t)) <= Cardinality(S)
      <3>1. UpTo(t) \in SUBSET S
        OBVIOUS
      <3> HIDE DEF UpTo
      <3> QED
        BY <3>1, FS_Subset
    <2>2. Cardinality(UpTo(t)) \in Nat /\ Cardinality(UpTo(t)) # 0
      <3>1. t \in UpTo(t)
        OBVIOUS
      <3> HIDE DEF UpTo
      <3> QED
        BY <2>1, <3>1, FS_CardinalityType, FS_EmptySet
    <2>3. PICK c : c = Cardinality(UpTo(t))
      OBVIOUS
    <2>4. c \in Nat /\ c # 0 /\ c <= Cardinality(S)
      BY <2>1, <2>2, <2>3
    <2>5. c \in 1 .. Cardinality(S)
      BY <1>1, <2>4
    <2> HIDE DEF UpTo
    <2> QED
      BY <2>1, <2>3, <2>5
  <1>3. ASSUME NEW t \in S, NEW u \in S, t < u
        PROVE  Cardinality(UpTo(t)) < Cardinality(UpTo(u))
    <2>1. UpTo(t) \in SUBSET UpTo(u) /\ u \in UpTo(u) /\ u \notin UpTo(t)
      <3>1. /\ t \in Int /\ u \in Int
            /\ \A s \in S : s \in Int /\ (s <= t => s <= u)
        BY <1>3
      <3>2. u <= u /\ ~(u <= t)
        BY <1>3, <3>1
      <3> QED
        BY <3>1, <3>2
    <2>2. /\ IsFiniteSet(UpTo(u)) /\ Cardinality(UpTo(u)) \in Nat
          /\ IsFiniteSet(UpTo(t)) /\ Cardinality(UpTo(t)) \in Nat
      BY <1>2, FS_CardinalityType
    <2> HIDE DEF UpTo
    <2>3. Cardinality(UpTo(t)) <= Cardinality(UpTo(u)) /\ UpTo(t) # UpTo(u)
      BY <2>1, <2>2, FS_Subset
    <2>4. Cardinality(UpTo(t)) # Cardinality(UpTo(u))
      BY <2>1, <2>2, <2>3, FS_Subset
    <2> QED
      BY <2>2, <2>3, <2>4
  <1> QED
    BY <1>1, <1>2, <1>3 DEF Position

LEMMA AtPositionFacts ==
  ASSUME NEW S \in SUBSET Nat, IsFiniteSet(S)
  PROVE  /\ \A t \in S : AtPosition(S, Position(S, t)) = t
         /\ \A k \in 1 .. Cardinality(S) :
              AtPosition(S, k) \in S /\ Position(S, AtPosition(S, k)) = k
  <1> DEFINE n == Cardinality(S)
             f == [t \in S |-> Position(S, t)]
  <1>1. /\ n \in Nat /\ \A t \in S : Position(S, t) \in 1 .. n
        /\ \A t, u \in S : t < u => Position(S, t) < Position(S, u)
    BY PositionFacts
  <1>2. \A t, u \in S : Position(S, t) = Position(S, u) => t = u
    <2> SUFFICES ASSUME NEW t \in S, NEW u \in S, Position(S, t) = Position(S, u), t # u
                 PROVE  FALSE
      OBVIOUS
    <2>1. t < u \/ u < t
      OBVIOUS
    <2>2. Position(S, t) \in Int /\ Position(S, u) \in Int
      BY <1>1
    <2> QED
      BY <1>1, <2>1, <2>2
  <1>3. \A k \in 1 .. n : \E t \in S : Position(S, t) = k
    <2>1. f \in Injection(S, 1 .. n)
      BY <1>1, <1>2 DEF Injection, IsInjective
    <2>2. IsFiniteSet(1 .. n) /\ Cardinality(1 .. n) = n
      BY <1>1, FS_Interval
    <2> HIDE DEF f, n
    <2>3. f \in Surjection(S, 1 .. n)
      BY <1>1, <2>1, <2>2, FS_Injection DEF n, Bijection
    <2> USE DEF f
    <2> QED
      BY <2>3 DEF Surjection
  <1>4. \A k \in 1 .. n : AtPosition(S, k) \in S /\ Position(S, AtPosition(S, k)) = k
    BY <1>3 DEF AtPosition
  <1> QED
    BY <1>1, <1>2, <1>4

LEMMA PositionOfAll ==
  ASSUME NEW n \in Nat
  PROVE  /\ IsFiniteSet(1 .. n) /\ Cardinality(1 .. n) = n
         /\ \A k \in 1 .. n : AtPosition(1 .. n, k) = k
  <1>1. \A m \in Nat : IsFiniteSet(1 .. m) /\ Cardinality(1 .. m) = m
    BY FS_Interval
  <1>2. \A k \in 1 .. n : Position(1 .. n, k) = k
    <2> SUFFICES ASSUME NEW k \in 1 .. n PROVE Position(1 .. n, k) = k
      OBVIOUS
    <2>1. { s \in 1 .. n : s <= k } = 1 .. k /\ k \in Nat
      OBVIOUS
    <2> QED
      BY <1>1, <2>1 DEF Position
  <1>3. 1 .. n \in SUBSET Nat
    OBVIOUS
  <1> QED
    BY <1>1, <1>2, <1>3, AtPositionFacts

\* The tuples whose value branch k computes.
Branch(k) == { t \in AccessorIds : FirstMatch(when_predicates, batch[t]) = k }

TupleAt(j) == batch[AtPosition(AccessorIds, j)]

ColumnsInv ==
  /\ values_pc \in {"match", "evaluate", "multiplex"} =>
       FixedBranch(when_predicates) = 0 /\ Len(case_matches) <= Len(when_predicates)
  /\ values_pc = "match" => case_results = <<>>
  /\ values_pc \in {"match", "evaluate"} => multiplexed = 0
  /\ values_pc \in {"evaluate", "multiplex"} =>
       /\ Len(case_matches) = Len(when_predicates) \/ else_matches = {}
       /\ \E S : case_results \in Seq(S)
       /\ \A k \in 1 .. Len(case_results) : case_results[k] = ColumnOf(k, Branch(k))
  /\ values_pc = "evaluate" => Len(case_results) <= Len(case_matches)
  /\ values_pc = "multiplex" =>
       /\ \/ Len(case_results) = Len(case_matches) /\ else_matches = {}
          \/ /\ Len(case_results) = Len(case_matches) + 1
             /\ Len(case_matches) = Len(when_predicates)
       /\ multiplexed \in 0 .. Len(case_results)
       /\ output = [j \in 1 .. Cardinality(AccessorIds) |-> output[j]]
       /\ \A j \in 1 .. Cardinality(AccessorIds) :
            FirstMatch(when_predicates, TupleAt(j)) <= multiplexed =>
              output[j] = ValueOf(FirstMatch(when_predicates, TupleAt(j)), TupleAt(j))
  /\ ValuesInPlace

LEMMA BranchFacts ==
  ASSUME SelectInv, values_pc # "idle"
  PROVE  /\ AccessorIds \in SUBSET Nat /\ IsFiniteSet(AccessorIds)
         /\ Cardinality(AccessorIds) \in Nat
         /\ \A k : Branch(k) \in SUBSET AccessorIds /\ IsFiniteSet(Branch(k))
         /\ \A j \in 1 .. Cardinality(AccessorIds) : AtPosition(AccessorIds, j) \in AccessorIds
         /\ accessor_sequence = NULL =>
              \A j \in 1 .. Cardinality(AccessorIds) : AtPosition(AccessorIds, j) = j
         /\ when_predicates \in Seq(Predicate) /\ case_matches \in Seq(SUBSET Ids)
         /\ \A t : FirstMatch(when_predicates, t) \in 1 .. Len(when_predicates) + 1
  <1>1. /\ BatchOK /\ accessor_sequence \in Sequence
        /\ when_predicates \in Seq(Predicate) /\ case_matches \in Seq(SUBSET Ids)
    BY DEF SelectInv, OperatorInv, CaseInv
  <1>2. Ids = 1 .. Len(batch) /\ Len(batch) \in Nat
    BY <1>1, IdsFacts
  <1>3. accessor_sequence = NULL => AccessorIds = Ids
    BY DEF AccessorIds, Given
  <1>4. AccessorIds \in SUBSET Ids
    BY <1>1 DEF AccessorIds, Given, Sequence
  <1>5. IsFiniteSet(Ids)
    BY <1>2, PositionOfAll
  <1>6. /\ AccessorIds \in SUBSET Nat /\ IsFiniteSet(AccessorIds)
        /\ Cardinality(AccessorIds) \in Nat
    <2>1. AccessorIds \in SUBSET Nat
      BY <1>2, <1>4
    <2>2. IsFiniteSet(AccessorIds)
      BY <1>4, <1>5, FS_Subset
    <2> QED
      BY <2>1, <2>2, FS_CardinalityType
  <1>7. \A k : Branch(k) \in SUBSET AccessorIds /\ IsFiniteSet(Branch(k))
    BY <1>6, FS_Subset DEF Branch
  <1>8. \A j \in 1 .. Cardinality(AccessorIds) : AtPosition(AccessorIds, j) \in AccessorIds
    BY <1>6, AtPositionFacts
  <1>9. ASSUME accessor_sequence = NULL
        PROVE  \A j \in 1 .. Cardinality(AccessorIds) : AtPosition(AccessorIds, j) = j
    <2>1. AccessorIds = 1 .. Len(batch)
      BY <1>2, <1>3, <1>4, <1>9
    <2> QED
      BY <1>2, <2>1, PositionOfAll
  <1> QED
    BY <1>1, <1>6, <1>7, <1>8, <1>9, FirstMatchFacts

\* What BranchesPartition says of the matches.
LEMMA MatchesAreBranches ==
  ASSUME SelectInv, values_pc \in {"match", "evaluate", "multiplex"}
  PROVE  /\ \A k \in 1 .. Len(case_matches) : case_matches[k] = Branch(k)
         /\ else_matches =
              { t \in AccessorIds : FirstMatch(when_predicates, batch[t]) > Len(case_matches) }
         /\ Len(case_matches) = Len(when_predicates) =>
              else_matches = Branch(Len(when_predicates) + 1)
  <1>1. /\ \A k \in 1 .. Len(case_matches) : case_matches[k] = Branch(k)
        /\ else_matches =
             { t \in AccessorIds : FirstMatch(when_predicates, batch[t]) > Len(case_matches) }
    <2>1. case_matches \in Seq(SUBSET Ids)
      BY DEF SelectInv, CaseInv
    <2> QED
      BY <2>1 DEF SelectInv, CaseInv, BranchesPartition, Branch
  <1>2. \A t : FirstMatch(when_predicates, t) \in 1 .. Len(when_predicates) + 1
    BY BranchFacts
  <1>3. Len(when_predicates) \in Nat
    BY BranchFacts
  <1>4. \A t : FirstMatch(when_predicates, t) > Len(when_predicates)
                 <=> FirstMatch(when_predicates, t) = Len(when_predicates) + 1
    BY <1>2, <1>3
  <1> QED
    BY <1>1, <1>4 DEF Branch

LEMMA SameColumns ==
  ASSUME ColumnsInv, UNCHANGED <<node, meaning, batch, caseVars>>
  PROVE  ColumnsInv'
  <1>1. /\ UNCHANGED <<values_pc, when_predicates, accessor_sequence, else_matches, case_matches,
             case_results, multiplexed, output>>
        /\ AccessorIds' = AccessorIds
    BY DEF caseVars, AccessorIds, Given, Ids
  <1>2. \A e, t : FirstMatch(e, t)' = FirstMatch(e, t)
    BY SamePredicates
  <1>3. \A e : FixedBranch(e)' = FixedBranch(e)
    BY DEF FixedBranch, Else, hasStaticResult, getStaticResult
  <1>4. \A e, t : getValueForSingleTuple(e, t)' = getValueForSingleTuple(e, t)
    BY <1>2, <1>3 DEF getValueForSingleTuple, ValueOf
  <1>5. \A k : Branch(k)' = Branch(k)
    BY <1>1, <1>2 DEF Branch
  <1>6. \A k, S : ColumnOf(k, S)' = ColumnOf(k, S)
    BY DEF ColumnOf, ValueOf, AtPosition, Position
  <1>7. \A j : TupleAt(j)' = TupleAt(j)
    BY <1>1 DEF TupleAt, AtPosition, Position
  <1>8. ValuesInPlace' <=> ValuesInPlace
    <2>1. ValuesInPlace <=>
            (values_pc = "done" =>
               output = [k \in 1 .. Cardinality(AccessorIds) |->
                           getValueForSingleTuple(when_predicates, TupleAt(k))])
      BY DEF ValuesInPlace, TupleAt
    <2>2. ValuesInPlace' <=>
            (values_pc' = "done" =>
               output' = [k \in 1 .. Cardinality(AccessorIds') |->
                            getValueForSingleTuple(when_predicates, TupleAt(k))'])
      BY DEF ValuesInPlace, TupleAt
    <2>3. \A k : getValueForSingleTuple(when_predicates, TupleAt(k))'
                  = getValueForSingleTuple(when_predicates, TupleAt(k))
      BY <1>1, <1>4, <1>7
    <2> QED
      BY <1>1, <2>1, <2>2, <2>3
  <1> QED
    BY <1>1, <1>2, <1>3, <1>5, <1>6, <1>7, <1>8 DEF ColumnsInv, ValueOf

LEMMA NoColumns == ASSUME values_pc' = "idle" PROVE ColumnsInv'
  BY DEF ColumnsInv, ValuesInPlace

LEMMA EvaluateExpressionColumns ==
  ASSUME SelectInv, EvaluateExpression
  PROVE  ColumnsInv'
  <1>1. PICK e : e = select_spec_.select_expressions[Len(columns) + 1]
    OBVIOUS
  <1>2. PICK source : source = filter_result
    OBVIOUS
  <1>3. /\ getAllValues(e, source)
        /\ UNCHANGED <<node, meaning, batch>>
    BY <1>1, <1>2 DEF EvaluateExpression, predicateVars
  <1>4. /\ when_predicates' = e /\ accessor_sequence' = source
        /\ case_matches' = <<>> /\ case_results' = <<>> /\ multiplexed' = 0
    BY <1>3 DEF getAllValues
  <1>5. \A f : FixedBranch(f)' = FixedBranch(f)
    BY <1>3 DEF FixedBranch, Else, hasStaticResult, getStaticResult
  <1>6. CASE FixedBranch(e) # 0
    <2>1. /\ values_pc' = "done"
          /\ output' = ColumnOf(FixedBranch(e), Given(source, NULL))
      BY <1>3, <1>6 DEF getAllValues
    <2>2. AccessorIds' = Given(source, NULL)
      BY <1>3, <1>4 DEF AccessorIds, Given, Ids
    <2>3. \A t : getValueForSingleTuple(e, t)' = ValueOf(FixedBranch(e), t)
      BY <1>5, <1>6 DEF getValueForSingleTuple, ValueOf
    <2>4. ValuesInPlace'
      BY <1>3, <1>4, <2>1, <2>2, <2>3 DEF ValuesInPlace, ColumnOf, ValueOf, AtPosition, Position
    <2> QED
      BY <2>1, <2>4 DEF ColumnsInv
  <1>7. CASE FixedBranch(e) = 0
    <2>1. values_pc' = "match"
      BY <1>3, <1>7 DEF getAllValues
    <2>2. e \in Seq(Predicate)
      <3>1. CaseInv'
        BY EvaluateExpressionStep
      <3> QED
        BY <1>4, <3>1 DEF CaseInv
    <2>3. FixedBranch(when_predicates)' = 0 /\ Len(case_matches') <= Len(when_predicates')
      BY <1>4, <1>5, <1>7, <2>2
    <2> QED
      BY <1>4, <2>1, <2>3 DEF ColumnsInv, ValuesInPlace
  <1> QED
    BY <1>6, <1>7

LEMMA WhenMatchedColumns ==
  ASSUME SelectInv, ColumnsInv, WhenMatched
  PROVE  ColumnsInv'
  <1>1. /\ values_pc = "match" /\ matches # NULL
        /\ case_matches' = Append(case_matches, matches)
        /\ UNCHANGED <<node, meaning, values_pc, when_predicates, case_results, multiplexed>>
    BY DEF WhenMatched
  <1>2. /\ Len(case_matches) < Len(when_predicates) /\ case_matches \in Seq(SUBSET Ids)
        /\ when_predicates \in Seq(Predicate)
    BY <1>1 DEF SelectInv, OperatorInv, CaseInv
  <1>3. Len(case_matches') <= Len(when_predicates')
    BY <1>1, <1>2
  <1>4. FixedBranch(when_predicates)' = FixedBranch(when_predicates)
    BY <1>1 DEF FixedBranch, Else, hasStaticResult, getStaticResult
  <1> QED
    BY <1>1, <1>3, <1>4 DEF ColumnsInv, ValuesInPlace

\* Steps that leave everything but the columns alone.
LEMMA SameBranches ==
  ASSUME UNCHANGED <<node, meaning, batch, when_predicates, accessor_sequence>>
  PROVE  /\ AccessorIds' = AccessorIds
         /\ FixedBranch(when_predicates)' = FixedBranch(when_predicates)
         /\ \A t : FirstMatch(when_predicates, t)' = FirstMatch(when_predicates, t)
         /\ \A k : Branch(k)' = Branch(k)
         /\ \A k, S : ColumnOf(k, S)' = ColumnOf(k, S)
         /\ \A j : TupleAt(j)' = TupleAt(j)
  <1>1. AccessorIds' = AccessorIds
    BY DEF AccessorIds, Given, Ids
  <1>2. \A e, t : FirstMatch(e, t)' = FirstMatch(e, t)
    BY SamePredicates
  <1>3. \A e : FixedBranch(e)' = FixedBranch(e)
    BY DEF FixedBranch, Else, hasStaticResult, getStaticResult
  <1>4. \A k : Branch(k)' = Branch(k)
    BY <1>1, <1>2 DEF Branch
  <1>5. \A k, S : ColumnOf(k, S)' = ColumnOf(k, S)
    BY DEF ColumnOf, ValueOf, AtPosition, Position
  <1>6. \A j : TupleAt(j)' = TupleAt(j)
    BY <1>1 DEF TupleAt, AtPosition, Position
  <1> QED
    BY <1>1, <1>2, <1>3, <1>4, <1>5, <1>6

LEMMA AllMatchedColumns ==
  ASSUME SelectInv, ColumnsInv, AllMatched
  PROVE  ColumnsInv'
  <1>1. /\ values_pc = "match" /\ values_pc' = "evaluate"
        /\ Len(case_matches) = Len(when_predicates) \/ else_matches = {}
        /\ UNCHANGED <<node, meaning, batch, when_predicates, accessor_sequence, else_matches,
             case_matches, case_results, multiplexed, output>>
    BY DEF AllMatched, predicateVars
  <1>2. /\ FixedBranch(when_predicates) = 0 /\ Len(case_matches) <= Len(when_predicates)
        /\ case_results = <<>> /\ multiplexed = 0
    BY <1>1 DEF ColumnsInv
  <1>3. case_results' \in Seq({}) /\ Len(case_results') = 0 /\ case_matches \in Seq(SUBSET Ids)
    BY <1>1, <1>2, BranchFacts
  <1>4. FixedBranch(when_predicates)' = FixedBranch(when_predicates)
    BY <1>1, SameBranches
  <1>5. Len(case_results') <= Len(case_matches')
    BY <1>1, <1>3
  <1>6. \E S : case_results' \in Seq(S)
    BY <1>3
  <1>7. \A k \in 1 .. Len(case_results') : FALSE
    BY <1>3
  <1> QED
    BY <1>1, <1>2, <1>4, <1>5, <1>6, <1>7 DEF ColumnsInv, ValuesInPlace

\* A column is added for the branch that comes next.
LEMMA ColumnAdded ==
  ASSUME ColumnsInv, values_pc = "evaluate", NEW k, k = Len(case_results) + 1,
         UNCHANGED <<node, meaning, batch, when_predicates, accessor_sequence>>,
         case_results' = Append(case_results, ColumnOf(k, Branch(k)))
  PROVE  /\ Len(case_results') = k /\ \E S : case_results' \in Seq(S)
         /\ \A i \in 1 .. k : case_results'[i] = (ColumnOf(i, Branch(i)))'
  <1> DEFINE column == ColumnOf(k, Branch(k))
  <1>1. PICK S : case_results \in Seq(S)
    BY DEF ColumnsInv
  <1>2. case_results \in Seq(S \cup {column})
    BY <1>1
  <1>3. case_results' = Append(case_results, column)
    OBVIOUS
  <1>4. \A i : (ColumnOf(i, Branch(i)))' = ColumnOf(i, Branch(i))
    <2> SUFFICES ASSUME NEW i PROVE (ColumnOf(i, Branch(i)))' = ColumnOf(i, Branch(i))
      OBVIOUS
    <2>1. PICK B : B = Branch(i)
      OBVIOUS
    <2>2. Branch(i)' = B /\ ColumnOf(i, B)' = ColumnOf(i, B)
      BY <2>1, SameBranches
    <2> QED
      BY <2>1, <2>2
  <1>5. \A i \in 1 .. Len(case_results) : case_results[i] = ColumnOf(i, Branch(i))
    BY DEF ColumnsInv
  <1>6. column = ColumnOf(k, Branch(k))
    OBVIOUS
  <1>7. PICK c : c = column
    OBVIOUS
  <1> HIDE DEF column
  <1>8. /\ Len(case_results') = k /\ case_results' \in Seq(S \cup {c})
        /\ case_results'[k] = c
        /\ \A i \in 1 .. Len(case_results) : case_results'[i] = case_results[i]
    BY <1>2, <1>3, <1>7
  <1>9. \A i \in 1 .. k : i = k \/ i \in 1 .. Len(case_results)
    BY <1>1
  <1> QED
    BY <1>4, <1>5, <1>6, <1>7, <1>8, <1>9

LEMMA EvaluateThenColumns ==
  ASSUME SelectInv, ColumnsInv, EvaluateThen
  PROVE  ColumnsInv'
  <1>1. PICK k : k = Len(case_results) + 1
    OBVIOUS
  <1>2. /\ values_pc = "evaluate" /\ Len(case_results) < Len(case_matches)
        /\ case_results' = Append(case_results, ColumnOf(k, case_matches[k]))
        /\ UNCHANGED <<node, meaning, batch, values_pc, when_predicates, accessor_sequence,
             else_matches, case_matches, multiplexed, output>>
    BY <1>1 DEF EvaluateThen, predicateVars
  <1>3. case_matches \in Seq(SUBSET Ids) /\ \E S : case_results \in Seq(S)
    BY <1>2, BranchFacts DEF ColumnsInv
  <1>4. k \in 1 .. Len(case_matches)
    BY <1>1, <1>2, <1>3
  <1>5. case_matches[k] = Branch(k)
    BY <1>2, <1>4, MatchesAreBranches
  <1>6. /\ Len(case_results') = k /\ \E S : case_results' \in Seq(S)
        /\ \A i \in 1 .. k : case_results'[i] = (ColumnOf(i, Branch(i)))'
    BY <1>1, <1>2, <1>5, ColumnAdded
  <1>7. FixedBranch(when_predicates)' = FixedBranch(when_predicates)
    BY <1>2, SameBranches
  <1>8. k <= Len(case_matches)
    BY <1>3, <1>4
  <1> QED
    BY <1>2, <1>6, <1>7, <1>8 DEF ColumnsInv, ValuesInPlace

LEMMA EvaluateElseColumns ==
  ASSUME SelectInv, ColumnsInv, EvaluateElse
  PROVE  ColumnsInv'
  <1>1. /\ values_pc = "evaluate" /\ values_pc' = "multiplex"
        /\ Len(case_results) = Len(case_matches)
        /\ output' = [j \in 1 .. Cardinality(AccessorIds) |-> NULL]
        /\ UNCHANGED <<node, meaning, batch, when_predicates, accessor_sequence, else_matches,
             case_matches, multiplexed>>
    BY DEF EvaluateElse, predicateVars
  <1>2. /\ case_matches \in Seq(SUBSET Ids) /\ when_predicates \in Seq(Predicate)
        /\ \E S : case_results \in Seq(S)
        /\ Len(case_matches) = Len(when_predicates) \/ else_matches = {}
        /\ Len(case_matches) <= Len(when_predicates)
        /\ multiplexed = 0 /\ FixedBranch(when_predicates) = 0
    BY <1>1, BranchFacts DEF ColumnsInv
  <1>3. /\ AccessorIds' = AccessorIds
        /\ FixedBranch(when_predicates)' = FixedBranch(when_predicates)
        /\ \A t : FirstMatch(when_predicates, t)' = FirstMatch(when_predicates, t)
        /\ \A j : TupleAt(j)' = TupleAt(j)
    BY <1>1, SameBranches
  <1>4. /\ \/ Len(case_results') = Len(case_matches) /\ else_matches = {}
           \/ /\ Len(case_results') = Len(case_matches) + 1
              /\ Len(case_matches) = Len(when_predicates)
        /\ \E S : case_results' \in Seq(S)
        /\ Len(case_results') \in Nat
        /\ (\A k \in 1 .. Len(case_results) : case_results[k] = ColumnOf(k, Branch(k)))'
    <2>1. CASE else_matches = {}
      <3>1. case_results' = case_results
        BY <2>1 DEF EvaluateElse
      <3>2. \A k \in 1 .. Len(case_results) : case_results[k] = ColumnOf(k, Branch(k))
        BY <1>1 DEF ColumnsInv
      <3>3. \A k : (ColumnOf(k, Branch(k)))' = ColumnOf(k, Branch(k))
        <4> SUFFICES ASSUME NEW k PROVE (ColumnOf(k, Branch(k)))' = ColumnOf(k, Branch(k))
          OBVIOUS
        <4>1. PICK B : B = Branch(k)
          OBVIOUS
        <4>2. Branch(k)' = B /\ ColumnOf(k, B)' = ColumnOf(k, B)
          BY <1>1, <4>1, SameBranches
        <4> QED
          BY <4>1, <4>2
      <3> QED
        BY <1>1, <1>2, <2>1, <3>1, <3>2, <3>3
    <2>2. CASE else_matches # {}
      <3>1. PICK k : k = Len(case_results) + 1
        OBVIOUS
      <3>2. k = Len(when_predicates) + 1 /\ else_matches = Branch(k)
        BY <1>1, <1>2, <2>2, <3>1, MatchesAreBranches
      <3>3. case_results' = Append(case_results, ColumnOf(k, Branch(k)))
        BY <2>2, <3>2 DEF EvaluateElse, Else
      <3>4. /\ Len(case_results') = k /\ \E S : case_results' \in Seq(S)
            /\ \A i \in 1 .. k : case_results'[i] = (ColumnOf(i, Branch(i)))'
        BY <1>1, <3>1, <3>3, ColumnAdded
      <3>5. k \in Nat
        BY <1>2, <3>2
      <3> QED
        BY <1>1, <1>2, <2>2, <3>1, <3>4, <3>5
    <2> QED
      BY <2>1, <2>2
  <1>5. \A t : ~(FirstMatch(when_predicates, t) <= 0)
    BY <1>1, BranchFacts
  <1>6. multiplexed' \in 0 .. Len(case_results')
    BY <1>1, <1>2, <1>4
  <1>7. output' = [j \in 1 .. Cardinality(AccessorIds') |-> output'[j]]
    BY <1>1, <1>3
  <1>8. (\A j \in 1 .. Cardinality(AccessorIds) :
           FirstMatch(when_predicates, TupleAt(j)) <= multiplexed =>
             output[j] = ValueOf(FirstMatch(when_predicates, TupleAt(j)), TupleAt(j)))'
    <2>1. \A j : ~(FirstMatch(when_predicates, TupleAt(j))' <= 0)
      BY <1>1, <1>3, <1>5
    <2>2. multiplexed' = 0
      BY <1>1, <1>2
    <2> QED
      BY <2>1, <2>2
  <1> QED
    BY <1>1, <1>2, <1>3, <1>4, <1>6, <1>7, <1>8 DEF ColumnsInv, ValuesInPlace

\* Writing the column of branch k puts the values of its tuples in their places.
LEMMA MultiplexPlaces ==
  ASSUME SelectInv, values_pc = "multiplex", NEW k,
         output = [j \in 1 .. Cardinality(AccessorIds) |-> output[j]]
  PROVE  Multiplex(ColumnOf(k, Branch(k)), Branch(k)) =
           [j \in 1 .. Cardinality(AccessorIds) |->
              IF FirstMatch(when_predicates, TupleAt(j)) = k THEN ValueOf(k, TupleAt(j))
                                                             ELSE output[j]]
  <1> DEFINE column == ColumnOf(k, Branch(k))
             n == Cardinality(AccessorIds)
  <1>1. /\ AccessorIds \in SUBSET Nat /\ IsFiniteSet(AccessorIds) /\ n \in Nat
        /\ Branch(k) \in SUBSET AccessorIds /\ IsFiniteSet(Branch(k))
        /\ \A j \in 1 .. n : AtPosition(AccessorIds, j) \in AccessorIds
        /\ accessor_sequence = NULL => \A j \in 1 .. n : AtPosition(AccessorIds, j) = j
    BY BranchFacts
  <1>2. \A t \in Branch(k) : column[Position(Branch(k), t)] = ValueOf(k, batch[t])
    <2> SUFFICES ASSUME NEW t \in Branch(k)
                 PROVE  column[Position(Branch(k), t)] = ValueOf(k, batch[t])
      OBVIOUS
    <2>1. PICK B : B = Branch(k)
      OBVIOUS
    <2>2. /\ B \in SUBSET Nat /\ IsFiniteSet(B) /\ t \in B
      BY <1>1, <2>1
    <2>3. Position(B, t) \in 1 .. Cardinality(B) /\ AtPosition(B, Position(B, t)) = t
      BY <2>2, PositionFacts, AtPositionFacts
    <2> QED
      BY <2>1, <2>3 DEF ColumnOf
  <1>3. \A j \in 1 .. n : AtPosition(AccessorIds, j) \in Branch(k)
                            <=> FirstMatch(when_predicates, TupleAt(j)) = k
    BY <1>1 DEF Branch, TupleAt
  <1>4. DOMAIN output = 1 .. n
    OBVIOUS
  <1> HIDE DEF column
  <1>5. CASE accessor_sequence = NULL
    <2>1. Multiplex(column, Branch(k)) =
            [t \in 1 .. n |-> IF t \in Branch(k) THEN column[Position(Branch(k), t)] ELSE output[t]]
      BY <1>4, <1>5 DEF Multiplex
    <2>2. \A j \in 1 .. n : /\ AtPosition(AccessorIds, j) = j
                            /\ j \in Branch(k) <=> FirstMatch(when_predicates, TupleAt(j)) = k
                            /\ TupleAt(j) = batch[j]
      BY <1>1, <1>3, <1>5 DEF TupleAt
    <2> QED
      BY <1>2, <2>1, <2>2 DEF column
  <1>6. CASE accessor_sequence # NULL
    <2>1. AccessorIds = accessor_sequence
      BY <1>6 DEF AccessorIds, Given
    <2>2. Multiplex(column, Branch(k)) =
            [j \in 1 .. n |->
               IF AtPosition(AccessorIds, j) \in Branch(k)
               THEN column[Position(Branch(k), AtPosition(AccessorIds, j))] ELSE output[j]]
      BY <1>4, <1>6, <2>1 DEF Multiplex
    <2> QED
      BY <1>2, <1>3, <2>2 DEF column, TupleAt
  <1> QED
    BY <1>5, <1>6

LEMMA MultiplexColumns ==
  ASSUME SelectInv, ColumnsInv, MultiplexColumn
  PROVE  ColumnsInv'
  <1>1. PICK m : m = multiplexed + 1
    OBVIOUS
  <1>2. /\ values_pc = "multiplex" /\ multiplexed < Len(case_results) /\ multiplexed' = m
        /\ output' = Multiplex(case_results[m],
                               IF m <= Len(case_matches) THEN case_matches[m] ELSE else_matches)
        /\ UNCHANGED <<node, meaning, batch, values_pc, when_predicates, accessor_sequence,
             else_matches, case_matches, case_results>>
    BY <1>1 DEF MultiplexColumn, predicateVars
  <1>3. /\ case_matches \in Seq(SUBSET Ids) /\ when_predicates \in Seq(Predicate)
        /\ \E S : case_results \in Seq(S)
        /\ \/ Len(case_results) = Len(case_matches) /\ else_matches = {}
           \/ /\ Len(case_results) = Len(case_matches) + 1
              /\ Len(case_matches) = Len(when_predicates)
        /\ multiplexed \in 0 .. Len(case_results)
        /\ output = [j \in 1 .. Cardinality(AccessorIds) |-> output[j]]
        /\ \A j \in 1 .. Cardinality(AccessorIds) :
             FirstMatch(when_predicates, TupleAt(j)) <= multiplexed =>
               output[j] = ValueOf(FirstMatch(when_predicates, TupleAt(j)), TupleAt(j))
        /\ \A k \in 1 .. Len(case_results) : case_results[k] = ColumnOf(k, Branch(k))
    BY <1>2, BranchFacts DEF ColumnsInv
  <1>4. /\ Len(case_results) \in Nat /\ Len(case_matches) \in Nat
        /\ m \in 1 .. Len(case_results) /\ multiplexed \in Nat
    BY <1>1, <1>2, <1>3
  <1>5. (IF m <= Len(case_matches) THEN case_matches[m] ELSE else_matches) = Branch(m)
    <2>1. CASE m <= Len(case_matches)
      <3>1. m \in 1 .. Len(case_matches)
        BY <1>4, <2>1
      <3> QED
        BY <1>2, <2>1, <3>1, MatchesAreBranches
    <2>2. CASE ~(m <= Len(case_matches))
      <3>1. m = Len(when_predicates) + 1 /\ Len(case_matches) = Len(when_predicates)
        BY <1>3, <1>4, <2>2
      <3> QED
        BY <1>2, <2>2, <3>1, MatchesAreBranches
    <2> QED
      BY <2>1, <2>2
  <1>6. output' = [j \in 1 .. Cardinality(AccessorIds) |->
                     IF FirstMatch(when_predicates, TupleAt(j)) = m THEN ValueOf(m, TupleAt(j))
                                                                    ELSE output[j]]
    <2>1. output' = Multiplex(ColumnOf(m, Branch(m)), Branch(m))
      BY <1>2, <1>3, <1>4, <1>5
    <2> QED
      BY <1>2, <1>3, <2>1, MultiplexPlaces
  <1>7. /\ AccessorIds' = AccessorIds
        /\ FixedBranch(when_predicates)' = FixedBranch(when_predicates)
        /\ \A t : FirstMatch(when_predicates, t)' = FirstMatch(when_predicates, t)
        /\ \A j : TupleAt(j)' = TupleAt(j)
        /\ \A k : Branch(k)' = Branch(k)
        /\ \A k, S : ColumnOf(k, S)' = ColumnOf(k, S)
    BY <1>2, SameBranches
  <1>8. output' = [j \in 1 .. Cardinality(AccessorIds') |-> output'[j]]
    BY <1>6, <1>7
  <1>9. \A t : FirstMatch(when_predicates, t) <= m =>
                 FirstMatch(when_predicates, t) = m \/ FirstMatch(when_predicates, t) <= multiplexed
    <2>1. \A t : FirstMatch(when_predicates, t) \in Int
      BY <1>2, BranchFacts
    <2> QED
      BY <1>1, <1>4, <2>1
  <1>10. \A j \in 1 .. Cardinality(AccessorIds) :
           FirstMatch(when_predicates, TupleAt(j)) <= m =>
             output'[j] = ValueOf(FirstMatch(when_predicates, TupleAt(j)), TupleAt(j))
    BY <1>3, <1>6, <1>9
  <1>11. (\A j \in 1 .. Cardinality(AccessorIds) :
            FirstMatch(when_predicates, TupleAt(j)) <= multiplexed =>
              output[j] = ValueOf(FirstMatch(when_predicates, TupleAt(j)), TupleAt(j)))'
    <2>1. \A j : FirstMatch(when_predicates, TupleAt(j))' = FirstMatch(when_predicates, TupleAt(j))
      BY <1>2, <1>7
    <2> QED
      BY <1>2, <1>7, <1>10, <2>1 DEF ValueOf
  <1>12. (\A k \in 1 .. Len(case_results) : case_results[k] = ColumnOf(k, Branch(k)))'
    <2>1. \A k : (ColumnOf(k, Branch(k)))' = ColumnOf(k, Branch(k))
      <3> SUFFICES ASSUME NEW k PROVE (ColumnOf(k, Branch(k)))' = ColumnOf(k, Branch(k))
        OBVIOUS
      <3>1. PICK B : B = Branch(k)
        OBVIOUS
      <3>2. Branch(k)' = B /\ ColumnOf(k, B)' = ColumnOf(k, B)
        BY <1>7, <3>1
      <3> QED
        BY <3>1, <3>2
    <2> QED
      BY <1>2, <1>3, <2>1
  <1>13. multiplexed' \in 0 .. Len(case_results')
    BY <1>2, <1>4
  <1>14. /\ FixedBranch(when_predicates) = 0 /\ Len(case_matches) <= Len(when_predicates)
         /\ Len(case_matches) = Len(when_predicates) \/ else_matches = {}
    BY <1>2 DEF ColumnsInv
  <1> QED
    BY <1>2, <1>3, <1>7, <1>8, <1>11, <1>12, <1>13, <1>14 DEF ColumnsInv, ValuesInPlace

\* When all columns are written, every tuple's branch is.
LEMMA AllMultiplexedColumns ==
  ASSUME SelectInv, ColumnsInv, AllMultiplexed
  PROVE  ColumnsInv'
  <1>1. /\ values_pc = "multiplex" /\ values_pc' = "done" /\ multiplexed = Len(case_results)
        /\ UNCHANGED <<node, meaning, batch, when_predicates, accessor_sequence, output>>
    BY DEF AllMultiplexed, predicateVars
  <1>2. /\ \/ Len(case_results) = Len(case_matches) /\ else_matches = {}
           \/ /\ Len(case_results) = Len(case_matches) + 1
              /\ Len(case_matches) = Len(when_predicates)
        /\ output = [j \in 1 .. Cardinality(AccessorIds) |-> output[j]]
        /\ \A j \in 1 .. Cardinality(AccessorIds) :
             FirstMatch(when_predicates, TupleAt(j)) <= multiplexed =>
               output[j] = ValueOf(FirstMatch(when_predicates, TupleAt(j)), TupleAt(j))
        /\ FixedBranch(when_predicates) = 0
    BY <1>1 DEF ColumnsInv
  <1>3. /\ case_matches \in Seq(SUBSET Ids) /\ when_predicates \in Seq(Predicate)
        /\ \A j \in 1 .. Cardinality(AccessorIds) : AtPosition(AccessorIds, j) \in AccessorIds
        /\ \A t : FirstMatch(when_predicates, t) \in 1 .. Len(when_predicates) + 1
    BY <1>1, BranchFacts
  <1>4. \A t \in AccessorIds : FirstMatch(when_predicates, batch[t]) <= multiplexed
    <2>1. CASE else_matches = {} /\ Len(case_results) = Len(case_matches)
      <3>1. \A t \in AccessorIds : ~(FirstMatch(when_predicates, batch[t]) > Len(case_matches))
        BY <1>1, <2>1, MatchesAreBranches
      <3> QED
        BY <1>1, <1>3, <2>1, <3>1
    <2>2. CASE /\ Len(case_results) = Len(case_matches) + 1
               /\ Len(case_matches) = Len(when_predicates)
      BY <1>1, <1>3, <2>2
    <2> QED
      BY <1>2, <2>1, <2>2
  <1>5. \A j \in 1 .. Cardinality(AccessorIds) :
          output[j] = getValueForSingleTuple(when_predicates, TupleAt(j))
    BY <1>2, <1>3, <1>4 DEF TupleAt, getValueForSingleTuple
  <1>6. output = [j \in 1 .. Cardinality(AccessorIds) |->
                    getValueForSingleTuple(when_predicates, TupleAt(j))]
    BY <1>2, <1>5
  <1>7. /\ AccessorIds' = AccessorIds
        /\ FixedBranch(when_predicates)' = FixedBranch(when_predicates)
        /\ \A t : FirstMatch(when_predicates, t)' = FirstMatch(when_predicates, t)
        /\ \A j : TupleAt(j)' = TupleAt(j)
    BY <1>1, SameBranches
  <1>8. \A j : getValueForSingleTuple(when_predicates, TupleAt(j))'
                 = getValueForSingleTuple(when_predicates, TupleAt(j))
    BY <1>1, <1>7 DEF getValueForSingleTuple, ValueOf
  <1>9. ValuesInPlace'
    <2>1. ValuesInPlace' <=>
            (values_pc' = "done" =>
               output' = [j \in 1 .. Cardinality(AccessorIds') |->
                            getValueForSingleTuple(when_predicates, TupleAt(j))'])
      BY DEF ValuesInPlace, TupleAt
    <2> QED
      BY <1>1, <1>6, <1>7, <1>8, <2>1
  <1> QED
    BY <1>1, <1>9 DEF ColumnsInv

LEMMA NextColumns == SelectInv /\ ColumnsInv /\ [Next]_vars => ColumnsInv'
  <1> SUFFICES ASSUME SelectInv, ColumnsInv, [Next]_vars PROVE ColumnsInv'
    OBVIOUS
  <1>1. ASSUME UNCHANGED <<node, meaning, batch, caseVars>> PROVE ColumnsInv'
    BY <1>1, SameColumns
  <1>2. CASE Build \/ close \/ NextInput
    <2>1. pc \in {"ready", "input"} /\ values_pc' = values_pc
      BY <1>2 DEF Build, close, NextInput, caseVars, SelectInv, OperatorInv
    <2> QED
      BY <2>1, QuietFacts, NoColumns
  <1>3. CASE open \/ (\E batches \in Inputs : next(batches)) \/ UNCHANGED vars
    BY <1>1, <1>3 DEF open, next, vars, predicateVars
  <1>4. CASE Filter
    BY <1>1, <1>4 DEF Filter, ApplyPredicate, PredicateApplied, AllApplied, getAllMatches,
                      predicateVars
  <1>5. CASE SelectAttributes \/ SelectValues
    BY <1>1, <1>5 DEF SelectAttributes, SelectValues, predicateVars
  <1>6. CASE ExpressionEvaluated
    BY <1>6, NoColumns DEF ExpressionEvaluated
  <1>7. CASE PredicateStep
    BY <1>1, <1>7 DEF PredicateStep, EvaluateOperand, CallOperand, Return
  <1>8. CASE MatchWhen
    BY <1>1, <1>8 DEF MatchWhen, getAllMatches
  <1> QED
    BY <1>2, <1>3, <1>4, <1>5, <1>6, <1>7, <1>8, EvaluateExpressionColumns, WhenMatchedColumns,
       AllMatchedColumns, EvaluateThenColumns, EvaluateElseColumns, MultiplexColumns,
       AllMultiplexedColumns DEF Next, Select, ScalarStep, CaseStep

\* A CASE gives at each position of its accessor what it gives for that tuple alone,
\* whatever branches the tuples go to and whatever the filter has left out.
THEOREM ValuesCorrect == Spec => []ValuesInPlace
  <1>1. Init => ColumnsInv
    BY DEF Init, CaseInit, ColumnsInv, ValuesInPlace
  <1>2. ColumnsInv => ValuesInPlace
    BY DEF ColumnsInv
  <1> QED
    BY <1>1, <1>2, NextColumns, SelectInvariant, PTL DEF Spec

-----------------------------------------------------------------------------
(***************************************************************************)
(* The operator implements Selection.                                      *)
(***************************************************************************)
\* The tuples that have passed the filters, and the column that expression c is to
\* give for them.
Chosen == Given(filter_result, NULL)

ColumnWanted(c) ==
  [j \in 1 .. Cardinality(Chosen) |->
     getValueForSingleTuple(select_spec_.select_expressions[c], batch[AtPosition(Chosen, j)])]

\* Where next() is among its inputs and among the expressions of its spec, and what
\* it has got of them.
RowsInv ==
  /\ select_spec_ # NULL /\ ~select_spec_.simple_projection_ =>
       select_spec_.select_expressions # <<>>
  /\ select_spec_ = NULL => inputs = <<>> /\ outputs = <<>>
  /\ pc = "ready" => Len(outputs) = Len(inputs)
  /\ pc = "input" => Len(outputs) <= Len(inputs)
  /\ pc \in {"filter", "select"} =>
       Len(outputs) < Len(inputs) /\ batch = inputs[Len(outputs) + 1]
  /\ pc = "filter" => columns = <<>>
  /\ pc = "select" => /\ filters = Len(select_spec_.predicates)
                      /\ Len(columns) <= Len(select_spec_.select_expressions)
                      /\ \A c \in 1 .. Len(columns) : columns[c] = ColumnWanted(c)
  /\ values_pc # "idle" =>
       /\ Len(columns) < Len(select_spec_.select_expressions)
       /\ when_predicates = select_spec_.select_expressions[Len(columns) + 1]
       /\ accessor_sequence = filter_result

\* What the invariants say of the lengths.
LEMMA LengthFacts ==
  ASSUME SelectInv
  PROVE  /\ Len(inputs) \in Nat /\ Len(outputs) \in Nat /\ Len(columns) \in Nat
         /\ select_spec_ # NULL =>
              /\ Len(select_spec_.predicates) \in Nat
              /\ DOMAIN select_spec_.predicates = 1 .. Len(select_spec_.predicates)
              /\ Len(select_spec_.select_expressions) \in Nat
              /\ DOMAIN select_spec_.select_expressions
                   = 1 .. Len(select_spec_.select_expressions)
         /\ DOMAIN columns = 1 .. Len(columns)
  <1>1. inputs \in Seq(BatchSet) /\ (\E S : outputs \in Seq(S)) /\ (\E S : columns \in Seq(S))
    BY DEF SelectInv, OperatorInv
  <1>2. select_spec_ # NULL => /\ select_spec_.predicates \in Seq(Predicate)
                               /\ select_spec_.select_expressions \in Seq(Seq(Predicate))
    BY DEF SelectInv, OperatorInv, SpecOK
  <1>3. Len(outputs) \in Nat
    BY <1>1
  <1>4. Len(columns) \in Nat /\ DOMAIN columns = 1 .. Len(columns)
    BY <1>1
  <1>5. Len(inputs) \in Nat
    BY <1>1
  <1> QED
    BY <1>2, <1>3, <1>4, <1>5

\* While the predicates are the same, so are the values they choose.
LEMMA SameValues ==
  ASSUME UNCHANGED <<node, meaning>>
  PROVE  \A e, t : getValueForSingleTuple(e, t)' = getValueForSingleTuple(e, t)
  <1>1. \A e, t : FirstMatch(e, t)' = FirstMatch(e, t)
    BY SamePredicates
  <1>2. \A e : FixedBranch(e)' = FixedBranch(e)
    BY DEF FixedBranch, Else, hasStaticResult, getStaticResult
  <1> QED
    BY <1>1, <1>2 DEF getValueForSingleTuple, ValueOf

LEMMA SameWanted ==
  ASSUME UNCHANGED <<node, meaning, batch, select_spec_, filter_result>>
  PROVE  Chosen' = Chosen /\ \A c : ColumnWanted(c)' = ColumnWanted(c)
  <1>1. Chosen' = Chosen
    BY DEF Chosen, Given, Ids
  <1>2. \A e, t : getValueForSingleTuple(e, t)' = getValueForSingleTuple(e, t)
    BY SameValues
  <1>3. \A j : AtPosition(Chosen, j)' = AtPosition(Chosen, j)
    BY <1>1 DEF AtPosition, Position
  <1>4. ASSUME NEW c PROVE ColumnWanted(c)' = ColumnWanted(c)
    BY <1>1, <1>2, <1>3 DEF ColumnWanted
  <1> QED
    BY <1>1, <1>4

\* A spec has expressions if it does not select attributes.
LEMMA SpecSelects ==
  ASSUME NEW spec \in Specs
  PROVE  ~spec.simple_projection_ => spec.select_expressions # <<>>
  <1>1. CASE spec \in [predicates : Filterings, select_expressions : {<<>>},
                       simple_projection_ : {TRUE}]
    BY <1>1
  <1>2. ASSUME NEW s \in Filterings, NEW n \in 0 .. Len(s),
               spec = [predicates |-> SubSeq(s, 1, n),
                       select_expressions |-> <<SubSeq(s, n + 1, Len(s)), <<>> >>,
                       simple_projection_ |-> FALSE]
        PROVE  spec.select_expressions # <<>>
    <2>1. PICK e : e = SubSeq(s, n + 1, Len(s))
      OBVIOUS
    <2>2. spec.select_expressions = << e, <<>> >>
      BY <1>2, <2>1
    <2> QED
      BY <2>2
  <1> QED
    BY <1>1, <1>2 DEF Specs

\* The steps outside of the loop over the inputs.
LEMMA OuterRows ==
  ASSUME SelectInv, RowsInv,
         Build \/ open \/ close \/ (\E batches \in Inputs : next(batches))
  PROVE  RowsInv'
  <1>1. CASE Build
    <2>1. /\ select_spec_ = NULL /\ pc = "ready" /\ values_pc = "idle"
          /\ UNCHANGED <<select_spec_, pc, inputs, outputs, values_pc>>
      BY <1>1 DEF Build, SelectInv, OperatorInv, caseVars, operatorVars
    <2> QED
      BY <2>1 DEF RowsInv
  <1>2. CASE open
    <2>1. /\ pc = "ready" /\ values_pc = "idle"
          /\ UNCHANGED <<pc, inputs, outputs, values_pc>>
      BY <1>2 DEF open, SelectInv, OperatorInv, caseVars
    <2>2. PICK spec \in Specs : spec = select_spec_'
      BY <1>2 DEF open
    <2>3. ~select_spec_'.simple_projection_ => select_spec_'.select_expressions # <<>>
      BY <2>2, SpecSelects
    <2>4. inputs = <<>> /\ outputs = <<>>
      BY <1>2 DEF open, RowsInv
    <2> QED
      BY <2>1, <2>3, <2>4 DEF RowsInv
  <1>3. CASE close
    <2>1. /\ pc' = "ready" /\ values_pc' = "idle" /\ select_spec_' = NULL
          /\ inputs' = <<>> /\ outputs' = <<>>
      BY <1>3, QuietFacts DEF close, caseVars
    <2> QED
      BY <2>1 DEF RowsInv
  <1>4. ASSUME NEW batches \in Inputs, next(batches) PROVE RowsInv'
    <2>1. /\ pc' = "input" /\ values_pc' = "idle" /\ select_spec_ # NULL
          /\ inputs' = batches /\ outputs' = <<>> /\ UNCHANGED select_spec_
      BY <1>4, QuietFacts DEF next, caseVars
    <2>2. Len(batches) \in Nat
      BY BatchesFacts
    <2>3. Len(outputs') <= Len(inputs')
      BY <2>1, <2>2
    <2> QED
      BY <2>1, <2>3 DEF RowsInv
  <1> QED
    BY <1>1, <1>2, <1>3, <1>4

\* The next input is taken, or there is none left.
LEMMA NextInputRows ==
  ASSUME SelectInv, RowsInv, NextInput
  PROVE  RowsInv'
  <1>1. /\ pc = "input" /\ values_pc' = "idle" /\ select_spec_ # NULL /\ columns' = <<>>
        /\ UNCHANGED <<select_spec_, inputs, outputs>>
    BY QuietFacts DEF NextInput, caseVars, SelectInv, OperatorInv
  <1>2. Len(inputs) \in Nat /\ Len(outputs) \in Nat /\ Len(outputs) <= Len(inputs)
    BY <1>1, LengthFacts DEF RowsInv
  <1>3. CASE Len(outputs) < Len(inputs)
    <2>1. pc' = "filter" /\ batch' = inputs[Len(outputs) + 1]
      BY <1>3 DEF NextInput
    <2> QED
      BY <1>1, <1>3, <2>1 DEF RowsInv
  <1>4. CASE ~(Len(outputs) < Len(inputs))
    <2>1. pc' = "ready" /\ Len(outputs) = Len(inputs)
      BY <1>2, <1>4 DEF NextInput
    <2> QED
      BY <1>1, <2>1 DEF RowsInv
  <1> QED
    BY <1>3, <1>4

\* The steps of a call of getAllMatches(), of the filter and of a CASE: they change
\* neither the rows nor the columns.
LEMMA QuietRows ==
  ASSUME RowsInv,
         UNCHANGED <<node, meaning, batch, select_spec_, inputs, outputs, filter_result,
                     filters, columns>>,
         pc' = pc,
         values_pc' # "idle" => values_pc # "idle" /\ UNCHANGED <<when_predicates, accessor_sequence>>
  PROVE  RowsInv'
  <1>1. \A c : ColumnWanted(c)' = ColumnWanted(c)
    BY SameWanted
  <1> QED
    BY <1>1 DEF RowsInv

LEMMA FilterRows ==
  ASSUME SelectInv, RowsInv, Filter
  PROVE  RowsInv'
  <1>1. CASE ApplyPredicate
    <2>1. /\ pc' = pc /\ values_pc' = values_pc
          /\ UNCHANGED <<node, meaning, batch, select_spec_, inputs, outputs, filter_result,
                         filters, columns, when_predicates, accessor_sequence>>
      BY <1>1 DEF ApplyPredicate, getAllMatches, caseVars, operatorVars
    <2> QED
      BY <2>1, QuietRows
  <1>2. CASE PredicateApplied
    <2>1. /\ pc = "filter" /\ pc' = pc /\ values_pc' = "idle"
          /\ UNCHANGED <<batch, select_spec_, inputs, outputs, columns>>
      BY <1>2 DEF PredicateApplied, caseVars, SelectInv, OperatorInv
    <2> QED
      BY <2>1 DEF RowsInv
  <1>3. CASE AllApplied
    <2>1. /\ pc = "filter" /\ pc' = "select" /\ values_pc' = "idle" /\ select_spec_ # NULL
          /\ filters = Len(select_spec_.predicates)
          /\ UNCHANGED <<batch, select_spec_, inputs, outputs, columns, filters>>
      BY <1>3 DEF AllApplied, predicateVars, caseVars, SelectInv, OperatorInv
    <2>2. columns = <<>> /\ Len(columns) = 0
      BY <2>1 DEF RowsInv
    <2>3. Len(columns) <= Len(select_spec_.select_expressions)
      BY <2>1, <2>2, LengthFacts
    <2>4. \A c \in 1 .. Len(columns)' : columns'[c] = ColumnWanted(c)'
      BY <2>1, <2>2
    <2> QED
      BY <2>1, <2>3, <2>4 DEF RowsInv
  <1> QED
    BY <1>1, <1>2, <1>3 DEF Filter

\* The output of a batch is written.
LEMMA OutputRows ==
  ASSUME SelectInv, RowsInv, NEW rows, Output(rows), pc = "select", values_pc' = "idle",
         UNCHANGED <<select_spec_, inputs>>
  PROVE  RowsInv'
  <1>1. pc' = "input" /\ outputs' = Append(outputs, rows) /\ select_spec_ # NULL
    BY DEF Output, SelectInv, OperatorInv
  <1>2. Len(outputs') = Len(outputs) + 1
    <2>1. PICK S : outputs \in Seq(S)
      BY DEF SelectInv, OperatorInv
    <2> QED
      BY <1>1, <2>1
  <1>3. Len(outputs) < Len(inputs) /\ Len(outputs) \in Nat /\ Len(inputs) \in Nat
    BY LengthFacts DEF RowsInv
  <1>4. Len(outputs') <= Len(inputs')
    BY <1>2, <1>3
  <1> QED
    BY <1>1, <1>4 DEF RowsInv

\* An expression is evaluated for the tuples chosen, and its values are a column.
LEMMA ExpressionRows ==
  ASSUME SelectInv, ColumnsInv, RowsInv, EvaluateExpression \/ ExpressionEvaluated
  PROVE  RowsInv'
  <1>1. /\ pc = "select" /\ pc' = pc /\ select_spec_ # NULL
        /\ UNCHANGED <<node, meaning, batch, select_spec_, inputs, outputs, filter_result, filters>>
    BY DEF EvaluateExpression, ExpressionEvaluated, predicateVars, operatorVars, SelectInv, OperatorInv
  <1>2. \A c : ColumnWanted(c)' = ColumnWanted(c)
    BY <1>1, SameWanted
  <1>3. CASE EvaluateExpression
    <2>1. /\ Len(columns) < Len(select_spec_.select_expressions)
          /\ when_predicates' = select_spec_.select_expressions[Len(columns) + 1]
          /\ accessor_sequence' = filter_result /\ UNCHANGED columns
      BY <1>3 DEF EvaluateExpression, getAllValues, operatorVars
    <2> QED
      BY <1>1, <1>2, <2>1 DEF RowsInv
  <1>4. CASE ExpressionEvaluated
    <2>1. /\ values_pc = "done" /\ values_pc' = "idle" /\ columns' = Append(columns, output)
      BY <1>4 DEF ExpressionEvaluated
    <2>2. /\ Len(columns) < Len(select_spec_.select_expressions)
          /\ when_predicates = select_spec_.select_expressions[Len(columns) + 1]
          /\ accessor_sequence = filter_result
      BY <2>1 DEF RowsInv
    <2>3. output = ColumnWanted(Len(columns) + 1)
      <3>1. AccessorIds = Chosen
        BY <2>2 DEF AccessorIds, Chosen
      <3>2. output = [k \in 1 .. Cardinality(AccessorIds) |->
                        getValueForSingleTuple(when_predicates, batch[AtPosition(AccessorIds, k)])]
        BY <2>1 DEF ColumnsInv, ValuesInPlace
      <3> QED
        BY <2>2, <3>1, <3>2 DEF ColumnWanted
    <2>4. /\ Len(columns) \in Nat /\ Len(columns') = Len(columns) + 1
          /\ \A c \in 1 .. Len(columns) : columns'[c] = columns[c]
          /\ columns'[Len(columns) + 1] = output
      <3>1. PICK S : columns \in Seq(S)
        BY DEF SelectInv, OperatorInv
      <3>2. columns \in Seq(S \cup {output})
        BY <3>1
      <3> QED
        BY <2>1, <3>2, AppendProperties
    <2>5. Len(columns') <= Len(select_spec_.select_expressions)
      BY <1>1, <2>2, <2>4, LengthFacts
    <2>6. ASSUME NEW c \in 1 .. Len(columns') PROVE columns'[c] = ColumnWanted(c)
      <3>1. CASE c \in 1 .. Len(columns)
        BY <1>1, <2>4, <3>1 DEF RowsInv
      <3>2. CASE c = Len(columns) + 1
        BY <2>3, <2>4, <3>2
      <3> QED
        BY <2>4, <3>1, <3>2
    <2> QED
      BY <1>1, <1>2, <2>1, <2>5, <2>6 DEF RowsInv
  <1> QED
    BY <1>3, <1>4

LEMMA NextRowsInv == SelectInv /\ ColumnsInv /\ RowsInv /\ [Next]_vars => RowsInv'
  <1> SUFFICES ASSUME SelectInv, ColumnsInv, RowsInv, [Next]_vars PROVE RowsInv'
    OBVIOUS
  <1>1. CASE SelectAttributes \/ SelectValues
    <2>1. /\ pc = "select" /\ values_pc' = values_pc
          /\ UNCHANGED <<select_spec_, inputs>> /\ \E rows : Output(rows)
      BY <1>1 DEF SelectAttributes, SelectValues, caseVars
    <2>2. values_pc = "idle"
      BY <1>1 DEF SelectAttributes, SelectValues, SelectInv, OperatorInv, SpecOK
    <2> QED
      BY <2>1, <2>2, OutputRows
  <1>2. CASE PredicateStep \/ UNCHANGED vars
    <2>1. /\ pc' = pc /\ values_pc' = values_pc
          /\ UNCHANGED <<node, meaning, batch, select_spec_, inputs, outputs, filter_result,
                         filters, columns, when_predicates, accessor_sequence>>
      BY <1>2 DEF PredicateStep, EvaluateOperand, CallOperand, Return, vars, predicateVars,
                  caseVars, operatorVars
    <2> QED
      BY <2>1, QuietRows
  <1>3. CASE ScalarStep
    <2>1. values_pc # "idle"
      BY <1>3 DEF ScalarStep, CaseStep, MatchWhen, WhenMatched, AllMatched, EvaluateThen,
                  EvaluateElse, MultiplexColumn, AllMultiplexed
    <2>2. UNCHANGED <<select_spec_, pc, inputs, outputs, filter_result, filters, columns>>
      BY <1>3 DEF ScalarStep, operatorVars
    <2>3. UNCHANGED <<node, meaning, batch, when_predicates, accessor_sequence>>
      BY <1>3 DEF ScalarStep, CaseStep, MatchWhen, WhenMatched, AllMatched, EvaluateThen,
                  EvaluateElse, MultiplexColumn, AllMultiplexed, getAllMatches, predicateVars, caseVars
    <2> QED
      BY <2>1, <2>2, <2>3, QuietRows
  <1> QED
    BY <1>1, <1>2, <1>3, OuterRows, NextInputRows, FilterRows, ExpressionRows
       DEF Next, Select

\* The spec says the same of the tuples while nothing of it changes.
LEMMA SameQuery == ASSUME UNCHANGED <<node, meaning, select_spec_>> PROVE Query' = Query
  <1>1. \A p : Meaning(p)' = Meaning(p)
    BY SamePredicates
  <1>2. \A e, t : getValueForSingleTuple(e, t)' = getValueForSingleTuple(e, t)
    BY SameValues
  <1>3. { t \in Tuples : \A k \in DOMAIN select_spec_.predicates :
                           t \in Meaning(select_spec_.predicates[k]) }'
          = { t \in Tuples : \A k \in DOMAIN select_spec_.predicates :
                               t \in Meaning(select_spec_.predicates[k]) }
    BY <1>1
  <1>4. [t \in Tuples |->
           IF select_spec_.simple_projection_ THEN <<t>>
           ELSE [c \in DOMAIN select_spec_.select_expressions |->
                   getValueForSingleTuple(select_spec_.select_expressions[c], t)]]'
          = [t \in Tuples |->
               IF select_spec_.simple_projection_ THEN <<t>>
               ELSE [c \in DOMAIN select_spec_.select_expressions |->
                       getValueForSingleTuple(select_spec_.select_expressions[c], t)]]
    BY <1>2
  <1> QED
    BY <1>3, <1>4 DEF Query

\* The fields of the query of an open operator.
LEMMA QueryFields ==
  ASSUME select_spec_ # NULL
  PROVE  /\ Query.where = { t \in Tuples : \A k \in DOMAIN select_spec_.predicates :
                                             t \in Meaning(select_spec_.predicates[k]) }
         /\ DOMAIN Query.row = Tuples
         /\ \A t \in Tuples :
              /\ select_spec_.simple_projection_ => Query.row[t] = <<t>>
              /\ ~select_spec_.simple_projection_ =>
                   Query.row[t] = [c \in DOMAIN select_spec_.select_expressions |->
                     getValueForSingleTuple(select_spec_.select_expressions[c], t)]
  BY DEF Query

LEMMA QueryOpens ==
  ASSUME select_spec_' # NULL
  PROVE  Query'.where \subseteq Tuples /\ DOMAIN Query'.row = Tuples
  BY DEF Query

LEMMA SameCardinality == \A S : Promised!Cardinality(S) = Cardinality(S)
  BY DEF Promised!Cardinality, Cardinality

\* What has passed all filters is what the query selects.
LEMMA ChosenFacts ==
  ASSUME SelectInv, RowsInv, pc = "select"
  PROVE  /\ Promised!Selected(batch) = Chosen
         /\ \A k : Promised!Kth(Chosen, k) = AtPosition(Chosen, k)
         /\ \A k \in 1 .. Cardinality(Chosen) : batch[AtPosition(Chosen, k)] \in Tuples
  <1>1. /\ select_spec_ # NULL /\ BatchOK /\ filters = Len(select_spec_.predicates)
        /\ DOMAIN select_spec_.predicates = 1 .. filters
    BY LengthFacts DEF SelectInv, OperatorInv, RowsInv
  <1>2. /\ Ids = 1 .. Len(batch) /\ Len(batch) \in Nat /\ DOMAIN batch = Ids
        /\ \A t \in Ids : batch[t] \in Tuples
    BY <1>1, IdsFacts DEF BatchOK, BatchSet
  <1>3. Chosen = { t \in Ids : \A k \in 1 .. filters : batch[t] \in Meaning(select_spec_.predicates[k]) }
    BY DEF SelectInv, FilterIsMeant, Chosen
  <1>4. Promised!Selected(batch) = { t \in DOMAIN batch : batch[t] \in Query.where }
    BY DEF Promised!Selected
  <1>5. Promised!Selected(batch) = Chosen
    BY <1>1, <1>2, <1>3, <1>4, QueryFields
  <1>6. \A k : Promised!Kth(Chosen, k) = AtPosition(Chosen, k)
    BY SameCardinality DEF Promised!Kth, AtPosition, Position
  <1>7. Chosen \subseteq Ids
    BY <1>3
  <1>8. Chosen \in SUBSET Nat /\ IsFiniteSet(Chosen)
    <2>1. Chosen \in SUBSET Nat
      BY <1>2, <1>7
    <2>2. IsFiniteSet(Ids)
      BY <1>2, PositionOfAll
    <2>3. IsFiniteSet(Chosen)
      BY <1>7, <2>2, FS_Subset
    <2> QED
      BY <2>1, <2>3
  <1>9. \A k \in 1 .. Cardinality(Chosen) : AtPosition(Chosen, k) \in Chosen
    BY <1>8, AtPositionFacts
  <1>10. \A k \in 1 .. Cardinality(Chosen) : batch[AtPosition(Chosen, k)] \in Tuples
    BY <1>2, <1>7, <1>9
  <1> QED
    BY <1>5, <1>6, <1>10

\* The rows that the query gives for the batch.
LEMMA RowsPromised ==
  ASSUME SelectInv, RowsInv, pc = "select"
  PROVE  Promised!RowsOf(batch)
           = [k \in 1 .. Cardinality(Chosen) |-> Query.row[batch[AtPosition(Chosen, k)]]]
  <1>1. Promised!RowsOf(batch)
          = [k \in 1 .. Cardinality(Promised!Selected(batch)) |->
               Query.row[batch[Promised!Kth(Promised!Selected(batch), k)]]]
    BY SameCardinality DEF Promised!RowsOf
  <1> QED
    BY <1>1, ChosenFacts

LEMMA AttributeRows ==
  ASSUME SelectInv, RowsInv, SelectAttributes
  PROVE  outputs' = Append(outputs, Promised!RowsOf(batch))
  <1>1. /\ pc = "select" /\ select_spec_.simple_projection_ /\ select_spec_ # NULL
        /\ outputs' = Append(outputs, [k \in 1 .. Cardinality(Chosen) |->
                                         <<batch[AtPosition(Chosen, k)]>>])
    BY DEF SelectAttributes, Output, Chosen, SelectInv, OperatorInv
  <1>2. \A k \in 1 .. Cardinality(Chosen) :
          Query.row[batch[AtPosition(Chosen, k)]] = <<batch[AtPosition(Chosen, k)]>>
    BY <1>1, ChosenFacts, QueryFields
  <1>3. Promised!RowsOf(batch) = [k \in 1 .. Cardinality(Chosen) |-> <<batch[AtPosition(Chosen, k)]>>]
    BY <1>1, <1>2, RowsPromised
  <1> QED
    BY <1>1, <1>3

LEMMA ValueRows ==
  ASSUME SelectInv, RowsInv, SelectValues
  PROVE  outputs' = Append(outputs, Promised!RowsOf(batch))
  <1> DEFINE exprs == select_spec_.select_expressions
             row(k) == [c \in DOMAIN columns |-> columns[c][k]]
  <1>1. /\ pc = "select" /\ ~select_spec_.simple_projection_ /\ select_spec_ # NULL
        /\ Len(columns) = Len(exprs)
        /\ outputs' = Append(outputs, [k \in DOMAIN columns[1] |-> row(k)])
    BY DEF SelectValues, Output, SelectInv, OperatorInv
  <1>2. DOMAIN columns = DOMAIN exprs /\ DOMAIN columns = 1 .. Len(columns)
    BY <1>1, LengthFacts
  <1>3. \A c \in DOMAIN columns : columns[c] = ColumnWanted(c)
    BY <1>1, <1>2 DEF RowsInv
  <1>4. 1 \in DOMAIN columns
    <2>1. exprs \in Seq(Seq(Predicate)) /\ exprs # <<>>
      BY <1>1 DEF RowsInv, SelectInv, OperatorInv, SpecOK
    <2> HIDE DEF exprs
    <2>2. Len(exprs) \in Nat /\ Len(exprs) # 0
      BY <2>1, EmptySeq
    <2>3. Len(columns) \in Nat \ {0}
      BY <1>1, <2>2
    <2> QED
      BY <1>2, <2>3
  <1>5. DOMAIN columns[1] = 1 .. Cardinality(Chosen)
    BY <1>3, <1>4 DEF ColumnWanted
  <1>6. ASSUME NEW k \in 1 .. Cardinality(Chosen)
        PROVE  row(k) = Query.row[batch[AtPosition(Chosen, k)]]
    <2>1. PICK t \in Tuples : t = batch[AtPosition(Chosen, k)]
      BY <1>1, ChosenFacts
    <2>2. \A c \in DOMAIN columns : columns[c][k] = getValueForSingleTuple(exprs[c], t)
      BY <1>3, <2>1 DEF ColumnWanted
    <2>3. Query.row[t] = [c \in DOMAIN exprs |-> getValueForSingleTuple(exprs[c], t)]
      BY <1>1, QueryFields
    <2> QED
      BY <1>2, <2>1, <2>2, <2>3
  <1> HIDE DEF row
  <1>7. [k \in DOMAIN columns[1] |-> row(k)] = Promised!RowsOf(batch)
    BY <1>1, <1>5, <1>6, RowsPromised
  <1> QED
    BY <1>1, <1>7

\* An output is made of the input it is for.
LEMMA OutputIsProduced ==
  ASSUME SelectInv, RowsInv, SelectAttributes \/ SelectValues
  PROVE  Promised!Produce
  <1>1. outputs' = Append(outputs, Promised!RowsOf(batch))
    BY AttributeRows, ValueRows
  <1>2. /\ pc = "select" /\ select_spec_ # NULL
        /\ UNCHANGED <<node, meaning, select_spec_, inputs>>
    BY DEF SelectAttributes, SelectValues, predicateVars, SelectInv, OperatorInv
  <1>3. Len(outputs) < Len(inputs) /\ batch = inputs[Len(outputs) + 1]
    BY <1>2 DEF RowsInv
  <1>4. Query' = Query /\ (select_spec_ # NULL)' = (select_spec_ # NULL)
    BY <1>2, SameQuery
  <1> QED
    BY <1>1, <1>2, <1>3, <1>4 DEF Promised!Produce

LEMMA OpenIsPromised ==
  ASSUME SelectInv, open
  PROVE  [Promised!Next]_Promised!vars
  <1>1. select_spec_ = NULL /\ UNCHANGED <<inputs, outputs>>
    BY DEF open
  <1>2. CASE select_spec_' = NULL
    <2>1. Query' = Query
      BY <1>1, <1>2 DEF Query
    <2> QED
      BY <1>1, <1>2, <2>1 DEF Promised!vars
  <1>3. CASE select_spec_' # NULL
    <2>1. Promised!Open
      BY <1>1, <1>3, QueryOpens DEF Promised!Open
    <2> QED
      BY <2>1 DEF Promised!Next
  <1> QED
    BY <1>2, <1>3

LEMMA CallIsPromised ==
  ASSUME SelectInv, RowsInv, NEW batches \in Inputs, next(batches)
  PROVE  Promised!Call
  <1>1. /\ pc = "ready" /\ select_spec_ # NULL
        /\ inputs' = batches /\ outputs' = <<>> /\ UNCHANGED <<node, meaning, select_spec_>>
    BY DEF next, predicateVars
  <1>2. batches \in Seq(Seq(Tuples))
    BY InputsAssumption
  <1>3. Len(outputs) = Len(inputs)
    BY <1>1 DEF RowsInv
  <1>4. Query' = Query
    BY <1>1, SameQuery
  <1> QED
    BY <1>1, <1>2, <1>3, <1>4 DEF Promised!Call

LEMMA CloseIsPromised ==
  ASSUME RowsInv, close
  PROVE  Promised!Close
  BY DEF close, RowsInv, Promised!Close

\* The other steps are inside the operator.
LEMMA StepIsInside ==
  ASSUME SelectInv, Build \/ NextInput \/ Filter \/ EvaluateExpression \/ ExpressionEvaluated
                      \/ PredicateStep \/ ScalarStep \/ UNCHANGED vars
  PROVE  UNCHANGED Promised!vars
  <1>1. UNCHANGED <<select_spec_, inputs, outputs>>
    BY DEF Build, NextInput, Filter, ApplyPredicate, PredicateApplied, AllApplied,
           EvaluateExpression, ExpressionEvaluated, PredicateStep, ScalarStep, operatorVars, vars
  <1>2. Query' = Query
    <2>1. CASE Build
      BY <1>1, <2>1 DEF Build, Query
    <2>2. CASE ~Build
      <3>1. UNCHANGED <<node, meaning>>
        BY <2>2 DEF NextInput, Filter, ApplyPredicate, PredicateApplied, AllApplied,
                    EvaluateExpression, ExpressionEvaluated, PredicateStep, EvaluateOperand,
                    CallOperand, Return, ScalarStep, CaseStep, MatchWhen, WhenMatched,
                    AllMatched, EvaluateThen, EvaluateElse, MultiplexColumn, AllMultiplexed,
                    getAllMatches, predicateVars, vars
      <3> QED
        BY <1>1, <3>1, SameQuery
    <2> QED
      BY <2>1, <2>2
  <1> QED
    BY <1>1, <1>2 DEF Promised!vars

LEMMA NextIsPromised ==
  SelectInv /\ RowsInv /\ [Next]_vars => [Promised!Next]_Promised!vars
  <1> SUFFICES ASSUME SelectInv, RowsInv, [Next]_vars PROVE [Promised!Next]_Promised!vars
    OBVIOUS
  <1>1. CASE open
    BY <1>1, OpenIsPromised
  <1>2. CASE \E batches \in Inputs : next(batches)
    BY <1>2, CallIsPromised DEF Promised!Next
  <1>3. CASE close
    BY <1>3, CloseIsPromised DEF Promised!Next
  <1>4. CASE SelectAttributes \/ SelectValues
    BY <1>4, OutputIsProduced DEF Promised!Next
  <1>5. CASE Build \/ NextInput \/ Filter \/ EvaluateExpression \/ ExpressionEvaluated
               \/ PredicateStep \/ ScalarStep \/ UNCHANGED vars
    BY <1>5, StepIsInside
  <1> QED
    BY <1>1, <1>2, <1>3, <1>4, <1>5 DEF Next, Select

\* The operator makes one output of each input, in order: a row for each tuple that
\* the predicates of its spec mean to choose, with the value each expression has for
\* that tuple alone, whatever filters, short cuts and branches the columns went through.
THEOREM OperatorImplementsSelection == Spec => ImplementsSelection
  <1>1. Init => Promised!Init
    BY DEF Init, Promised!Init
  <1>2. Init => ColumnsInv /\ RowsInv
    BY DEF Init, CaseInit, ColumnsInv, ValuesInPlace, RowsInv
  <1>3. SelectInv /\ ColumnsInv /\ RowsInv /\ [Next]_vars
          => SelectInv' /\ ColumnsInv' /\ RowsInv'
    BY NextSelectInv, NextColumns, NextRowsInv
  <1> QED
    BY <1>1, <1>2, <1>3, InitSelectInv, NextIsPromised, PTL
       DEF Spec, ImplementsSelection, Promised!Spec

=============================================================================
