----------------------------- MODULE ExpressionProtos -----------------------------
(***************************************************************************)
(* Serialization of scalars and predicates: the message getProto() makes,  *)
(* the test a factory puts to a message, and what it builds from one.  A   *)
(* message is a record of the fields that are set.  The database of the    *)
(* reader maps the ids of its relations to their attributes' types.        *)
(***************************************************************************)
EXTENDS Expressions

(* ---- predicates made of others, and CASE, as far as they are serialized ---- *)

TruePredicate  == [kind |-> "True",  result |-> TRUE]
FalsePredicate == [kind |-> "False", result |-> FALSE]
WithResult(p, results) == IF results = {} THEN p ELSE p @@ [result |-> CHOOSE r \in results : TRUE]
Negation(p) ==
    WithResult([kind |-> "Negation", operand |-> p],
               IF HasStaticResult(p) THEN {~p.result} ELSE {})
\* A double negation gives back what it holds.
NegatePredicate(p) == IF p.kind = "Negation" THEN p.operand ELSE Negation(p)

\* addPredicate() of each operand: those with a static result are listed first.
PredicateList(kind, operands) ==
    LET static  == SelectSeq(operands, HasStaticResult)
        dynamic == SelectSeq(operands, LAMBDA p : ~HasStaticResult(p))
        decisive == kind = "Disjunction"
        results  == CASE \E i \in DOMAIN static : static[i].result = decisive -> {decisive}
                      [] dynamic = <<>> -> {~decisive}
                      [] OTHER          -> {}
    IN  WithResult([kind |-> kind, operands |-> static \o dynamic], results)
Conjunction(operands) == PredicateList("Conjunction", operands)
Disjunction(operands) == PredicateList("Disjunction", operands)

ScalarCase(type, whens, thens, else) ==
    [source |-> "Case", type |-> type, whens |-> whens, thens |-> thens, else |-> else]

(* ---- getProto() ---- *)

OperationID == ("Add" :> "ADD") @@ ("Subtract" :> "SUBTRACT") @@ ("Multiply" :> "MULTIPLY")
            @@ ("Divide" :> "DIVIDE") @@ ("Modulo" :> "MODULO")
GetBinaryProto(op) == [operation_id |-> OperationID[op]]

RECURSIVE GetScalarProto(_), GetPredicateProto(_)

LiteralProto(e) ==
    [data_source |-> "LITERAL", literal |-> GetValueProto(e.static), literal_type |-> GetTypeProto(e.type)]
AttributeProto(e) == [data_source |-> "ATTRIBUTE", relation_id |-> e.rel, attribute_id |-> e.id]
UnaryProto(e) ==
    [data_source |-> "UNARY_EXPRESSION", operation |-> GetUnaryProto(e.op), operand |-> GetScalarProto(e.operand)]
BinaryProto(e) ==
    [data_source |-> "BINARY_EXPRESSION", operation |-> GetBinaryProto(e.op),
     left_operand |-> GetScalarProto(e.left), right_operand |-> GetScalarProto(e.right)]
CaseProto(e) ==
    [data_source |-> "CASE_EXPRESSION", result_type |-> GetTypeProto(e.type),
     when_predicate    |-> [i \in DOMAIN e.whens |-> GetPredicateProto(e.whens[i])],
     result_expression |-> [i \in DOMAIN e.thens |-> GetScalarProto(e.thens[i])],
     else_result_expression |-> GetScalarProto(e.else)]

ComparisonPredicateProto(p) ==
    [predicate_type |-> "COMPARISON", comparison |-> GetComparisonProto(p.comparison),
     left_operand |-> GetScalarProto(p.left), right_operand |-> GetScalarProto(p.right)]
NegationProto(p) == [predicate_type |-> "NEGATION", operand |-> GetPredicateProto(p.operand)]
ListProto(type, p) ==
    [predicate_type |-> type, operands |-> [i \in DOMAIN p.operands |-> GetPredicateProto(p.operands[i])]]
ConjunctionProto(p) == ListProto("CONJUNCTION", p)
DisjunctionProto(p) == ListProto("DISJUNCTION", p)
TrueProto(p)  == [predicate_type |-> "TRUE"]
FalseProto(p) == [predicate_type |-> "FALSE"]

GetScalarProto(e) ==
    CASE e.source = "Literal"   -> LiteralProto(e)
      [] e.source = "Attribute" -> AttributeProto(e)
      [] e.source = "Unary"     -> UnaryProto(e)
      [] e.source = "Binary"    -> BinaryProto(e)
      [] OTHER                  -> CaseProto(e)
GetPredicateProto(p) ==
    CASE p.kind = "True"        -> TrueProto(p)
      [] p.kind = "False"       -> FalseProto(p)
      [] p.kind = "Comparison"  -> ComparisonPredicateProto(p)
      [] p.kind = "Negation"    -> NegationProto(p)
      [] p.kind = "Conjunction" -> ConjunctionProto(p)
      [] OTHER                  -> DisjunctionProto(p)

(* ---- ProtoIsValid(): has the fields of its kind, each valid ---- *)

BinaryProtoIsValid(proto)     == proto.operation_id \in {OperationID[op] : op \in DOMAIN OperationID}
ComparisonProtoIsValid(proto) == proto.comparison_id \in {ProtoID[id] : id \in ComparisonIDs}
LOCAL Has(proto, fields) == fields \subseteq DOMAIN proto

RECURSIVE ScalarProtoIsValid(_, _), PredicateProtoIsValid(_, _)
ScalarProtoIsValid(proto, database) ==
    CASE proto.data_source = "LITERAL" ->
            /\ Has(proto, {"literal", "literal_type"})
            /\ proto.literal.type_id \in TypeIDs
            /\ TypeProtoIsValid(proto.literal_type)
      [] proto.data_source = "ATTRIBUTE" ->
            /\ Has(proto, {"relation_id", "attribute_id"})
            /\ proto.relation_id \in DOMAIN database
            /\ proto.attribute_id \in DOMAIN database[proto.relation_id]
      [] proto.data_source = "UNARY_EXPRESSION" ->
            /\ Has(proto, {"operation", "operand"})
            /\ UnaryProtoIsValid(proto.operation)
            /\ ScalarProtoIsValid(proto.operand, database)
      [] proto.data_source = "BINARY_EXPRESSION" ->
            /\ Has(proto, {"operation", "left_operand", "right_operand"})
            /\ BinaryProtoIsValid(proto.operation)
            /\ ScalarProtoIsValid(proto.left_operand, database)
            /\ ScalarProtoIsValid(proto.right_operand, database)
      [] OTHER ->
            /\ Has(proto, {"result_type"}) /\ TypeProtoIsValid(proto.result_type)
            /\ Len(proto.when_predicate) = Len(proto.result_expression)
            /\ \A i \in DOMAIN proto.when_predicate :
                  /\ PredicateProtoIsValid(proto.when_predicate[i], database)
                  /\ ScalarProtoIsValid(proto.result_expression[i], database)
            /\ Has(proto, {"else_result_expression"})
            /\ ScalarProtoIsValid(proto.else_result_expression, database)
PredicateProtoIsValid(proto, database) ==
    CASE proto.predicate_type \in {"TRUE", "FALSE"} -> TRUE
      [] proto.predicate_type = "COMPARISON" ->
            /\ Has(proto, {"comparison", "left_operand", "right_operand"})
            /\ ComparisonProtoIsValid(proto.comparison)
            /\ ScalarProtoIsValid(proto.left_operand, database)
            /\ ScalarProtoIsValid(proto.right_operand, database)
      [] proto.predicate_type = "NEGATION" ->
            Has(proto, {"operand"}) /\ PredicateProtoIsValid(proto.operand, database)
      [] OTHER -> \A i \in DOMAIN proto.operands : PredicateProtoIsValid(proto.operands[i], database)

(* ---- ReconstructFromProto(), through the constructors ---- *)

ReconstructBinary(proto) == CHOOSE op \in DOMAIN OperationID : OperationID[op] = proto.operation_id

RECURSIVE ReconstructScalar(_, _), ReconstructPredicate(_, _)
ReconstructScalar(proto, database) ==
    LET Scalar(p) == ReconstructScalar(p, database)
    IN  CASE proto.data_source = "LITERAL" ->
               ScalarLiteral(ReconstructValue(proto.literal), ReconstructType(proto.literal_type))
          [] proto.data_source = "ATTRIBUTE" ->
               ScalarAttribute(proto.relation_id, proto.attribute_id,
                               database[proto.relation_id][proto.attribute_id])
          [] proto.data_source = "UNARY_EXPRESSION" ->
               The({ScalarUnary(op, e) : op \in {ReconstructUnary(proto.operation)}, e \in {Scalar(proto.operand)}})
          [] proto.data_source = "BINARY_EXPRESSION" ->
               The({ScalarBinary(ReconstructBinary(proto.operation), l, r) :
                      l \in {Scalar(proto.left_operand)}, r \in {Scalar(proto.right_operand)}})
          [] OTHER ->
               ScalarCase(ReconstructType(proto.result_type),
                          [i \in DOMAIN proto.when_predicate |->
                              ReconstructPredicate(proto.when_predicate[i], database)],
                          [i \in DOMAIN proto.result_expression |-> Scalar(proto.result_expression[i])],
                          Scalar(proto.else_result_expression))
ReconstructPredicate(proto, database) ==
    LET Operand(i)   == ReconstructPredicate(proto.operands[i], database)
        List(Made(_)) == The({Made(operands) : operands \in {[i \in DOMAIN proto.operands |-> Operand(i)]}})
    IN  CASE proto.predicate_type = "TRUE"  -> TruePredicate
          [] proto.predicate_type = "FALSE" -> FalsePredicate
          [] proto.predicate_type = "COMPARISON" ->
               The({ComparisonPredicate(ReconstructComparison(proto.comparison), l, r) :
                      l \in {ReconstructScalar(proto.left_operand, database)},
                      r \in {ReconstructScalar(proto.right_operand, database)}})
          [] proto.predicate_type = "NEGATION" -> The({NegatePredicate(p) : p \in {ReconstructPredicate(proto.operand, database)}})
          [] proto.predicate_type = "CONJUNCTION" -> List(Conjunction)
          [] OTHER                                -> List(Disjunction)
===================================================================================
