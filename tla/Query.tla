-------------------------------- MODULE Query -------------------------------
(***************************************************************************)
(* The query language: compileQuery (search/compile-query.ts) and          *)
(* evaluateCompiledQuery (search/evaluate-query.ts).                       *)
(*                                                                         *)
(* A query is a set of clauses.  A field clause is [field, condition]; a   *)
(* logical one is [logic, queries], each of its queries a set of field     *)
(* clauses: logic inside logic is left out.  A condition is a value, a     *)
(* regular expression, or an operator object with its entries in order.    *)
(***************************************************************************)
EXTENDS DocumentValues

\* Operands that are no document values.
Pattern(matched, isRegExp) ==         \* matched: the strings the expression accepts
    [type |-> "pattern", matched |-> matched, isRegExp |-> isRegExp]
TypeNames(names) == [type |-> "names", names |-> names]
Operators(es)    == [type |-> "operators", entries |-> es]

Op(name, operand) == [op |-> name, operand |-> operand]

On(f, condition)   == [field |-> f, condition |-> condition]
Logical(l, queries) == [logic |-> l, queries |-> queries]

-----------------------------------------------------------------------------
(* compileFieldOperators: which operator objects throw, and the operators  *)
(* of those that do not.                                                   *)

Comparisons == [x \in {"$eq", "$ne", "$gt", "$gte", "$lt", "$lte"} |->
    CASE x = "$eq" -> "eq" [] x = "$ne"  -> "ne"  [] x = "$gt" -> "gt"
      [] x = "$gte" -> "gte" [] x = "$lt" -> "lt" [] x = "$lte" -> "lte"]

TypeAliases == [x \in {"null", "boolean", "bool", "number", "string", "array", "object"} |->
    IF x = "bool" THEN "boolean" ELSE x]

HasOp(es, name) == \E i \in DOMAIN es : es[i].op = name

EntryThrows(e, es) ==
    \/ e.op \notin DOMAIN Comparisons
                   \cup {"$in", "$nin", "$exists", "$regex", "$options", "$type", "$not"}
    \/ e.op \in {"$in", "$nin"} /\ e.operand.type # "array"
    \/ e.op = "$exists" /\ e.operand.type # "boolean"
    \/ e.op = "$regex" /\ e.operand.type # "pattern"
    \/ e.op = "$regex" /\ e.operand.isRegExp /\ HasOp(es, "$options")
    \/ e.op = "$options" /\ ~HasOp(es, "$regex")
    \/ e.op = "$type" /\ e.operand.type # "names"
    \/ e.op = "$type" /\ (e.operand.names = {} \/ ~(e.operand.names \subseteq DOMAIN TypeAliases))
    \/ e.op = "$not" /\ (e.operand.type \notin {"operators", "object"} \/ e.operand = ObjectOf(<< >>))

\* $not takes the same operators, but for another $not.  An object without
\* operators throws nothing: it negates an equality.
ConditionThrows(condition) ==
    condition.type = "operators" /\
        \E i \in DOMAIN condition.entries :
            LET e == condition.entries[i] IN
            \/ EntryThrows(e, condition.entries)
            \/ e.op = "$not" /\ e.operand.type = "operators"
               /\ \E j \in DOMAIN e.operand.entries :
                      EntryThrows(e.operand.entries[j], e.operand.entries)

CompilePlain(e) ==
    CASE e.op \in DOMAIN Comparisons -> [type |-> Comparisons[e.op], value |-> e.operand]
      [] e.op = "$in"     -> [type |-> "in", values |-> e.operand.items]
      [] e.op = "$nin"    -> [type |-> "nin", values |-> e.operand.items]
      [] e.op = "$exists" -> [type |-> "exists", expected |-> e.operand = Boolean(TRUE)]
      [] e.op = "$regex"  -> [type |-> "regex", matched |-> e.operand.matched]
      [] e.op = "$type"   -> [type |-> "type", types |-> {TypeAliases[x] : x \in e.operand.names}]

\* $options is consumed together with $regex.
WithoutOptions(es) == SelectSeq(es, LAMBDA e : e.op # "$options")

CompileNegated(operand) ==
    IF operand.type = "object" THEN <<[type |-> "eq", value |-> operand]>>
    ELSE LET es == WithoutOptions(operand.entries) IN [i \in DOMAIN es |-> CompilePlain(es[i])]

CompileEntries(es) ==
    LET kept == WithoutOptions(es) IN
    [i \in DOMAIN kept |->
        IF kept[i].op = "$not"
        THEN [type |-> "not", operators |-> CompileNegated(kept[i].operand)]
        ELSE CompilePlain(kept[i])]

CompileFieldOperators(condition) ==
    CASE condition.type = "operators" -> CompileEntries(condition.entries)
      [] condition.type = "pattern"   -> <<[type |-> "regex", matched |-> condition.matched]>>
      [] OTHER                        -> <<[type |-> "eq", value |-> condition]>>

FieldClauses(query) == {c \in query : "field" \in DOMAIN c}

QueryThrows(query) ==
    \/ \E c \in FieldClauses(query) : ConditionThrows(c.condition)
    \/ \E c \in query \ FieldClauses(query) : \E sub \in c.queries : \E s \in sub :
           ConditionThrows(s.condition)

FieldPredicate(c) ==
    [field |-> c.field, operators |-> CompileFieldOperators(c.condition)]

Conjunction(sub) == {FieldPredicate(c) : c \in sub}

\* The and-node of a query: its field predicates with those of its $and, its
\* or-nodes and its nor-nodes, a branch being the field predicates of a query.
CompileQuery(query) ==
    LET nodes(l) == {c \in query \ FieldClauses(query) : c.logic = l} IN
    [fields |-> Conjunction(FieldClauses(query) \cup UNION UNION {c.queries : c \in nodes("$and")}),
     ors    |-> {{Conjunction(sub) : sub \in c.queries} : c \in nodes("$or")},
     nors   |-> {{Conjunction(sub) : sub \in c.queries} : c \in nodes("$nor")}]

-----------------------------------------------------------------------------
(* evaluateFieldOperator and evaluateCompiledQuery.                        *)

EvaluatePlain(op, v) ==
    CASE op.type = "exists" -> (v # Missing) = op.expected
      [] op.type = "eq"     -> ValuesEqual(v, op.value)
      [] op.type = "ne"     -> ~ValuesEqual(v, op.value)
      [] op.type = "gt"     -> Exceeds(v, op.value)
      [] op.type = "gte"    -> Exceeds(v, op.value) \/ Levels(v, op.value)
      [] op.type = "lt"     -> Exceeds(op.value, v)
      [] op.type = "lte"    -> Exceeds(op.value, v) \/ Levels(v, op.value)
      [] op.type = "in"     -> \E i \in DOMAIN op.values : ValuesEqual(v, op.values[i])
      [] op.type = "nin"    -> \A i \in DOMAIN op.values : ~ValuesEqual(v, op.values[i])
      [] op.type = "regex"  -> IsString(v) /\ v.ord \in op.matched
      [] op.type = "type"   -> JsonTypeOf(v) \in op.types

EvaluateFieldOperator(op, v) ==
    IF op.type = "not"
    THEN ~ \A i \in DOMAIN op.operators : EvaluatePlain(op.operators[i], v)
    ELSE EvaluatePlain(op, v)

SatisfiesAll(operators, v) ==
    \A i \in DOMAIN operators : EvaluateFieldOperator(operators[i], v)

EvaluateConjunction(predicates, doc) ==
    \A p \in predicates : SatisfiesAll(p.operators, doc[p.field])

Evaluate(compiled, doc) ==
    /\ EvaluateConjunction(compiled.fields, doc)
    /\ \A node \in compiled.ors : \E branch \in node : EvaluateConjunction(branch, doc)
    /\ \A node \in compiled.nors : \A branch \in node : ~EvaluateConjunction(branch, doc)

=============================================================================
