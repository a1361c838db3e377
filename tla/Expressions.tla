----------------------------- MODULE Expressions -----------------------------
(***************************************************************************)
(* The values and the types of expressions, given those of their operands  *)
(* (the rules from Expression to Aggregate of core/tracker-sparql.c).  An  *)
(* expression is a tuple of an operator and its operands; a is the         *)
(* sequence of the operands' values, NULL is unknown.                      *)
(***************************************************************************)
EXTENDS TripleSyntax

Truth(v) == v = Bool(TRUE) \/ (v[1] = "int" /\ v[2] # 0)

\* convert_expression_to_string: the URI of a resource, the digits of a number.
Printed(v) ==
  CASE v = NULL       -> NULL
    [] v[1] = "int"   -> Str(ToString(v[2]))
    [] v[1] = "bool"  -> Str(IF v[2] THEN "true" ELSE "false")
    [] v[1] = "text"  -> v
    [] OTHER          -> Str(v[2])

\* Strings put together stay apart from those that are not.
Joint(values) == <<"text", values>>

AnyOf(S) == IF S = {} THEN NULL ELSE CHOOSE v \in S : TRUE

-----------------------------------------------------------------------------
Logical      == {"and", "or", "not"}
Relational   == {"=", "!=", "<", "<=", "in", "not in"}
Additive     == {"+", "-"}
Conditional  == {"if", "bound", "sameterm"}
TermTests    == {"isiri", "isliteral", "isnumeric"}
Rounding     == {"abs", "ceil", "floor", "round", "negative"}
StringValued == {"str()", "coalesce", "concat"}
Aggregates   == {"count", "count distinct", "sum", "min", "max", "sample"}
ValueTags    == {"iri", "str", "int", "bool", "text", "null"}
Args(e) == IF e[1] \in ValueTags \cup {"var", "exists", "sub"} THEN << >>
           ELSE IF e[1] \in {"property", "cast"} THEN <<e[3]>> ELSE Tail(e)

SqlNot(v) == IF v = NULL THEN NULL ELSE Bool(~Truth(v))
SqlAnd(v, w) ==
  IF \E u \in {v, w} : u # NULL /\ ~Truth(u) THEN Bool(FALSE)
  ELSE IF NULL \in {v, w} THEN NULL ELSE Bool(TRUE)

\* translate_ConditionalOrExpression, translate_ConditionalAndExpression
LogicalValue(op, a) ==
  CASE op = "and" -> SqlAnd(a[1], a[2])
    [] op = "or"  -> SqlNot(SqlAnd(SqlNot(a[1]), SqlNot(a[2])))
    [] op = "not" -> SqlNot(a[1])

\* translate_RelationalExpression: numbers are ordered, other values only equal or not.
SqlLess(v, w) == v[1] = "int" /\ w[1] = "int" /\ v[2] < w[2]
SqlIn(v, S) ==
  IF v = NULL THEN NULL ELSE IF v \in S THEN Bool(TRUE)
  ELSE IF NULL \in S THEN NULL ELSE Bool(FALSE)
RelationalValue(op, a) ==
  LET S == {a[i] : i \in 2..Len(a)}
  IN  CASE op = "in" -> SqlIn(a[1], S)
        [] op = "not in" -> SqlNot(SqlIn(a[1], S))
        [] op \notin {"in", "not in"} /\ NULL \in Range(a) -> NULL
        [] op = "="  -> Bool(a[1] = a[2])
        [] op = "!=" -> Bool(a[1] # a[2])
        [] op = "<"  -> Bool(SqlLess(a[1], a[2]))
        [] op = "<=" -> Bool(SqlLess(a[1], a[2]) \/ a[1] = a[2])

\* translate_AdditiveExpression, translate_MultiplicativeExpression
Numbers(a) == \A i \in DOMAIN a : a[i][1] = "int"
AdditiveValue(op, a) ==
  IF ~Numbers(a) THEN NULL
  ELSE IF op = "+" THEN Num(a[1][2] + a[2][2]) ELSE Num(a[1][2] - a[2][2])
ProductValue(a) == IF ~Numbers(a) THEN NULL ELSE Num(a[1][2] * a[2][2])

\* STR, COALESCE and CONCAT of translate_BuiltInCall, on operands made strings.
StringValue(op, a) ==
  LET given == {i \in DOMAIN a : a[i] # NULL}
  IN  CASE op = "str()"    -> Printed(a[1])
        [] op = "coalesce" -> IF given = {} THEN NULL ELSE Printed(a[Min(given)])
        [] op = "concat"   -> IF given # DOMAIN a THEN NULL ELSE Joint([i \in DOMAIN a |-> Printed(a[i])])

\* ABS, CEIL, FLOOR and ROUND, and the signs of translate_UnaryExpression, of integers
RoundedValue(op, v) ==
  IF v[1] # "int" THEN NULL
  ELSE Num(IF op = "negative" \/ (op = "abs" /\ v[2] < 0) THEN 0 - v[2] ELSE v[2])

\* isIRI, isLITERAL and isNUMERIC, with helper_datatype
TermTest(op, v) ==
  IF v = NULL THEN NULL
  ELSE Bool(CASE op = "isiri" -> v[1] = "iri" [] op = "isliteral" -> v[1] # "iri"
              [] op = "isnumeric" -> v[1] = "int")

\* sameTerm, IF and BOUND: a condition that is neither 0 nor 1 gives NULL.
ConditionalValue(op, a) ==
  CASE op = "sameterm" -> RelationalValue("=", a)
    [] op = "bound" -> Bool(a[1] # NULL)
    [] op = "if" -> IF a[1] \in {Bool(TRUE), Num(1)} THEN a[2]
                    ELSE IF a[1] \in {Bool(FALSE), Num(0)} THEN a[3] ELSE NULL

\* handle_type_cast: strings that are no numbers are not cast in the queries modelled.
CastValue(type, v) ==
  CASE v = NULL -> NULL
    [] type = "string" /\ v # NULL -> Printed(v)
    [] type = "integer" /\ v # NULL -> IF v[1] = "bool" THEN Num(IF v[2] THEN 1 ELSE 0) ELSE v

OperatorValue(op, a) ==
  CASE op \in Logical      -> LogicalValue(op, a)
    [] op \in Relational   -> RelationalValue(op, a)
    [] op \in Additive     -> AdditiveValue(op, a)
    [] op = "*"            -> ProductValue(a)
    [] op \in Rounding     -> RoundedValue(op, a[1])
    [] op \in TermTests    -> TermTest(op, a[1])
    [] op \in Conditional  -> ConditionalValue(op, a)
    [] op \in StringValued -> StringValue(op, a)

-----------------------------------------------------------------------------
(***************************************************************************)
(* Types, checked when the expression is translated.                       *)
(***************************************************************************)
\* maybe_numeric
MaybeNumeric(t) == t \in {"number", "any"}

RECURSIVE TypeOf(_, _, _)
TypeOf(x, vars, e) ==
  LET t(i) == TypeOf(x, vars, e[i])
  IN  CASE e[1] = "var" -> IF e[2] \in DOMAIN x.types THEN x.types[e[2]] ELSE "any"
        [] e[1] = "iri" -> "resource"
        [] e[1] = "int" -> "number"
        [] e[1] = "str" -> "string"
        [] e[1] = "property" -> IF Multiple(e[2]) THEN "string" ELSE RangeType(e[2])
        [] e[1] = "cast" -> IF e[2] = "integer" THEN "number" ELSE e[2]
        [] e[1] \in StringValued -> "string"
        [] e[1] \in Aggregates \ {"sample"} -> "number"
        [] e[1] = "sample" \/ e[1] \in Rounding -> t(2)
        [] e[1] \in Additive \cup {"*"} -> t(3)
        [] e[1] = "if" -> t(4)
        [] e[1] = "sub" -> "any"
        [] OTHER -> "boolean"

\* The checks that raise "Expected boolean expression" and "Expected numeric operand"
RECURSIVE IllTyped(_, _, _)
IllTyped(x, vars, e) ==
  \/ e[1] \in Logical /\ \E i \in 2..Len(e) : TypeOf(x, vars, e[i]) # "boolean"
  \/ e[1] \in Additive \cup {"*"} /\ \E i \in 2..3 : ~MaybeNumeric(TypeOf(x, vars, e[i]))
  \/ \E i \in DOMAIN Args(e) : IllTyped(x, vars, Args(e)[i])
=============================================================================
