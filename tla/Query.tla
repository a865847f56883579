-------------------------------- MODULE Query --------------------------------
(* Queries: the filters a client adds to a QOrmQueryBuilder, the query they  *)
(* are folded into, the SELECT or DELETE statement and its bound parameters  *)
(* that QOrmSqliteStatementGenerator makes of it, and what SQLite answers.   *)
(*                                                                           *)
(* A filter expression is the sequence of its nodes in the order in which    *)
(* generateCondition() is done with them, a query the sequence of the        *)
(* queries it is the last of, each selecting from what the one before it     *)
(* selects.  Of the text of a statement only the names of its parameters     *)
(* matter.  Objects and the instance cache are in Session: here an entity is *)
(* its row, a reference the object id it refers to.                          *)

EXTENDS Integers, FiniteSets, SequencesExt

CONSTANTS
    Fields,     \* the stored properties of the class, "id" among them
    Column,     \* the names of their columns, as sequences of
    Words,      \* words and digits
    References, \* those that are references
    Values,     \* a set of numbers
    Like,       \* which value contains which, a set of pairs
    Null,
    None,       \* an empty std::optional
    Tables,     \* what the table may contain
    Filters,    \* what the client may pass to filter(),
    Orders,     \* to order(),
    Limits,     \* to limit()
    Offsets,    \* and to offset()
    MaxCalls,   \* bound on the calls of one builder
    MaxDepth    \* bound on the queries below a query

Row == [Fields -> Values \cup {Null}]
Comparisons == {"=", "<>", "<", ">=", ">", "<=", "IN", "NOT IN", "LIKE", "NOT LIKE"}

Digit == <<"0", "1", "2", "3", "4", "5", "6", "7", "8", "9">>

Node ==
    [type : {"terminal"}, property : STRING, comparison : Comparisons,
     values : Seq(Values \cup {Null})]
    \cup [type : {"unary"}]
    \cup [type : {"binary"}, operator : {"AND", "OR"}, span : Nat]

IsList(comparison) == comparison \in {"IN", "NOT IN"}

\* The right side of node i is node i - 1 and what belongs to it, in all as many
\* nodes as its span; the left side is before that.
WellFormed(e) ==
    /\ e \in Seq(Node) /\ e # <<>>
    /\ \A i \in 1..Len(e) :
          CASE e[i].type = "terminal" -> IsList(e[i].comparison) \/ Len(e[i].values) = 1
            [] e[i].type = "unary" -> i > 1
            [] e[i].type = "binary" -> e[i].span \in 1..i - 2

ASSUME QueryAssumption ==
    /\ References \subseteq Fields /\ "id" \in Fields
    /\ {"_", "limit", "offset"} \cup ToSet(Digit) \subseteq Words
    /\ DOMAIN Column = Fields /\ \A f \in Fields : Column[f] \in Seq(Words)
    /\ Values \subseteq Int /\ Null \notin Int
    /\ Like \subseteq Values \X Values
    /\ \A t \in Tables : IsFiniteSet(t) /\ t \subseteq Row /\ \A r, s \in t : r.id = s.id => r = s
    /\ \A f \in Filters : \/ f.type = "expression" /\ WellFormed(f.expression)
                          \/ f.type = "invokable" /\ f.accepts \subseteq Row
    /\ \A o \in Orders : o.field \in Fields /\ o.ascending \in BOOLEAN
    /\ Limits \cup Offsets \subseteq Int /\ None \notin Int
    /\ MaxCalls \in Nat /\ MaxDepth \in Nat

\* Filter expressions; "values" has one element unless the value is a list.
Terminal(property, comparison, values) ==
    <<[type |-> "terminal", property |-> property, comparison |-> comparison, values |-> values]>>
Not(e) == Append(e, [type |-> "unary"])
Binary(l, operator, r) == l \o r \o <<[type |-> "binary", operator |-> operator, span |-> Len(r)]>>

\* Filters.  A function of the client is the set of rows it accepts.
Expression(e) == [type |-> "expression", expression |-> e]
Invokable(accepted) == [type |-> "invokable", accepts |-> accepted]

VARIABLES
    table,      \* the rows of the class
    builder,    \* the QOrmQueryBuilder
    calls,      \* how often it was called
    answer,     \* what the last operation returned
    dead        \* the process has ended with qFatal()

vars == <<table, builder, calls, answer, dead>>

NoAnswer == [kind |-> "none", rows |-> <<>>, n |-> 0]

\* session.from(); the queries below it are its relation, none is the table.
Builder(relation) ==
    [relation |-> relation, filters |-> <<>>, order |-> <<>>, limit |-> None, offset |-> None]

Init ==
    /\ table \in Tables
    /\ builder = Builder(<<>>) /\ calls = 0
    /\ answer = NoAnswer /\ dead = FALSE

-----------------------------------------------------------------------------
(* From the builder to the query.                                           *)

ExpressionsIn(filters) == {f.expression : f \in {g \in ToSet(filters) : g.type = "expression"}}

\* resolvedFilterExpression() finds no mapping for a property.
Unresolved(e) == \E n \in ToSet(e) : n.type = "terminal" /\ n.property \notin Fields

Malformed(b) == \E e \in ExpressionsIn(b.filters) : Unresolved(e)

\* Mutant: a later filter replaces the earlier ones.
LastExpression(filters) ==
    LET last[i \in 0..Len(filters)] ==
          IF i = 0 THEN <<>>
          ELSE IF filters[i].type = "expression" THEN filters[i].expression ELSE last[i - 1]
    IN  last[Len(filters)]

\* foldFilters(); no expression is <<>>.
FoldExpressions(filters) ==
    LET folded[i \in 0..Len(filters)] ==
          IF i = 0 THEN <<>>
          ELSE LET lhs == folded[i - 1]
               IN  IF filters[i].type = "invokable" THEN lhs
                   ELSE IF lhs = <<>> THEN filters[i].expression
                   ELSE Binary(lhs, "AND", filters[i].expression)
    IN  folded[Len(filters)]

\* What each of the functions accepts that are called one after the other.
FoldInvokables(filters) == {f.accepts : f \in {g \in ToSet(filters) : g.type = "invokable"}}

\* QueryBuilderHelper::build()
Build(b) ==
    Append(b.relation, [expression |-> FoldExpressions(b.filters),
                        invokables |-> FoldInvokables(b.filters),
                        order |-> b.order, limit |-> b.limit, offset |-> b.offset])

-----------------------------------------------------------------------------
(* From the query to the statement.  "parameters" maps names to values.     *)

\* generateCondition() ends the process.
UnsupportedExpression(e) ==
    \E n \in ToSet(e) :
        /\ n.type = "terminal"
        /\ \/ n.property \in References /\ IsList(n.comparison)
           \/ n.values = <<Null>> /\ ~IsList(n.comparison) /\ n.comparison \notin {"=", "<>"}

Unsupported(q) == \E s \in ToSet(q) : UnsupportedExpression(s.expression)

\* QString::number()
Decimal[i \in Nat] ==
    IF i < 10 THEN <<Digit[i + 1]>> ELSE Append(Decimal[i \div 10], Digit[(i % 10) + 1])

\* Mutant: the name is not looked up.
UsedKey(parameters, name) == name

NewKey(parameters, name) ==
    LET numbered(i) == name \o Decimal[i]
        free == {i \in 0..Cardinality(DOMAIN parameters) : numbered(i) \notin DOMAIN parameters}
    IN  IF name \notin DOMAIN parameters THEN name
        ELSE numbered(CHOOSE i \in free : \A j \in free : i <= j)

Bind(parameters, key, value) ==
    [k \in DOMAIN parameters \cup {key} |-> IF k = key THEN value ELSE parameters[k]]

\* insertParameter() for several values in turn: their names and all parameters.
InsertParameters(parameters, names, values) ==
    LET inserted[i \in 0..Len(values)] ==
          IF i = 0 THEN [keys |-> <<>>, parameters |-> parameters]
          ELSE LET earlier == inserted[i - 1]
                   key == NewKey(earlier.parameters, names[i])
               IN  [keys |-> Append(earlier.keys, key),
                    parameters |-> Bind(earlier.parameters, key, values[i])]
    IN  inserted[Len(values)]

\* A value that is null becomes IS NULL or IS NOT NULL.
TerminalCondition(n, parameters) ==
    LET names == [i \in 1..Len(n.values) |->
                    IF IsList(n.comparison) THEN Column[n.property] \o <<"_">> \o Decimal[i - 1]
                    ELSE Column[n.property]]
        inserted == InsertParameters(parameters, names, n.values)
    IN  IF n.values = <<Null>> /\ ~IsList(n.comparison)
        THEN [condition |-> [op |-> IF n.comparison = "=" THEN "IS NULL" ELSE "IS NOT NULL",
                             field |-> n.property],
              parameters |-> parameters]
        ELSE [condition |-> [op |-> n.comparison, field |-> n.property, keys |-> inserted.keys],
              parameters |-> inserted.parameters]

NodeCondition(n, parameters) ==
    CASE n.type = "terminal" -> TerminalCondition(n, parameters)
      [] n.type = "unary" -> [condition |-> [op |-> "NOT"], parameters |-> parameters]
      [] n.type = "binary" -> [condition |-> [op |-> n.operator, span |-> n.span],
                               parameters |-> parameters]

\* generateCondition(): the left side binds its parameters first.  A condition
\* has the form of its expression.
Condition(e, parameters) ==
    LET generated[i \in 0..Len(e)] ==
          IF i = 0 THEN [condition |-> <<>>, parameters |-> parameters]
          ELSE LET earlier == generated[i - 1]
                   node == NodeCondition(e[i], earlier.parameters)
               IN  [condition |-> Append(earlier.condition, node.condition),
                    parameters |-> node.parameters]
    IN  generated[Len(e)]

\* Mutant: an offset without a limit leaves no rows.
LimitZero(limit, offset, parameters) ==
    LET value == IF limit = None THEN 0 ELSE limit
    IN  IF offset # None THEN InsertParameters(parameters, <<<<"limit">>, <<"offset">>>>, <<value, offset>>)
        ELSE InsertParameters(parameters, <<>>, <<>>)

\* generateLimitOffsetClause(): OFFSET needs a LIMIT, -1 is none.
LimitOffset(limit, offset, parameters) ==
    CASE offset # None ->
           InsertParameters(parameters, <<<<"limit">>, <<"offset">>>>,
                            <<IF limit = None THEN -1 ELSE limit, offset>>)
      [] offset = None /\ limit # None -> InsertParameters(parameters, <<<<"limit">>>>, <<limit>>)
      [] OTHER -> InsertParameters(parameters, <<>>, <<>>)

NoParameters == [k \in {} |-> Null]

\* generateSelectStatement(): the relation is generated first.  What it selects
\* is left to who evaluates it; an invokable filter has no place in it.
SelectStatement(q) ==
    LET generated[k \in 0..Len(q)] ==
          IF k = 0 THEN [statement |-> <<>>, parameters |-> NoParameters]
          ELSE LET from == generated[k - 1]
                   where == Condition(q[k].expression, from.parameters)
                   cut == LimitOffset(q[k].limit, q[k].offset, where.parameters)
               IN  [statement |-> Append(from.statement, [where |-> where.condition,
                                                          order |-> q[k].order, cut |-> cut.keys]),
                    parameters |-> cut.parameters]
    IN  generated[Len(q)]

-----------------------------------------------------------------------------
(* What SQLite does with a statement.  Truth values are 1, -1, and 0 for     *)
(* NULL; limits and offsets below zero count as none.                        *)

Truth(holds) == IF holds THEN 1 ELSE -1
Largest(S) == CHOOSE x \in S : \A y \in S : y <= x

Compare(op, a, b) ==
    IF Null \in {a, b} THEN 0
    ELSE Truth(CASE op = "=" -> a = b
                 [] op = "<>" -> a # b
                 [] op = "<" -> a < b
                 [] op = ">" -> a > b
                 [] op = "<=" -> a <= b
                 [] op = ">=" -> a >= b
                 [] op = "LIKE" -> <<a, b>> \in Like
                 [] op = "NOT LIKE" -> <<a, b>> \notin Like)

\* A condition that is one comparison.
Compares(c, row, parameters) ==
    CASE c.op = "IS NULL" -> Truth(row[c.field] = Null)
      [] c.op = "IS NOT NULL" -> Truth(row[c.field] # Null)
      [] IsList(c.op) ->
           LET in == Largest({-1} \cup {Compare("=", row[c.field], parameters[k]) : k \in ToSet(c.keys)})
           IN  IF c.op = "IN" THEN in ELSE -in
      [] OTHER -> Compare(c.op, row[c.field], parameters[c.keys[1]])

\* The value of node i from the values of those before it.
EvalAt(c, row, parameters, value, i) ==
    CASE c[i].op = "NOT" -> -value[i - 1]
      [] c[i].op = "AND" -> -Largest({-value[i - 1 - c[i].span], -value[i - 1]})
      [] c[i].op = "OR" -> Largest({value[i - 1 - c[i].span], value[i - 1]})
      [] OTHER -> Compares(c[i], row, parameters)

Eval(c, row, parameters) ==
    LET value[i \in 1..Len(c)] == EvalAt(c, row, parameters, value, i) IN value[Len(c)]

Matching(condition, rows, parameters) ==
    {r \in rows : condition = <<>> \/ Eval(condition, r, parameters) = 1}

\* NULL is the smallest.
Less(a, b) == b # Null /\ (a = Null \/ a < b)

\* Row r stands before row s.
Before(r, s, order) ==
    \E i \in 1..Len(order) :
        /\ IF order[i].ascending THEN Less(r[order[i].field], s[order[i].field])
           ELSE Less(s[order[i].field], r[order[i].field])
        /\ \A j \in 1..i - 1 : r[order[j].field] = s[order[j].field]

Sortings(rows, order) ==
    {s \in SetToSeqs(rows) : \A i, j \in 1..Len(s) : i < j => ~Before(s[j], s[i], order)}

Cut(s, keys, parameters) ==
    LET limit == IF Len(keys) = 0 THEN -1 ELSE parameters[keys[1]]
        offset == IF Len(keys) < 2 THEN 0 ELSE parameters[keys[2]]
        first == 1 + Largest({0, offset})
    IN  SubSeq(s, first, IF limit < 0 \/ first + limit - 1 > Len(s) THEN Len(s) ELSE first + limit - 1)

\* The sequences of rows a SELECT may return from some rows: what the ORDER BY
\* clause leaves open is open.
Selected(s, rows, parameters) ==
    {Cut(a, s.cut, parameters) : a \in Sortings(Matching(s.where, rows, parameters), s.order)}

\* The sets of rows the outermost SELECT may have to select from; the order of
\* the rows of a subquery is open.
FromClause(statement, rows, parameters) ==
    LET from[k \in 1..Len(statement)] ==
          IF k = 1 THEN {rows}
          ELSE UNION {{ToSet(a) : a \in Selected(statement[k - 1], source, parameters)} :
                         source \in from[k - 1]}
    IN  from[Len(statement)]

Answers(statement, rows, parameters) ==
    UNION {Selected(Last(statement), source, parameters) :
              source \in FromClause(statement, rows, parameters)}

\* The numbers COUNT(*) may return, each as the only row of the result.
Counts(statement, rows, parameters) ==
    LET s == Last(statement)
    IN  {Cut(<<Cardinality(Matching(s.where, source, parameters))>>, s.cut, parameters) :
            source \in FromClause(statement, rows, parameters)}

-----------------------------------------------------------------------------
(* The client.                                                              *)

Die ==
    /\ dead' = TRUE
    /\ UNCHANGED <<table, builder, calls, answer>>

Call(b) ==
    /\ ~dead /\ calls < MaxCalls
    /\ builder' = b /\ calls' = calls + 1 /\ answer' = NoAnswer
    /\ UNCHANGED <<table, dead>>

AddFilter(f) == Call([builder EXCEPT !.filters = Append(@, f)])
AddOrder(o) == Call([builder EXCEPT !.order = Append(@, o)])
SetLimit(limit) == Call([builder EXCEPT !.limit = limit])
SetOffset(offset) == Call([builder EXCEPT !.offset = offset])

\* A new builder for the class.
From ==
    /\ ~dead
    /\ builder' = Builder(<<>>) /\ calls' = 0 /\ answer' = NoAnswer
    /\ UNCHANGED <<table, dead>>

\* A new builder for what the old one selects.
FromQuery ==
    /\ ~dead /\ Len(builder.relation) < MaxDepth
    /\ IF Malformed(builder) THEN Die
       ELSE /\ builder' = Builder(Build(builder))
            /\ answer' = NoAnswer
            /\ UNCHANGED <<table, calls, dead>>

Return(kind, rows, n) == answer' = [kind |-> kind, rows |-> rows, n |-> n]

ReturnRows(rows) == Return("rows", rows, Len(rows))

Kept(rows, accepted) == SelectSeq(rows, LAMBDA r : r \in accepted)

\* The provider's read(): invokable filters are applied to the result.
Select ==
    /\ ~dead /\ answer = NoAnswer
    /\ LET q == Build(builder)
           g == SelectStatement(q)
       IN  IF Malformed(builder) \/ Unsupported(q) THEN Die
           ELSE /\ \E rows \in Answers(g.statement, table, g.parameters) :
                     ReturnRows(Kept(rows, {r \in table : \A a \in Last(q).invokables : r \in a}))
                /\ UNCHANGED <<table, builder, calls, dead>>

\* count(): the same statement with another projection; an empty result is an
\* error, an invokable filter is not looked at.
Count ==
    /\ ~dead /\ answer = NoAnswer
    /\ LET q == Build(builder)
           g == SelectStatement(q)
       IN  IF Malformed(builder) \/ Unsupported(q) THEN Die
           ELSE /\ \E rows \in Counts(g.statement, table, g.parameters) :
                     IF rows = <<>> THEN Return("error", <<>>, 0)
                     ELSE Return("count", <<>>, rows[1])
                /\ UNCHANGED <<table, builder, calls, dead>>

\* remove(): DELETE knows the table and the condition only.  Without a
\* condition, with an invokable filter and for a query as relation the process
\* ends.
Delete ==
    /\ ~dead /\ answer = NoAnswer
    /\ LET q == Build(builder)
           where == Condition(Last(q).expression, NoParameters)
           gone == Matching(where.condition, table, where.parameters)
       IN  IF \/ Malformed(builder)
              \/ Last(q).invokables # {} \/ Len(q) > 1 \/ Last(q).expression = <<>>
              \/ Unsupported(q)
           THEN Die
           ELSE /\ table' = table \ gone
                /\ Return("removed", <<>>, Cardinality(gone))
                /\ UNCHANGED <<builder, calls, dead>>

Next ==
    \/ \E f \in Filters : AddFilter(f)
    \/ \E o \in Orders : AddOrder(o)
    \/ \E limit \in Limits : SetLimit(limit)
    \/ \E offset \in Offsets : SetOffset(offset)
    \/ From \/ FromQuery
    \/ Select \/ Count \/ Delete

Spec == Init /\ [][Next]_vars

-----------------------------------------------------------------------------
(* What a filter says of a row, from the expression alone.  A comparison to  *)
(* a list stands for == of one of its elements (README.md:425-429).          *)

Opposite(comparison) ==
    CASE comparison = "=" -> "<>"    [] comparison = "<>" -> "="
      [] comparison = "<" -> ">="    [] comparison = ">=" -> "<"
      [] comparison = ">" -> "<="    [] comparison = "<=" -> ">"
      [] comparison = "IN" -> "NOT IN"      [] comparison = "NOT IN" -> "IN"
      [] comparison = "LIKE" -> "NOT LIKE"  [] comparison = "NOT LIKE" -> "LIKE"

\* A property without a value compares to nothing but null.
Satisfies(x, comparison, values) ==
    CASE comparison = "=" -> x = values[1]
      [] comparison = "<>" -> x # values[1] /\ (x # Null \/ values[1] = Null)
      [] comparison = "IN" -> \E v \in ToSet(values) : x = v
      [] comparison = "NOT IN" -> \A v \in ToSet(values) : x # v /\ (x # Null \/ v = Null)
      [] OTHER -> /\ x # Null
                  /\ CASE comparison = "<" -> x < values[1]
                       [] comparison = ">=" -> x >= values[1]
                       [] comparison = ">" -> x > values[1]
                       [] comparison = "<=" -> x <= values[1]
                       [] comparison = "LIKE" -> <<x, values[1]>> \in Like
                       [] comparison = "NOT LIKE" -> <<x, values[1]>> \notin Like

\* Which of "holds" and "fails" is sure for the row.
Verdict(x, comparison, values) ==
    (IF Satisfies(x, comparison, values) THEN {"holds"} ELSE {})
    \cup (IF Satisfies(x, Opposite(comparison), values) THEN {"fails"} ELSE {})
Negated(verdict) == {IF v = "holds" THEN "fails" ELSE "holds" : v \in verdict}
Joined(l, operator, r) == (l \cap r) \cup ((l \cup r) \cap {IF operator = "AND" THEN "fails" ELSE "holds"})

\* What node i says, when "says" is what those before it say.
SaysAt(e, row, says, i) ==
    CASE e[i].type = "terminal" -> Verdict(row[e[i].property], e[i].comparison, e[i].values)
      [] e[i].type = "unary" -> Negated(says[i - 1])
      [] e[i].type = "binary" -> Joined(says[i - 1 - e[i].span], e[i].operator, says[i - 1])

Says(e, row) == LET says[i \in 1..Len(e)] == SaysAt(e, row, says, i) IN says[Len(e)]

HasNullInList(e) ==
    \E n \in ToSet(e) : n.type = "terminal" /\ IsList(n.comparison) /\ Null \in ToSet(n.values)

Asked(filters, rows) ==
    {r \in rows : \A e \in ExpressionsIn(filters) : "holds" \in Says(e, r)}

\* Any page of the rows: sorted, and each where its rank allows it to be.
Page(s, rows, order, limit, offset) ==
    LET skipped == IF offset = None \/ offset < 0 THEN 0 ELSE offset
        left == Largest({0, Cardinality(rows) - skipped})
    IN  /\ ToSet(s) \subseteq rows
        /\ Cardinality(ToSet(s)) = Len(s)
        /\ Len(s) = IF limit = None \/ limit < 0 \/ limit > left THEN left ELSE limit
        /\ \A i \in 1..Len(s) :
              /\ Cardinality({r \in rows : Before(r, s[i], order)}) < skipped + i
              /\ Cardinality({r \in rows : ~Before(s[i], r, order)}) >= skipped + i
              /\ \A j \in i + 1..Len(s) : ~Before(s[j], s[i], order)

\* The rows a relation may stand for.
Sources(relation, rows) ==
    LET source[k \in 0..Len(relation)] ==
          IF k = 0 THEN {rows}
          ELSE LET q == relation[k]
                   asked(all) == {r \in all : q.expression = <<>> \/ "holds" \in Says(q.expression, r)}
               IN  UNION {{part \in SUBSET all :
                              \E s \in SetToSeqs(part) : Page(s, asked(all), q.order, q.limit, q.offset)} :
                          all \in source[k - 1]}
    IN  source[Len(relation)]

NoNullInLists ==
    \A e \in ExpressionsIn(builder.filters) \cup {q.expression : q \in ToSet(builder.relation)} :
        ~HasNullInList(e)

Accepted ==
    {r \in table : \A f \in ToSet(builder.filters) : f.type = "invokable" => r \in f.accepts}

\* select() returns a page of what all filters together ask for, in the order
\* asked for, and of that what the invokable filters accept; also when the
\* relation is a query with filters, parameters and a page of its own.  Except
\* that a null in a list matches nothing, and the invokable filters of a query
\* that became a relation are lost.
SelectAnswers ==
    answer.kind = "rows" /\ NoNullInLists =>
        \E source \in Sources(builder.relation, table), page \in UNION {SetToSeqs(S) : S \in SUBSET table} :
            /\ Page(page, Asked(builder.filters, source), builder.order, builder.limit, builder.offset)
            /\ answer.rows = Kept(page, Accepted)
            /\ answer.n = Len(answer.rows)

\* count() tells how many rows the filter expressions ask for, over all pages
\* and whatever invokable filters say; it fails only because the one row of its
\* result is not on the page of the builder.
CountAnswers ==
    NoNullInLists =>
        /\ answer.kind = "count" =>
             \E source \in Sources(builder.relation, table) :
                answer.n = Cardinality(Asked(builder.filters, source))
        /\ answer.kind = "error" =>
             builder.limit = 0 \/ (builder.offset # None /\ builder.offset > 0)

\* Every answer is the one its builder asks for: the rows of a page, or how many
\* rows there are over all pages.
AnswersAsked == SelectAnswers /\ CountAnswers

\* remove() with a query removes the rows all filters together ask for and no
\* other, whatever the order, limit and offset of the builder are, and reports
\* their number; nothing else removes a row.
DeletesAsked ==
    [][IF answer.kind = "none" /\ answer'.kind = "removed"
       THEN NoNullInLists => /\ table' = table \ Asked(builder.filters, table)
                             /\ answer'.n = Cardinality(table) - Cardinality(table')
       ELSE table' = table]_vars

=============================================================================
