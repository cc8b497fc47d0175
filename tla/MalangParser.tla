---------------------------- MODULE MalangParser ----------------------------
(***************************************************************************)
(* The recursive-descent parser (src/src/parser.cpp).  Each parse_ function*)
(* of the code is an operator from a parser state to a result: the state   *)
(* it leaves and the node it built, Nil for nullptr.  They call each other *)
(* by the name of the rule, through Parse.  A function that                *)
(* gives up puts the position and is_extending back (PARSE_FAIL) but not   *)
(* the error count; a caller's next alternative starts from the state the  *)
(* failed one left.  Types and imports are looked up elsewhere.            *)
(***************************************************************************)
EXTENDS MalangSyntax, SequencesExt

(***************************************************************************)
(* Parser state: the tokens, lex_idx, errors, whether is_extending is set, *)
(* and whether the process is gone (a null type was dereferenced, or       *)
(* abort was called).                                                      *)
(***************************************************************************)
ParserState(toks) ==
    [toks |-> toks, i |-> 1, errors |-> 0, extending |-> FALSE, dead |-> FALSE]

InvalidToken == [id |-> "Invalid", text |-> ""]
Peek(s, n) == IF s.i + n \in DOMAIN s.toks THEN s.toks[s.i + n] ELSE InvalidToken
At(s, ids) == Peek(s, 0).id \in ids
Text(s) == Peek(s, 0).text
Skip(s) == [s EXCEPT !.i = @ + 1]
OptionalAlways(s, ids) == Skip(s)   \* a seeded bug: accept without looking
Optional(s, ids) == IF At(s, ids) THEN Skip(s) ELSE s
Error(s) == [s EXCEPT !.errors = @ + 1]
Crash(s) == [s EXCEPT !.dead = TRUE]

\* expect(id): skip the token, or report it missing.
Expect(s, id) == IF At(s, {id}) THEN Skip(s) ELSE Error(s)

Done(s, node) == [s |-> s, n |-> node]
Parsed(r) == r.n # Nil

\* PARSE_FAIL from state s of a function entered in state s0.
Fail(s0, s) == Done([s EXCEPT !.i = s0.i, !.extending = s0.extending], Nil)

\* A sequence of nodes as a node, so that it can be told from Nil.
List(items) == [k |-> "list", items |-> items]

(***************************************************************************)
(* The ten levels of binary operators, loosest first.  They share one      *)
(* shape: an operand of the next level, then operators of this level, each *)
(* with its right operand, grouped to the left.                            *)
(***************************************************************************)
LogicalAndBitLevels ==
    <<{"Log_Or"}, {"Log_And"}, {"Bit_Or"}, {"Bit_Xor"}, {"Bit_And"}>>
ShiftsBelowSums ==     \* a seeded bug: two levels the other way round
    <<{"Equals_Equals", "Not_Equals"},
      {"Less", "Less_Equals", "Greater", "Greater_Equals"},
      {"Plus", "Minus"}, {"L_Shift", "R_Shift"}, {"Star", "Slash", "Mod"}>>
ComparisonAndArithmeticLevels ==
    <<{"Equals_Equals", "Not_Equals"},
      {"Less", "Less_Equals", "Greater", "Greater_Equals"},
      {"L_Shift", "R_Shift"}, {"Plus", "Minus"}, {"Star", "Slash", "Mod"}>>
Levels == LogicalAndBitLevels \o ComparisonAndArithmeticLevels

UnaryOperators == {"Minus", "Plus", "Invert", "Not", "K_unalias"}

AssignOperator ==   \* the binary operator inside a compound assignment
    [Plus_Equals |-> "Plus", Minus_Equals |-> "Minus", Star_Equals |-> "Star",
     Slash_Equals |-> "Slash", Mod_Equals |-> "Mod", L_Shift_Equals |-> "L_Shift",
     R_Shift_Equals |-> "R_Shift", Bit_And_Equals |-> "Bit_And",
     Bit_Xor_Equals |-> "Bit_Xor", Bit_Or_Equals |-> "Bit_Or"]

\* The parse_ function for a rule of the grammar, named here and at the end.
RECURSIVE Parse(_, _)

\* The first rule that succeeds; each is tried in the state the last one left.
FirstOf(rules, s) ==
    FoldLeft(LAMBDA r, rule : IF Parsed(r) THEN r ELSE Parse(rule, r.s),
             Done(s, Nil), rules)

(***************************************************************************)
(* Names, types and lists.                                                 *)
(***************************************************************************)
RECURSIVE QualifiedFrom(_, _, _)
QualifiedFrom(s0, s, quals) ==     \* s is at the identifier
    LET next == Skip(s)
    IN  IF ~At(next, {"ColonColon"})
        THEN Done(next, VariableNode(quals, Text(s)))
        ELSE IF ~At(Skip(next), {"Identifier"})
        THEN Fail(s0, Error(Skip(next)))
        ELSE QualifiedFrom(s0, Skip(next), Append(quals, Text(s)))

ParseQualifiedName(s) ==
    IF At(s, {"Identifier"}) THEN QualifiedFrom(s, s, <<>>) ELSE Fail(s, s)

PathOf(var) == Append(var.quals, var.name)

RECURSIVE TypesFrom(_, _)
TypesFrom(s, types) ==
    LET t == Parse("type", s)
    IN  IF ~Parsed(t) THEN Done(t.s, List(types))
        ELSE IF At(t.s, {"Comma"})
        THEN TypesFrom(Skip(t.s), Append(types, t.n))
        ELSE Done(t.s, List(Append(types, t.n)))

ParseFnType(s) ==      \* after "fn"
    LET params == TypesFrom(Skip(s), <<>>)
        arrow == Skip(params.s)
        ret == Parse("type", Skip(arrow))
    IN  IF ~At(s, {"Open_Paren"}) THEN Fail(s, Error(s))
        ELSE IF ~At(params.s, {"Close_Paren"}) THEN Fail(s, Error(params.s))
        ELSE IF ~At(arrow, {"Right_Arrow"}) THEN Fail(s, Error(arrow))
        ELSE IF ~Parsed(ret) THEN Fail(s, ret.s)
        ELSE Done(ret.s, FnType(params.n.items, ret.n))

ParseArrayType(s) ==   \* after the brackets: their element must be there
    LET of == Parse("type", s)
    IN  IF Parsed(of) THEN Done(of.s, ArrayType(of.n)) ELSE Done(Crash(of.s), Nil)

ParseType(s) ==
    LET inner == Skip(s)
        name == ParseQualifiedName(s)
        fn == ParseFnType(inner)
    IN  CASE At(s, {"K_fn"}) -> IF Parsed(fn) THEN fn ELSE Fail(s, fn.s)
          [] At(s, {"Open_Paren"}) -> Fail(s, Error(inner))  \* no tuple types yet
          [] At(s, {"Op_Index_Get"}) -> ParseArrayType(inner)
          [] At(s, {"Open_Square"}) -> ParseArrayType(Expect(inner, "Close_Square"))
          [] OTHER -> IF Parsed(name) THEN Done(name.s, TypeName(PathOf(name.n)))
                      ELSE Fail(s, name.s)

RECURSIVE ExpressionsFrom(_, _)
ExpressionsFrom(s, items) ==
    LET x == Parse("expression", s)
    IN  IF ~Parsed(x)
        THEN Done(IF items # <<>> /\ Peek(x.s, -1).id # "Comma"
                  THEN Error(x.s) ELSE x.s,
                  List(items))
        ELSE IF At(x.s, {"Comma"})
        THEN ExpressionsFrom(Skip(x.s), Append(items, x.n))
        ELSE Done(x.s, List(Append(items, x.n)))

ParseExpressionList(s) == ExpressionsFrom(s, <<>>)

\* { statement* }; a null result for a missing brace.
RECURSIVE StatementsFrom(_, _)
StatementsFrom(s, body) ==
    LET stmt == Parse("statement", s)
    IN  IF Parsed(stmt) THEN StatementsFrom(stmt.s, Append(body, stmt.n))
        ELSE Done(stmt.s, List(body))

ParseBody(s) ==
    LET body == StatementsFrom(Skip(s), <<>>)
    IN  IF ~At(s, {"Open_Curly"}) THEN Fail(s, Error(s))
        ELSE IF At(body.s, {"Close_Curly"}) THEN Done(Skip(body.s), body.n)
        ELSE Done(Error(body.s), Nil)

\* A body in braces, or one statement.
ParseBodyOrStatement(s) ==
    LET single == Parse("statement", s)
    IN  IF At(s, {"Open_Curly"}) THEN Parse("body", s)
        ELSE IF Parsed(single) THEN Done(single.s, List(<<single.n>>)) ELSE single
(***************************************************************************)
(* Declarations and functions.                                             *)
(***************************************************************************)
ParseDeclaration(s, typeRequired) ==
    LET colon == Skip(s)
        type == Parse("type", Skip(colon))
    IN  IF ~At(s, {"Identifier"}) \/ ~At(colon, {"Colon"}) THEN Fail(s, s)
        ELSE IF ~Parsed(type) /\ typeRequired THEN Fail(s, Error(type.s))
        ELSE Done(type.s, DeclNode(Text(s), type.n, s.extending))

\* A missing value is reported, and the position is not put back.
ParseDeclAssign(s) ==
    LET decl == ParseDeclaration(s, FALSE)
        value == Parse("expression", Skip(decl.s))
        type == IF decl.n.type = Nil THEN TypeOf(value.n) ELSE decl.n.type
    IN  IF ~Parsed(decl) \/ ~At(decl.s, {"Equals"}) THEN Fail(s, decl.s)
        ELSE IF ~Parsed(value) THEN Done(Error(value.s), Nil)
        ELSE Done(IF type = Abort THEN Crash(value.s) ELSE value.s,
                  DeclAssignNode([decl.n EXCEPT !.type = type], value.n))

RECURSIVE DeclsFrom(_, _)
DeclsFrom(s, decls) ==
    LET decl == ParseDeclaration(s, TRUE)
    IN  IF ~Parsed(decl) THEN Done(decl.s, List(decls))
        ELSE IF At(decl.s, {"Comma"})
        THEN DeclsFrom(Skip(decl.s), Append(decls, decl.n))
        ELSE Done(decl.s, List(Append(decls, decl.n)))

\* ( decl_list ) [-> type] { body }: what functions and constructors share.
ParseFnShared(s) ==
    LET params == DeclsFrom(Skip(s), <<>>)
        close == Skip(params.s)
        ret == IF At(close, {"Right_Arrow"}) THEN Parse("type", Skip(close))
               ELSE Done(close, VoidT)
        body == Parse("body", ret.s)
    IN  IF ~At(s, {"Open_Paren"}) THEN Fail(s, Error(s))
        ELSE IF ~At(params.s, {"Close_Paren"}) THEN Fail(s, Error(params.s))
        ELSE IF ~Parsed(ret) THEN Fail(s, Error(ret.s))
        ELSE IF ~Parsed(body) THEN Fail(s, body.s)
        ELSE Done(body.s, FnNode("", params.n.items, ret.n, body.n.items))

ParseFn(s) ==
    LET fn == Parse("fnShared", Skip(s))
    IN  IF At(s, {"K_fn"}) /\ Parsed(fn) THEN fn
        ELSE Fail(s, IF At(s, {"K_fn"}) THEN fn.s ELSE s)

\* fn name ...; an operator is a name while a type is defined or extended.
ParseBoundFn(s) ==
    LET name == Skip(s)
        fn == Parse("fnShared", Skip(name))
        names == {"Identifier"} \cup (IF s.extending THEN OperatorMethods ELSE {})
    IN  IF ~At(s, {"K_fn"}) \/ ~At(name, names) THEN Fail(s, s)
        ELSE IF ~Parsed(fn) THEN Fail(s, fn.s)
        ELSE Done(fn.s, [fn.n EXCEPT !.name = Text(name)])

\* new ( decl_list ) { body }: "new" is an identifier everywhere else.
ParseCtor(s) ==
    LET fn == Parse("fnShared", Skip(s))
    IN  IF ~At(s, {"Identifier"}) \/ Text(s) # "new" THEN Fail(s, s)
        ELSE IF ~Parsed(fn) THEN Fail(s, fn.s)
        ELSE IF fn.n.ret # VoidT THEN Fail(s, Error(fn.s))
        ELSE Done(fn.s, ConstructorNode(fn.n.params, fn.n.body))

(***************************************************************************)
(* Expressions.                                                            *)
(***************************************************************************)
Literals == {"Integer", "String", "Character", "Real", "K_true", "K_false"}

ParsePrimary(s) ==
    LET expr == Parse("expression", Skip(s))
    IN  CASE At(s, {"Open_Paren"}) ->
                 IF ~At(expr.s, {"Close_Paren"}) THEN Fail(s, Error(expr.s))
                 ELSE IF ~Parsed(expr) THEN Fail(s, expr.s)
                 ELSE Done(Skip(expr.s), expr.n)
          [] At(s, {"K_fn"}) -> ParseFn(s)
          [] At(s, Literals) ->
                 Done(Skip(s), LiteralNode(Peek(s, 0).id, Text(s)))
          [] OTHER -> ParseQualifiedName(s)

\* Calls, subscripts and member accesses after a primary expression.
RECURSIVE PostfixFrom(_, _, _)
PostfixFrom(s0, s, expr) ==
    LET list == Parse("expressions", Skip(s))
        after == Skip(list.s)
    IN  CASE At(s, {"Open_Paren"}) ->
                 IF At(list.s, {"Close_Paren"})
                 THEN PostfixFrom(s0, after, CallNode(expr, list.n.items))
                 ELSE Fail(s0, Error(list.s))
          [] At(s, {"Open_Square"}) ->
                 IF At(list.s, {"Close_Square"})
                 THEN PostfixFrom(s0, after, IndexNode(expr, list.n.items))
                 ELSE Fail(s0, Error(list.s))
          [] At(s, {"Dot"}) ->
                 IF At(Skip(s), {"Identifier"})
                 THEN PostfixFrom(s0, Skip(Skip(s)), MemberNode(expr, Text(Skip(s))))
                 ELSE Fail(s0, Error(Skip(s)))
          [] OTHER -> Done(s, expr)

ParsePostfix(s) ==
    LET expr == ParsePrimary(s)
    IN  IF Parsed(expr) THEN PostfixFrom(s, expr.s, expr.n) ELSE Fail(s, expr.s)

\* A prefix operator takes whatever operand follows, a missing one too.
RECURSIVE ParseUnary(_)
ParseUnary(s) ==
    LET postfix == ParsePostfix(s)
        operand == ParseUnary(Skip(postfix.s))
    IN  IF Parsed(postfix) THEN postfix
        ELSE IF At(postfix.s, UnaryOperators)
        THEN Done(operand.s, UnaryNode(Peek(postfix.s, 0).id, operand.n))
        ELSE Fail(s, postfix.s)

RECURSIVE ParseBinary(_, _)
RECURSIVE BinaryFrom(_, _, _, _)
BinaryFrom(level, s0, s, lhs) ==
    LET rhs == ParseBinary(level + 1, Skip(s))
    IN  IF ~At(s, Levels[level]) THEN Done(s, lhs)
        ELSE IF ~Parsed(rhs) THEN Fail(s0, rhs.s)
        ELSE BinaryFrom(level, s0, rhs.s, BinaryNode(Peek(s, 0).id, lhs, rhs.n))

ParseBinary(level, s) ==
    IF level > Len(Levels) THEN ParseUnary(s)
    ELSE LET lhs == ParseBinary(level + 1, s)
         IN  IF Parsed(lhs) THEN BinaryFrom(level, s, lhs.s, lhs.n) ELSE Fail(s, lhs.s)

ParseNewArray(s) ==    \* [ size ] type
    LET size == Parse("expression", Skip(s))
        type == Parse("type", Skip(size.s))
    IN  IF ~Parsed(size) \/ ~At(size.s, {"Close_Square"}) THEN Fail(s, size.s)
        ELSE IF ~Parsed(type) THEN Fail(s, type.s)
        ELSE Done(type.s, NewArrayNode(type.n, size.n))

ParseArrayLiteral(s) ==
    LET values == Parse("expressions", Skip(s))
        close == Expect(values.s, "Close_Square")
    IN  IF values.n.items = <<>> THEN Fail(s, Error(close))
        ELSE Done(close, ArrayLiteralNode(values.n.items))

ParseExpression(s) ==
    LET newArray == Parse("newArray", s)
    IN  CASE At(s, {"Invalid"}) -> Done(s, Nil)
          [] At(s, {"K_if"}) -> Parse("if", s)
          [] At(s, {"Open_Square"}) ->
                 IF Parsed(newArray) THEN newArray ELSE ParseArrayLiteral(newArray.s)
          [] OTHER -> ParseBinary(1, s)
(***************************************************************************)
(* Statements.                                                             *)
(***************************************************************************)
ParseAlternative(s) ==     \* after the consequence, at "else" or past it
    LET leg == Skip(s)
        elseIf == Parse("if", leg)
    IN  IF ~At(s, {"K_else"}) THEN Done(s, List(<<>>))
        ELSE IF ~At(leg, {"K_if"}) THEN Parse("bodyOrStatement", leg)
        ELSE IF Parsed(elseIf) THEN Done(elseIf.s, List(<<elseIf.n>>)) ELSE elseIf

\* Without braces the consequence may be missing, but not the alternative.
ParseIfElse(s) ==
    LET cond == Parse("expression", Skip(s))
        leg == Parse("bodyOrStatement", cond.s)
        conseq == IF Parsed(leg) THEN leg.n.items ELSE <<>>
        altern == ParseAlternative(leg.s)
    IN  IF ~At(s, {"K_if"}) THEN Fail(s, s)
        ELSE IF ~Parsed(cond) THEN Fail(s, Error(cond.s))
        ELSE IF ~Parsed(leg) /\ At(cond.s, {"Open_Curly"}) THEN Fail(s, leg.s)
        ELSE IF ~Parsed(altern) THEN Fail(s, altern.s)
        ELSE Done(altern.s, IfNode(cond.n, conseq, altern.n.items))

\* The condition is not looked at: it may be missing.
ParseWhile(s) ==
    LET cond == Parse("expression", Skip(s))
        body == Parse("bodyOrStatement", cond.s)
    IN  IF ~At(s, {"K_while"}) THEN Fail(s, s)
        ELSE IF ~Parsed(body) THEN Fail(s, body.s)
        ELSE Done(body.s, WhileNode(cond.n, body.n.items))

ParseFor(s) ==
    LET named == At(Skip(s), {"Identifier"}) /\ At(Skip(Skip(s)), {"K_in"})
        it == IF named THEN Text(Skip(s)) ELSE "it"
        iterable == Parse("expression", IF named THEN Skip(Skip(Skip(s))) ELSE Skip(s))
        body == Parse("bodyOrStatement", iterable.s)
    IN  IF ~At(s, {"K_for"}) THEN Fail(s, s)
        ELSE IF ~Parsed(body) THEN Fail(s, body.s)
        ELSE Done(body.s, ForNode(it, iterable.n, body.n.items))

\* A compound assignment parses its left side twice, once for each place.
ParseAssignment(s) ==
    LET lhs == Parse("expression", s)
        rhs == Parse("expression", Skip(lhs.s))
        copy == Parse("expression", Fail(s, lhs.s).s)
        operand == Parse("expression", Skip(copy.s))
        op == AssignOperator[Peek(lhs.s, 0).id]
    IN  IF ~Parsed(lhs) \/ ~At(lhs.s, {"Equals"} \cup DOMAIN AssignOperator)
        THEN Fail(s, lhs.s)
        ELSE IF ~CanLValue(lhs.n) THEN Fail(s, Error(Skip(lhs.s)))
        ELSE IF At(lhs.s, {"Equals"})
        THEN IF Parsed(rhs) THEN Done(rhs.s, AssignNode(lhs.n, rhs.n))
             ELSE Fail(s, rhs.s)
        ELSE IF Parsed(operand)
        THEN Done(operand.s, AssignNode(lhs.n, BinaryNode(op, copy.n, operand.n)))
        ELSE Fail(s, operand.s)

ParseJump(s) ==        \* return, break and continue
    LET values == Parse("expressions", Skip(s))
    IN  CASE At(s, {"K_return"}) -> Done(values.s, ReturnNode(values.n.items))
          [] At(s, {"K_break"}) -> Done(values.s, BreakNode(values.n.items))
          [] At(s, {"K_continue"}) -> Done(Skip(s), ContinueNode)
          [] OTHER -> Fail(s, s)

\* The alternatives of a statement, in the order the code tries them.
StatementAlternatives(s) ==
    FirstOf(<<"boundFn", "for", "declAssign", "declaration", "assignment", "jump", "while",
              "expression">>, s)

RECURSIVE SkipTerminators(_)
SkipTerminators(s) ==
    IF At(s, {"StmtTerminator"}) THEN SkipTerminators(Skip(s)) ELSE s

\* The terminator that ends a statement is taken if it is there.
ParseStatement(s) ==
    LET stmt == StatementAlternatives(SkipTerminators(s))
    IN  IF Parsed(stmt) THEN Done(Optional(stmt.s, {"StmtTerminator"}), stmt.n)
        ELSE Fail(s, stmt.s)

(***************************************************************************)
(* Definitions that only the top level holds.                              *)
(***************************************************************************)
ParseTypeAlias(s) ==
    LET alias == ParseQualifiedName(Skip(Skip(s)))
        to == ParseQualifiedName(Skip(alias.s))
    IN  IF ~At(s, {"K_type"}) \/ ~At(Skip(s), {"K_alias"}) THEN Fail(s, s)
        ELSE IF ~Parsed(alias) THEN Fail(s, Error(alias.s))
        ELSE IF ~At(alias.s, {"Equals"}) THEN Fail(s, Error(alias.s))
        ELSE IF ~Parsed(to) THEN Fail(s, Error(to.s))
        ELSE Done(to.s, TypeAliasNode(TypeName(PathOf(alias.n)), TypeName(PathOf(to.n))))

\* The members of a type: constructors, fields and methods in any order.
RECURSIVE MembersFrom(_, _)
MembersFrom(s, def) ==
    LET r == FirstOf(<<"constructor", "declAssign", "declaration", "boundFn">>,
                     Optional(s, {"StmtTerminator"}))
        with == CASE ~Parsed(r) -> def
                  [] r.n.k = "ctor" -> [def EXCEPT !.ctors = Append(@, r.n)]
                  [] r.n.k = "fn" -> [def EXCEPT !.methods = Append(@, r.n)]
                  [] OTHER -> [def EXCEPT !.fields = Append(@, r.n)]
    IN  IF Parsed(r) THEN MembersFrom(r.s, with) ELSE Done(r.s, def)

ParseTypeDefinition(s) ==
    LET name == Skip(s)
        eq == [Skip(name) EXCEPT !.extending = TRUE]
        open == Skip(eq)
        members == MembersFrom(Skip(open),
                       TypeDefNode(TypeName(<<Text(name)>>), <<>>, <<>>, <<>>))
    IN  IF ~At(s, {"K_type"}) THEN Fail(s, s)
        ELSE IF ~At(name, {"Identifier"}) THEN Fail(s, Error(name))
        ELSE IF ~At(eq, {"Equals"}) THEN Fail(s, Error(eq))
        ELSE IF ~At(open, {"Open_Curly"}) THEN Fail(s, Error(open))
        ELSE IF ~At(members.s, {"Close_Curly"}) THEN Fail(s, Error(members.s))
        ELSE Done([Skip(members.s) EXCEPT !.extending = s.extending], members.n)

RECURSIVE MethodsFrom(_, _)
MethodsFrom(s, body) ==
    LET fn == Parse("boundFn", Optional(s, {"StmtTerminator"}))
    IN  IF Parsed(fn) THEN MethodsFrom(fn.s, Append(body, fn.n))
        ELSE Done(fn.s, List(body))

\* A seeded bug: is_extending is left set.
ParseExtendStays(s) ==
    LET type == Parse("type", Skip(s))
        open == [type.s EXCEPT !.extending = TRUE]
        body == MethodsFrom(Skip(open), <<>>)
    IN  IF ~At(s, {"K_extend"}) \/ ~Parsed(type) \/ ~At(open, {"Open_Curly"})
            \/ ~At(body.s, {"Close_Curly"})
        THEN Fail(s, Error(type.s))
        ELSE Done(Skip(body.s), ExtendNode(type.n, body.n.items))

ParseExtend(s) ==
    LET type == Parse("type", Skip(s))
        open == [type.s EXCEPT !.extending = TRUE]
        body == MethodsFrom(Skip(open), <<>>)
    IN  IF ~At(s, {"K_extend"}) THEN Fail(s, s)
        ELSE IF ~Parsed(type) THEN Fail(s, Error(type.s))
        ELSE IF ~At(open, {"Open_Curly"}) THEN Fail(s, Error(open))
        ELSE IF ~At(body.s, {"Close_Curly"}) THEN Fail(s, Error(body.s))
        ELSE Done([Skip(body.s) EXCEPT !.extending = s.extending],
                  ExtendNode(type.n, body.n.items))

ParseImport(s) ==
    LET name == ParseQualifiedName(Skip(s))
    IN  IF ~At(s, {"K_import"}) THEN Fail(s, s)
        ELSE IF ~Parsed(name) THEN Fail(s, name.s)
        ELSE IF ~At(name.s, {"StmtTerminator"}) THEN Fail(s, Error(name.s))
        ELSE Done(Skip(name.s), ImportNode(PathOf(name.n)))

Parse(rule, s) ==
    CASE rule = "type" -> ParseType(s)
      [] rule = "expressions" -> ParseExpressionList(s)
      [] rule = "body" -> ParseBody(s)
      [] rule = "bodyOrStatement" -> ParseBodyOrStatement(s)
      [] rule = "declaration" -> ParseDeclaration(s, TRUE)
      [] rule = "declAssign" -> ParseDeclAssign(s)
      [] rule = "fnShared" -> ParseFnShared(s)
      [] rule = "boundFn" -> ParseBoundFn(s)
      [] rule = "constructor" -> ParseCtor(s)
      [] rule = "newArray" -> ParseNewArray(s)
      [] rule = "expression" -> ParseExpression(s)
      [] rule = "if" -> ParseIfElse(s)
      [] rule = "while" -> ParseWhile(s)
      [] rule = "for" -> ParseFor(s)
      [] rule = "assignment" -> ParseAssignment(s)
      [] rule = "jump" -> ParseJump(s)
      [] rule = "statement" -> ParseStatement(s)
      [] rule = "alias" -> ParseTypeAlias(s)
      [] rule = "typeDefinition" -> ParseTypeDefinition(s)
      [] rule = "extend" -> ParseExtend(s)
      [] rule = "import" -> ParseImport(s)
=============================================================================
