---------------------------- MODULE MalangPrinter ----------------------------
(***************************************************************************)
(* The pretty printer (src/src/visitors/ast_pretty_printer.cpp): a syntax  *)
(* tree back to source text, here to lexemes.  Blanks inside a line are    *)
(* left out, line ends and the indentation after them are kept, since the  *)
(* lexer gives them a meaning.  Operators are printed in parentheses.      *)
(***************************************************************************)
EXTENDS MalangSyntax, MalangLexer

Name(name) == <<Lexeme("Identifier", name, 2)>>
Sym(id) == <<Word(id)>>
Else == <<Lexeme("K_else", "K_else", 4)>>

\* do_indention: four blanks a level.
Indentation(level) == IF level = 0 THEN <<>> ELSE <<Blanks(4 * level)>>
LineAt(level) == <<NewLine>> \o Indentation(level)

RECURSIVE PrintPath(_)
PrintPath(path) ==
    IF Len(path) = 1 THEN Name(path[1])
    ELSE Name(path[1]) \o Sym("ColonColon") \o PrintPath(Tail(path))

\* Sequences of lexemes with commas between them.
RECURSIVE Commas(_)
Commas(parts) ==
    IF parts = <<>> THEN <<>>
    ELSE IF Len(parts) = 1 THEN parts[1]
    ELSE parts[1] \o Sym("Comma") \o Commas(Tail(parts))

RECURSIVE PrintType(_)
PrintType(t) ==
    CASE t.k = "type" -> PrintPath(t.path)
      [] t.k = "arrayType" -> Sym("Op_Index_Get") \o PrintType(t.of)
      [] t.k = "fnType" ->
           Sym("K_fn") \o Sym("Open_Paren")
             \o Commas([i \in DOMAIN t.params |-> PrintType(t.params[i])])
             \o Sym("Close_Paren") \o Sym("Right_Arrow") \o PrintType(t.ret)
      [] OTHER -> <<>>

RECURSIVE PrintNode(_, _)
RECURSIVE PrintLines(_, _)

\* do_body, at the indentation of the line the body begins on.
PrintLines(nodes, level) ==
    IF nodes = <<>> THEN <<NewLine>>
    ELSE LineAt(level) \o PrintNode(nodes[1], level) \o PrintLines(Tail(nodes), level)

PrintBody(nodes, level) ==
    Sym("Open_Curly") \o PrintLines(nodes, level + 1)
      \o Indentation(level) \o Sym("Close_Curly")

PrintList(nodes, level) == Commas([i \in DOMAIN nodes |-> PrintNode(nodes[i], level)])

PrintParameters(params, level) ==
    Sym("Open_Paren") \o PrintList(params, level) \o Sym("Close_Paren")

PrintFn(n, level) ==
    Sym("K_fn") \o (CASE n.name = "" -> <<>>
                      [] n.name \in OperatorMethods -> Sym(n.name)
                      [] OTHER -> Name(n.name))
      \o PrintParameters(n.params, level) \o Sym("Right_Arrow")
      \o PrintType(n.ret) \o PrintBody(n.body, level)

PrintAlternative(altern, level) ==
    CASE altern = <<>> -> <<>>
      [] Len(altern) = 1 /\ altern[1].k = "if" ->
           LineAt(level) \o Else \o PrintNode(altern[1], level)
      [] OTHER -> LineAt(level) \o Else \o PrintBody(altern, level)

PrintIf(n, level) ==
    Sym("K_if") \o PrintNode(n.cond, level) \o PrintBody(n.conseq, level)
      \o PrintAlternative(n.altern, level)

PrintValue(n, level) ==
    CASE n.k = "variable" -> PrintPath(Append(n.quals, n.name))
      [] n.k \in {"Integer", "Real", "Character", "String", "K_true", "K_false"} ->
           <<Lexeme(n.k, n.text, 2)>>
      [] n.k = "binary" ->
           Sym("Open_Paren") \o PrintNode(n.lhs, level) \o Sym(n.op)
             \o PrintNode(n.rhs, level) \o Sym("Close_Paren")
      [] n.k = "unary" /\ n.op = "K_unalias" -> Sym(n.op) \o PrintNode(n.operand, level)
      [] n.k = "unary" -> Sym("Open_Paren") \o Sym(n.op) \o PrintNode(n.operand, level)
                            \o Sym("Close_Paren")
      [] n.k = "call" -> PrintNode(n.callee, level) \o PrintParameters(n.args, level)
      [] n.k = "index" -> PrintNode(n.thing, level) \o Sym("Open_Square")
                            \o PrintList(n.subscript, level) \o Sym("Close_Square")
      [] n.k = "member" -> PrintNode(n.thing, level) \o Sym("Dot") \o Name(n.member)
      [] n.k = "arrayLiteral" ->
           Sym("Open_Square") \o PrintList(n.values, level) \o Sym("Close_Square")
      [] n.k = "newArray" -> Sym("Open_Square") \o PrintNode(n.size, level)
                               \o Sym("Close_Square") \o PrintType(n.of)

PrintStatement(n, level) ==
    CASE n.k = "assign" -> PrintNode(n.lhs, level) \o Sym("Equals") \o PrintNode(n.rhs, level)
      [] n.k = "decl" -> Name(n.name) \o Sym("Colon") \o PrintType(n.type)
      [] n.k = "declAssign" ->
           PrintNode(n.decl, level) \o Sym("Equals") \o PrintNode(n.value, level)
      [] n.k = "return" -> Sym("K_return") \o PrintList(n.values, level)
      [] n.k = "break" -> Sym("K_break") \o PrintList(n.values, level)
      [] n.k = "continue" -> Sym("K_continue")
      [] n.k = "while" -> Sym("K_while") \o PrintNode(n.cond, level)
                            \o PrintBody(n.body, level)
      [] n.k = "for" -> Sym("K_for") \o Name(n.it) \o Sym("K_in")
                          \o PrintNode(n.iterable, level) \o PrintBody(n.body, level)

\* Fields, then constructors, then methods, whatever their order was.
PrintDefinition(n, level) ==
    CASE n.k = "typedef" ->
           Sym("K_type") \o PrintType(n.type) \o Sym("Equals") \o Sym("Open_Curly")
             \o PrintLines(n.fields \o n.ctors \o n.methods, level + 1)
             \o Sym("Close_Curly")
      [] n.k = "ctor" -> Name("new") \o PrintParameters(n.params, level)
                           \o PrintBody(n.body, level)
      [] n.k = "alias" -> Sym("K_type") \o Sym("K_alias") \o PrintType(n.alias)
                            \o Sym("Equals") \o PrintType(n.to)
      [] n.k = "extend" ->
           Sym("K_extend") \o PrintType(n.type) \o Sym("Open_Curly")
             \o PrintLines(n.body, level + 1) \o Sym("Close_Curly")
      [] n.k = "import" -> Sym("K_import") \o PrintPath(n.name)

PrintNode(n, level) ==
    CASE n.k = "fn" -> PrintFn(n, level)
      [] n.k = "if" -> PrintIf(n, level)
      [] n.k \in {"assign", "decl", "declAssign", "return", "break", "continue",
                  "while", "for"} -> PrintStatement(n, level)
      [] n.k \in {"typedef", "ctor", "alias", "extend", "import"} ->
           PrintDefinition(n, level)
      [] OTHER -> PrintValue(n, level)
=============================================================================
