----------------------------- MODULE MCfrontend -----------------------------
(***************************************************************************)
(* Inputs for the front end: printed trees, operator chains written        *)
(* without parentheses, pairs of lines, and token soup.                    *)
(***************************************************************************)
EXTENDS Frontend, FiniteSets

MCNoLowercase == {"PI", "_"}
MCStartsWithUnderscore == {"_p", "_"}

x == VariableNode(<<>>, "x")
y == VariableNode(<<>>, "y")
one == LiteralNode("Integer", "one")
yes == LiteralNode("K_true", "K_true")

AllBinary == UNION {Levels[i] : i \in DOMAIN Levels}
OnePerLevel == {"Log_Or", "Log_And", "Bit_Xor", "Not_Equals", "Less_Equals",
                "R_Shift", "Minus", "Star"}

(***************************************************************************)
(* Printed trees.                                                          *)
(***************************************************************************)
IntArray == ArrayType(TypeName(<<"m", "T">>))
P(name, type) == DeclNode(name, type, FALSE)

\* Values that may stand anywhere.
Compact ==
    {x, one, yes, LiteralNode("String", "s"), LiteralNode("Character", "c"),
     LiteralNode("Real", "r"), VariableNode(<<"m", "n">>, "x")}
    \cup {BinaryNode(op, x, one) : op \in AllBinary}
    \cup {UnaryNode(op, x) : op \in UnaryOperators \ {"K_unalias"}}
    \cup {CallNode(x, <<>>), CallNode(MemberNode(x, "f"), <<one, yes>>),
          IndexNode(x, <<one>>), MemberNode(CallNode(x, <<one>>), "y"),
          CallNode(FnNode("", <<>>, VoidT, <<>>), <<>>)}

\* Values that the printer leaves without parentheses: they stand alone.
Loose ==
    {UnaryNode("K_unalias", x), ArrayLiteralNode(<<one>>),
     ArrayLiteralNode(<<ArrayLiteralNode(<<one>>), ArrayLiteralNode(<<x, y>>)>>),
     NewArrayNode(IntT, one), NewArrayNode(IntArray, BinaryNode("Plus", x, one)),
     IfNode(x, <<one>>, <<>>),
     FnNode("", <<P("x", IntT), P("f", FnType(<<IntT, IntArray>>, VoidT))>>, IntArray,
            <<ReturnNode(<<x>>)>>)}

Compound ==
    {BinaryNode(op, a, b) : op \in OnePerLevel, a \in {x, UnaryNode("Minus", y)},
                            b \in {c \in Compact : c.k \in {"binary", "unary", "call"}}}
    \cup {BinaryNode(op, a, y) : op \in OnePerLevel,
                            a \in {c \in Compact : c.k \in {"binary", "index", "member"}}}

Inner ==    \* statements for bodies
    {AssignNode(x, one), CallNode(x, <<y>>), DeclNode("_p", IntT, FALSE),
     IfNode(x, <<ReturnNode(<<one>>)>>, <<BreakNode(<<>>)>>),
     IfNode(x, <<>>, <<IfNode(y, <<x>>, <<ContinueNode>>)>>),
     WhileNode(BinaryNode("Less", x, one), <<ContinueNode, BreakNode(<<x, y>>)>>)}

Typed(name, value) == DeclAssignNode(DeclNode(name, TypeOf(value), FALSE), value)

Statements ==
    Compact \cup Loose \cup Compound
    \cup {AssignNode(l, r) : l \in {x, IndexNode(x, <<one>>), MemberNode(x, "y")},
                             r \in Loose \cup {one, BinaryNode("Plus", x, one)}}
    \cup {DeclNode(n, t, FALSE) : n \in {"x", "PI", "_p"}, t \in {IntT, IntArray}}
    \cup {Typed(n, v) : n \in {"x", "PI"}, v \in Compact \cup Loose}
    \cup {ReturnNode(<<>>), ReturnNode(<<x, one>>), BreakNode(<<>>), ContinueNode}
    \cup {WhileNode(x, <<s>>) : s \in Inner} \cup {ForNode("i", x, <<s>>) : s \in Inner}
    \cup {IfNode(yes, <<s, t>>, <<>>) : s \in Inner, t \in Inner}

Method(name) == FnNode(name, <<P("x", IntT)>>, VoidT, <<DeclNode("_p", IntT, TRUE)>>)

Definitions ==
    {TypeDefNode(TypeName(<<"T">>),
                 <<DeclNode("_p", IntT, TRUE), DeclAssignNode(DeclNode("PI", IntT, TRUE), one)>>,
                 <<ConstructorNode(<<P("x", IntT)>>, <<AssignNode(x, one)>>)>>,
                 <<Method("f"), Method("Op_Index_Get")>>),
     ExtendNode(IntT, <<Method("Plus_At")>>),
     TypeAliasNode(TypeName(<<"T">>), IntT),
     FnNode("f", <<>>, VoidT, <<IfNode(x, <<one>>, <<y>>)>>)}

Whole ==    \* whole programs: what one item leaves must not reach the next
    {Ast(<<>>, <<>>, <<s>>) : s \in Statements}
    \cup {Ast(<<ImportNode(<<"m", "n">>)>>, <<d>>, <<s, one>>) :
             d \in Definitions, s \in Inner \ {n \in Inner : n.k = "if"}}
    \cup {Ast(<<>>, <<d, e>>, <<>>) : d \in Definitions, e \in Definitions}

RECURSIVE PrintAll(_)
PrintAll(nodes) ==
    IF nodes = <<>> THEN <<>>
    ELSE PrintNode(nodes[1], 0) \o <<NewLine>> \o PrintAll(Tail(nodes))

Printed ==
    {[kind |-> "printed", ast |-> p,
      source |-> PrintAll(p.imports \o p.first \o p.second)] : p \in Whole}

(***************************************************************************)
(* Operator chains: a op b op c op d without parentheses.                  *)
(***************************************************************************)
Strength ==
    [Log_Or |-> 1, Log_And |-> 2, Bit_Or |-> 3, Bit_Xor |-> 4, Bit_And |-> 5,
     Equals_Equals |-> 6, Not_Equals |-> 6, Less |-> 7, Less_Equals |-> 7,
     Greater |-> 7, Greater_Equals |-> 7, L_Shift |-> 8, R_Shift |-> 8,
     Plus |-> 9, Minus |-> 9, Star |-> 10, Slash |-> 10, Mod |-> 10]

\* The weakest operator, the last of several equally weak, is applied last.
RECURSIVE Grouped(_, _)
Grouped(operands, ops) ==
    IF ops = <<>> THEN operands[1]
    ELSE LET split == CHOOSE i \in DOMAIN ops :
                        \A j \in DOMAIN ops :
                            \/ Strength[ops[i]] < Strength[ops[j]]
                            \/ Strength[ops[i]] = Strength[ops[j]] /\ j <= i
         IN  BinaryNode(ops[split],
                 Grouped(SubSeq(operands, 1, split), SubSeq(ops, 1, split - 1)),
                 Grouped(SubSeq(operands, split + 1, Len(operands)),
                         SubSeq(ops, split + 1, Len(ops))))

RECURSIVE ChainText(_, _)
ChainText(texts, ops) ==
    IF ops = <<>> THEN texts[1]
    ELSE texts[1] \o Sym(ops[1]) \o ChainText(Tail(texts), Tail(ops))

\* An operand that ends with a call, one that begins with a prefix operator.
ChainOperands == <<CallNode(x, <<one>>), UnaryNode("Minus", MemberNode(y, "f")), x, one>>
ChainTexts == <<PrintNode(ChainOperands[1], 0), Sym("Minus") \o PrintNode(ChainOperands[2].operand, 0),
                Name("x"), <<Lexeme("Integer", "one", 1)>> >>

Chain(ops) ==
    LET n == Len(ops) + 1
        tree == Grouped(SubSeq(ChainOperands, 1, n), ops)
    IN  [kind |-> "chain", ast |-> Ast(<<>>, <<>>, <<tree>>),
         source |-> ChainText(SubSeq(ChainTexts, 1, n), ops)]

Chains == {Chain(<<a, b>>) : a \in AllBinary, b \in AllBinary}
          \cup {Chain(<<a, b, c>>) : a \in OnePerLevel, b \in OnePerLevel, c \in OnePerLevel}

(***************************************************************************)
(* Two lines.  A line that ends with true or false is left out: no         *)
(* terminator follows those two.                                           *)
(***************************************************************************)
FirstLines == {x, one, CallNode(x, <<>>), IndexNode(x, <<one>>), ReturnNode(<<>>),
               BreakNode(<<>>), ContinueNode, DeclNode("x", IntArray, FALSE),
               AssignNode(x, ArrayLiteralNode(<<one>>)),
               AssignNode(x, LiteralNode("Character", "c")),
               AssignNode(x, LiteralNode("String", "s")), WhileNode(x, <<y>>)}
SecondLines == {x, CallNode(BinaryNode("Plus", x, one), <<>>), UnaryNode("Minus", y),
                ArrayLiteralNode(<<x>>), AssignNode(x, one), IfNode(x, <<one>>, <<>>),
                VariableNode(<<>>, "elsewhere")}
\* What a second line looks like when its outer parentheses are not printed.
\* A name that begins with else has its nine characters: the lookahead for
\* else stops it, as long as fewer than four blanks precede it.
LineText(n) ==
    CASE n.k = "unary" -> Sym(n.op) \o PrintNode(n.operand, 0)
      [] n = VariableNode(<<>>, "elsewhere") -> <<Lexeme("Identifier", "elsewhere", 9)>>
      [] OTHER -> PrintNode(n, 0)
Separators == {<<NewLine>>, <<Comment, NewLine>>, <<NewLine, NewLine>>,
               <<Blanks(2), NewLine, Blanks(2)>>}

TwoLines ==
    {[kind |-> "lines", ast |-> Ast(<<>>, <<>>, <<a, b>>),
      source |-> PrintNode(a, 0) \o sep \o LineText(b)] :
        a \in FirstLines, b \in SecondLines, sep \in Separators}

Joined ==   \* x \ <line end> - y
    {[kind |-> "lines", ast |-> Ast(<<>>, <<>>, <<BinaryNode("Minus", x, y)>>),
      source |-> Name("x") \o Sym("Back_Slash") \o sep \o Sym("Minus") \o Name("y")] :
        sep \in {<<NewLine>>, <<Blanks(1), NewLine, Blanks(5)>>}}

(***************************************************************************)
(* Token soup, for the properties that hold of any text.                   *)
(***************************************************************************)
Soup == {"Identifier", "Integer", "Open_Paren", "Close_Paren", "Open_Curly", "Close_Curly",
         "Open_Square", "Colon", "Equals", "Comma", "K_if", "K_else", "K_fn", "K_type",
         "K_import", "K_return", "K_while", "K_extend", "Minus", "Op_Index_Get", "Stray",
         "Newline", "StmtTerminator"}
Soups == {[kind |-> "soup", ast |-> Ast(<<>>, <<>>, <<>>),
           source |-> <<Word(a), Word(b), Word(c)>>] : a \in Soup, b \in Soup, c \in Soup}

MCInputs == Printed \cup Chains \cup TwoLines \cup Joined \cup Soups

(***************************************************************************)
(* A braced if, a line end, some blanks, and its else.                     *)
(***************************************************************************)
ElseText(blanks) ==
    Sym("K_if") \o Name("x") \o PrintBody(<<one>>, 0) \o <<NewLine>>
      \o (IF blanks = 0 THEN <<>> ELSE <<Blanks(blanks)>>)
      \o Else \o PrintBody(<<y>>, 0)
MCElse ==
    {[kind |-> "else", ast |-> Ast(<<>>, <<>>, <<IfNode(x, <<one>>, <<y>>)>>),
      source |-> ElseText(blanks)] : blanks \in 0..60}
=============================================================================
