----------------------------- MODULE MCcompile -----------------------------
(***************************************************************************)
(* Programs for Compile.                                                   *)
(***************************************************************************)
EXTENDS Compile

MCNoLowercase == {"PI"}
MCStartsWithUnderscore == {"_p"}

I(n) == LiteralNode("Integer", n)
S(s) == LiteralNode("String", s)
T == LiteralNode("K_true", "true")
F == LiteralNode("K_false", "false")
V(name) == VariableNode(<<>>, name)
D(name, type) == DeclNode(name, type, FALSE)
Let(name, e) == DeclAssignNode(D(name, Nil), e)
Set(name, e) == AssignNode(V(name), e)
Do(name, args) == CallNode(V(name), args)
Pr(e) == Do("println", <<e>>)
On(thing, method, args) == CallNode(MemberNode(thing, method), args)
Get(thing, i) == IndexNode(thing, <<i>>)
Bin(a, op, b) == BinaryNode(op, a, b)
Add(a, b) == Bin(a, "Plus", b)
Lt(a, b) == Bin(a, "Less", b)
Eq(a, b) == Bin(a, "Equals_Equals", b)
Or(a, b) == Bin(a, "Log_Or", b)
And(a, b) == Bin(a, "Log_And", b)
Ret(e) == ReturnNode(<<e>>)
Brk == BreakNode(<<>>)
Inc(name) == Set(name, Add(V(name), I(1)))
When(c, then) == IfNode(c, then, <<>>)
Fn(name, params, ret, body) == FnNode(name, params, ret, body)
Ast(first, second) == [imports |-> <<>>, first |-> first, second |-> second]

NoTypes == [t \in {} |-> Nil]
Good(first, second) == [ast |-> Ast(first, second), declared |-> NoTypes, ill |-> FALSE]
Ill(second) == [ast |-> Ast(<<>>, second), declared |-> NoTypes, ill |-> TRUE]
Typed(types, p) == [p EXCEPT !.declared = [t \in types |-> Nil]]

(***************************************************************************)
(* Operators.                                                              *)
(***************************************************************************)
BinaryOps == <<"Plus", "Minus", "Star", "Slash", "Mod", "Bit_And", "Bit_Or", "Bit_Xor",
               "L_Shift", "R_Shift", "Equals_Equals", "Not_Equals", "Less", "Less_Equals",
               "Greater", "Greater_Equals">>
Operators ==
    Good(<<>>, <<Let("a", I(13)), Let("b", I(3)), Let("big", I(200)), Let("huge", I(40000))>>
               \o [i \in DOMAIN BinaryOps |-> Pr(Bin(V("a"), BinaryOps[i], V("b")))]
               \o <<Pr(UnaryNode("Minus", Bin(V("big"), "Star", V("a")))),
                    Pr(UnaryNode("Invert", V("huge"))), Pr(UnaryNode("Plus", V("a"))),
                    Pr(Bin(Bin(V("a"), "Minus", I(6)), "Minus", I(5))),
                    Let("s", Add(S("x"), S("y"))), Pr(Add(V("s"), S("z"))), Pr(T), Pr(F)>>)

(***************************************************************************)
(* Conditions.  say(n, v) prints n and returns v: which operands are       *)
(* evaluated is part of the output.                                        *)
(***************************************************************************)
Say == Fn("say", <<D("n", IntT), D("v", BoolT)>>, BoolT, <<Pr(V("n")), Ret(V("v"))>>)
Operand(n, b) == Do("say", <<I(n), IF b THEN T ELSE F>>)

Forms == {"and", "or", "andand", "oror", "orand", "andor", "or_and"}
Condition(form, a, b, d) ==
    CASE form = "and" -> And(a, b)
      [] form = "or" -> Or(a, b)
      [] form = "andand" -> And(And(a, b), d)
      [] form = "oror" -> Or(Or(a, b), d)
      [] form = "orand" -> Or(a, And(b, d))
      [] form = "andor" -> And(a, Or(b, d))
      [] form = "or_and" -> And(Or(a, b), d)
      [] form = "and_or" -> Or(And(a, b), d)

Bits == [{1, 2, 3} -> BOOLEAN]
Mark(b) == IF b THEN "t" ELSE "f"
MarksOf(bits) == Mark(bits[1]) \o Mark(bits[2]) \o Mark(bits[3])

\* In an if with and without else, in a while, and as a value.
Condition_(form, bits) ==
    LET c == Condition(form, Operand(1, bits[1]), Operand(2, bits[2]), Operand(3, bits[3]))
    IN  Good(<<Say>>,
             <<IfNode(c, <<Pr(I(10))>>, <<Pr(I(20))>>), When(c, <<Pr(I(11))>>),
               WhileNode(c, <<Pr(I(12)), Brk>>), Pr(I(13)), Let("v", c), Pr(V("v")),
               Let("w", IfNode(V("v"), <<I(14)>>, <<I(15)>>)), Pr(V("w"))>>)

ShortCircuit(forms) ==
    [name \in {form \o MarksOf(bits) : form \in forms, bits \in Bits} |->
        LET chosen == CHOOSE x \in forms \X Bits : name = x[1] \o MarksOf(x[2])
        IN  Condition_(chosen[1], chosen[2])]

(***************************************************************************)
(* Branches and loops.                                                     *)
(***************************************************************************)
Ifs ==
    LET step(i) == IfNode(Eq(V("i"), I(0)), <<Let("i_", I(i)), Pr(Add(V("i_"), I(100)))>>,
                          <<IfNode(Eq(V("i"), I(1)), <<Pr(I(2))>>,
                                   <<When(Lt(V("i"), I(3)), <<Pr(I(3))>>)>>)>>)
    IN  Good(<<>>, <<Let("i", I(0)), step(7), Inc("i"), step(8), Inc("i"), step(9), Inc("i"),
                     step(9),
                     Let("m", IfNode(Lt(V("i"), I(2)), <<I(1)>>,
                                     <<Inc("i"), IfNode(Eq(V("i"), I(4)), <<V("i")>>, <<I(0)>>)>>)),
                     Pr(V("m")), IfNode(T, <<I(5)>>, <<I(6)>>), Pr(V("i"))>>)

Loops ==
    Good(<<>>,
         <<Let("i", I(0)), Let("n", I(0)),
           WhileNode(Lt(V("i"), I(4)),
                     <<Inc("i"), When(Eq(V("i"), I(2)), <<ContinueNode>>),
                       Let("j", I(0)),
                       WhileNode(T, <<Inc("j"), When(Lt(V("i"), V("j")), <<Brk>>),
                                      When(Eq(V("j"), I(2)), <<ContinueNode>>),
                                      Set("n", Add(V("n"), V("j")))>>),
                       Pr(V("j"))>>),
           WhileNode(F, <<Pr(I(99))>>), Pr(V("n")), Pr(V("i"))>>)

(***************************************************************************)
(* Functions.                                                              *)
(***************************************************************************)
X == D("x", IntT)
Fib == Fn("fib", <<D("n", IntT)>>, IntT,
          <<When(Lt(V("n"), I(2)), <<Ret(V("n"))>>),
            Let("a", Do("recurse", <<Bin(V("n"), "Minus", I(1))>>)),
            Let("b", Do("recurse", <<Bin(V("n"), "Minus", I(2))>>)),
            Ret(Add(V("a"), V("b")))>>)
IntToInt == FnType(<<IntT>>, IntT)

Functions_ ==
    Good(<<Fib, Fn("show", <<X>>, VoidT, <<Pr(V("x"))>>),
           Fn("show", <<D("x", BoolT)>>, VoidT, <<Pr(V("x")), ReturnNode(<<>>)>>),
           Fn("show", <<>>, VoidT, <<>>),
           Fn("twice", <<D("f", IntToInt), X>>, IntT,
              <<Ret(Do("f", <<Do("f", <<V("x")>>)>>))>>),
           Fn("five", <<>>, IntT, <<Ret(I(5))>>)>>,
         <<Pr(Do("fib", <<I(4)>>)), Do("show", <<I(3)>>), Do("show", <<T>>), Do("show", <<>>),
           Let("plus", Fn("", <<X>>, IntT, <<Ret(Add(V("x"), I(1)))>>)),
           Pr(Do("twice", <<V("plus"), I(7)>>)), Pr(Do("plus", <<I(1)>>)),
           Pr(CallNode(Fn("", <<X>>, IntT, <<Ret(Bin(V("x"), "Star", I(3)))>>), <<I(2)>>)),
           Do("fib", <<I(2)>>), Pr(Add(Do("five", <<>>), Do("fib", <<I(3)>>))),
           \* a return before the first variable is declared
           Let("soon", F),
           Let("early", Fn("", <<>>, IntT, <<When(V("soon"), <<Ret(I(1))>>),
                                             Let("q", I(2)), Ret(V("q"))>>)),
           Pr(Do("early", <<>>)), Set("soon", T), Pr(Do("early", <<>>))>>)

\* A function made in a function, globals set from within, a return out of
\* nested loops, and more variables than there are short instructions for.
Nested ==
    LET letter(i) == <<"a", "b", "c", "d", "e", "f", "g", "h", "i", "j", "k">>[i]
    IN  Good(<<>>,
             <<Let("count", I(0)),
               Let("outer", Fn("", <<X>>, IntT,
                   <<Let("inner", Fn("", <<D("y", IntT)>>, IntT,
                                     <<Inc("count"), Let("z", Add(V("y"), V("y"))),
                                       Ret(V("z"))>>)),
                     Let("k", I(0)),
                     WhileNode(T, <<WhileNode(T,
                         <<Let("next", Add(V("k"), I(1))), Set("k", V("next")),
                           When(Lt(V("x"), V("k")), <<Ret(Do("inner", <<V("k")>>))>>),
                           When(Eq(V("k"), I(1)), <<Brk>>)>>)>>),
                     Ret(I(0))>>)),
               Pr(Do("outer", <<I(2)>>)), Pr(V("count")),
               Let("many", Fn("", [i \in 1 .. 11 |-> D(letter(i), IntT)], IntT,
                              <<Set("k", Add(V("k"), V("a"))), Ret(V("k"))>>)),
               Pr(Do("many", [i \in 1 .. 11 |-> I(i)]))>>)

(***************************************************************************)
(* Types.                                                                  *)
(***************************************************************************)
P == TypeName(<<"P">>)
Point ==
    TypeDefNode(P, <<Let("x", I(1)), Let("_p", Add(V("x"), I(1))), Let("PI", I(3))>>,
        <<ConstructorNode(<<X>>, <<Set("_p", V("x")), AssignNode(MemberNode(V("self"), "x"), V("x"))>>),
          ConstructorNode(<<>>, <<>>)>>,
        <<Fn("sum", <<>>, IntT, <<Ret(Add(V("x"), Do("hidden", <<>>)))>>),
          Fn("hidden", <<>>, IntT, <<Ret(V("_p"))>>),
          Fn("move", <<D("by", IntT)>>, VoidT, <<Set("x", Add(V("x"), V("by")))>>),
          Fn("Plus", <<D("other", P)>>, P,
             <<Ret(Do("P", <<Add(V("x"), MemberNode(V("other"), "x"))>>))>>),
          Fn("Op_Index_Get", <<D("i", IntT)>>, IntT, <<Ret(Add(V("x"), V("i")))>>),
          Fn("Op_Index_Set", <<D("i", IntT), D("v", IntT)>>, VoidT,
             <<Set("x", Add(V("i"), V("v")))>>)>>)
Box == TypeDefNode(TypeName(<<"Box">>), <<Let("it", Do("P", <<I(4)>>))>>, <<>>, <<>>)

Objects ==
    Typed({P, TypeName(<<"Box">>)},
     Good(<<Point, Box>>,
          <<Let("a", Do("P", <<>>)), Let("b", Do("P", <<I(10)>>)),
            Pr(On(V("a"), "sum", <<>>)), Pr(On(V("b"), "sum", <<>>)),
            On(V("a"), "move", <<I(5)>>), Pr(MemberNode(V("a"), "x")),
            Pr(MemberNode(Add(V("a"), V("b")), "x")), Pr(Get(V("b"), I(2))),
            AssignNode(Get(V("b"), I(2)), I(30)), Pr(MemberNode(V("b"), "x")),
            AssignNode(MemberNode(V("a"), "x"), MemberNode(V("b"), "PI")),
            Pr(MemberNode(V("a"), "x")),
            Let("box", Do("Box", <<>>)), On(MemberNode(V("box"), "it"), "move", <<I(1)>>),
            Pr(On(MemberNode(V("box"), "it"), "sum", <<>>))>>))

Up == TypeName(<<"Up">>)
Iteration ==
    Typed({Up},
     Good(<<TypeDefNode(Up, <<Let("n", I(0))>>, <<>>,
                <<Fn("move_next", <<>>, BoolT,
                     <<Inc("n"), Ret(Lt(V("n"), I(5)))>>),
                  Fn("current", <<>>, IntT, <<Ret(V("n"))>>)>>),
            ExtendNode(IntT, <<Fn("double", <<>>, IntT, <<Ret(Add(V("self"), V("self")))>>)>>)>>,
          <<ForNode("it", Do("Up", <<>>),
                    <<When(Eq(V("it"), I(2)), <<ContinueNode>>),
                      When(Eq(V("it"), I(4)), <<Brk>>), Pr(V("it"))>>),
            Let("f", Fn("", <<>>, IntT,
                 <<ForNode("it", Do("Up", <<>>),
                           <<When(Eq(V("it"), I(3)), <<Ret(V("it"))>>)>>), Ret(I(0))>>)),
            Pr(Do("f", <<>>)), ForNode("e", ArrayLiteralNode(<<I(4), I(5)>>),
                 <<Pr(V("e")), Pr(V("e_index"))>>),
            Let("a", ArrayLiteralNode(<<I(7), I(8), I(9)>>)),
            AssignNode(Get(V("a"), I(1)), I(2)),
            ForNode("e", V("a"), <<When(Eq(V("e"), I(9)), <<Brk>>), Pr(V("e"))>>),
            Pr(MemberNode(V("a"), "length")),
            Let("n", NewArrayNode(IntT, I(2))), AssignNode(Get(V("n"), I(0)), I(6)),
            Pr(Get(V("n"), I(0))),
            Let("b", Do("buffer", <<I(2)>>)),
            AssignNode(Get(V("b"), I(1)), LiteralNode("Character", 65)),
            Pr(MemberNode(V("b"), "length"))>>))

Meter == TypeName(<<"Meter">>)
Aliased ==
    [Good(<<TypeAliasNode(Meter, IntT)>>,
          <<Let("far", Fn("", <<D("m", Meter)>>, BoolT,
                          <<Ret(Lt(I(5), UnaryNode("K_unalias", V("m"))))>>)),
            Let("lots", Fn("", <<D("m", Meter)>>, IntT,
                           <<Ret(Add(V("m"), I(1)))>>)),
            Pr(Do("lots", <<I(8)>>)),
            DeclAssignNode(D("d", Meter), I(9)), Pr(UnaryNode("K_unalias", V("d"))),
            Pr(Do("far", <<V("d")>>))>>)
     EXCEPT !.declared = [t \in {Meter} |-> IntT]]

OutOfBounds ==
    Good(<<>>, <<Let("a", ArrayLiteralNode(<<I(1)>>)), Pr(Get(V("a"), I(0))),
                 Let("i", I(1)), AssignNode(Get(V("a"), V("i")), I(2)), Pr(I(3))>>)
BufferBounds ==
    Good(<<>>, <<Let("b", Do("buffer", <<I(1)>>)), Pr(Add(I(2), I(2))), Let("c", Get(V("b"), I(1))), Pr(I(3))>>)

(***************************************************************************)
(* Programs the language forbids.  Each would print if it ran.             *)
(***************************************************************************)
Typo == Fn("f", <<X>>, IntT, <<Ret(V("x"))>>)
Hidden == TypeDefNode(P, <<Let("_p", I(1)), Let("PI", I(3))>>, <<>>, <<>>)
WithP(second) == Typed({P}, [Good(<<Hidden>>, <<Pr(I(1)), Let("a", Do("P", <<>>))>> \o second)
                             EXCEPT !.ill = TRUE])
WithF(second) == [Good(<<Typo>>, <<Pr(I(1))>> \o second) EXCEPT !.ill = TRUE]
After1(second) == Ill(<<Pr(I(1))>> \o second)

Forbidden ==
    [wrongType |-> After1(<<Let("a", I(1)), Set("a", T)>>),
     wrongDeclared |-> After1(<<DeclAssignNode(D("a", BoolT), I(1))>>),
     constant |-> After1(<<Let("PI", I(3)), Set("PI", I(4))>>),
     undeclared |-> After1(<<Pr(V("a"))>>),
     tooFar |-> After1(<<When(T, <<Let("a", I(1))>>), Pr(V("a"))>>),
     twice |-> After1(<<Let("a", I(1)), Let("a", I(2))>>),
     unset |-> After1(<<D("a", IntT), Pr(V("a"))>>),
     notBool |-> After1(<<When(I(1), <<Pr(I(2))>>)>>),
     notBoolLoop |-> After1(<<WhileNode(I(0), <<Pr(I(2))>>)>>),
     notBoolWord |-> After1(<<Let("a", And(T, I(1)))>>),
     notFunction |-> After1(<<Let("a", I(1)), Do("a", <<>>)>>),
     mixed |-> After1(<<ArrayLiteralNode(<<I(1), T>>)>>),
     noOperator |-> After1(<<Pr(Add(I(1), T))>>),
     indexInt |-> After1(<<Let("a", I(1)), Pr(Get(V("a"), I(0)))>>),
     arraySize |-> After1(<<Let("a", NewArrayNode(IntT, T))>>),
     returnOutside |-> After1(<<ReturnNode(<<>>)>>),
     breakValue |-> After1(<<WhileNode(T, <<BreakNode(<<I(1)>>)>>)>>),
     noReturn |-> After1(<<Let("a", Fn("", <<>>, IntT, <<Pr(I(2))>>))>>),
     wrongReturn |-> After1(<<Let("a", Fn("", <<>>, IntT, <<Ret(T)>>))>>),
     emptyReturn |-> After1(<<Let("a", Fn("", <<>>, IntT, <<ReturnNode(<<>>)>>))>>),
     argument |-> WithF(<<Do("f", <<T>>)>>),
     arity |-> WithF(<<Do("f", <<I(1), I(2)>>)>>),
     sameFunction |-> [Good(<<Typo, Typo>>, <<Pr(I(1))>>) EXCEPT !.ill = TRUE],
     private |-> WithP(<<Pr(MemberNode(V("a"), "_p"))>>),
     noField |-> WithP(<<Pr(MemberNode(V("a"), "x"))>>),
     constantField |-> WithP(<<AssignNode(MemberNode(V("a"), "PI"), I(4))>>),
     noConstructor |-> WithP(<<Do("P", <<I(1)>>)>>),
     noIteration |-> WithP(<<ForNode("it", V("a"), <<>>)>>),
     narrower |-> [Good(<<TypeAliasNode(Meter, IntT)>>,
                        <<Pr(I(1)), DeclAssignNode(D("m", Meter), I(1)), Let("i", I(2)),
                          Set("i", V("m"))>>)
                   EXCEPT !.declared = [t \in {Meter} |-> IntT], !.ill = TRUE]]

MCPrograms ==
    ShortCircuit(Forms) @@ Forbidden
    @@ [operators |-> Operators, ifs |-> Ifs, loops |-> Loops, functions |-> Functions_,
        nested |-> Nested, objects |-> Objects, iteration |-> Iteration, aliased |-> Aliased,
        bounds |-> OutOfBounds, bufferBounds |-> BufferBounds]

\* a and b or d: MCcompileWords.cfg
MCWords == ShortCircuit({"and_or"})
=============================================================================
