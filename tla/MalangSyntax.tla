---------------------------- MODULE MalangSyntax ----------------------------
(***************************************************************************)
(* The syntax tree (src/src/ast): what the parser builds, the printer      *)
(* shows and the compiler translates.  A node is a record whose field k    *)
(* names its class; source locations, destructors and visitors are left    *)
(* out.  Names are strings, of which a declaration only asks how they are  *)
(* spelt: NoLowercase and StartsWithUnderscore say so.                     *)
(***************************************************************************)
EXTENDS Integers, Sequences

CONSTANTS NoLowercase,          \* the names without a lower-case letter
          StartsWithUnderscore  \* the names that begin with an underscore

ASSUME SpellingAssumption ==
    /\ NoLowercase \subseteq STRING
    /\ StartsWithUnderscore \subseteq STRING

\* nullptr where a node or a type is expected.
Nil == [k |-> "nil"]

(***************************************************************************)
(* Types, as the type map interns them: equal names, one Type_Info.        *)
(***************************************************************************)
TypeName(path)       == [k |-> "type", path |-> path]  \* qualifiers and name
ArrayType(of)        == [k |-> "arrayType", of |-> of]
FnType(params, ret)  == [k |-> "fnType", params |-> params, ret |-> ret]
IntT == TypeName(<<"int">>)
CharT == TypeName(<<"char">>)
DoubleT == TypeName(<<"double">>)
BoolT == TypeName(<<"bool">>)
StringT == TypeName(<<"string">>)
VoidT == TypeName(<<"void">>)

(***************************************************************************)
(* Values.                                                                 *)
(***************************************************************************)
LiteralNode(id, text) == [k |-> id, text |-> text]
VariableNode(quals, name) == [k |-> "variable", quals |-> quals, name |-> name]
BinaryNode(op, lhs, rhs) == [k |-> "binary", op |-> op, lhs |-> lhs, rhs |-> rhs]
UnaryNode(op, operand) == [k |-> "unary", op |-> op, operand |-> operand]
CallNode(callee, args) == [k |-> "call", callee |-> callee, args |-> args]
IndexNode(thing, subscript) ==
    [k |-> "index", thing |-> thing, subscript |-> subscript]
MemberNode(thing, member) == [k |-> "member", thing |-> thing, member |-> member]
ArrayLiteralNode(values) == [k |-> "arrayLiteral", values |-> values]
NewArrayNode(ofType, size) == [k |-> "newArray", of |-> ofType, size |-> size]
IfNode(cond, conseq, altern) ==
    [k |-> "if", cond |-> cond, conseq |-> conseq, altern |-> altern]
FnNode(name, params, ret, body) ==      \* name is "" for an unbound function
    [k |-> "fn", name |-> name, params |-> params, ret |-> ret, body |-> body]

(***************************************************************************)
(* Statements and definitions.                                             *)
(***************************************************************************)
AssignNode(lhs, rhs) == [k |-> "assign", lhs |-> lhs, rhs |-> rhs]

\* A name in capitals is constant; a name with a leading underscore is
\* private when it is declared while a type is being defined or extended.
DeclNode(name, type, extending) ==
    [k |-> "decl", name |-> name, type |-> type,
     readonly |-> name \in NoLowercase,
     private |-> extending /\ name \in StartsWithUnderscore]

DeclAssignNode(decl, value) == [k |-> "declAssign", decl |-> decl, value |-> value]
ReturnNode(values) == [k |-> "return", values |-> values]
BreakNode(values) == [k |-> "break", values |-> values]
ContinueNode == [k |-> "continue"]
WhileNode(cond, body) == [k |-> "while", cond |-> cond, body |-> body]
ForNode(it, iterable, body) ==
    [k |-> "for", it |-> it, iterable |-> iterable, body |-> body]
ConstructorNode(params, body) == [k |-> "ctor", params |-> params, body |-> body]
TypeDefNode(type, fields, ctors, methods) ==
    [k |-> "typedef", type |-> type, fields |-> fields,
     ctors |-> ctors, methods |-> methods]
TypeAliasNode(alias, to) == [k |-> "alias", alias |-> alias, to |-> to]
ExtendNode(type, body) == [k |-> "extend", type |-> type, body |-> body]
ImportNode(name) == [k |-> "import", name |-> name]

OperatorMethods ==  \* what a method of a type may be called besides a name
    {"Plus", "Minus", "Star", "Slash", "Equals_Equals", "Not_Equals", "Less",
     "Less_Equals", "Greater", "Greater_Equals", "Mod", "L_Shift", "R_Shift",
     "Bit_And", "Bit_Xor", "Bit_Or", "Invert", "Not", "Plus_At", "Minus_At",
     "Op_Index_Get", "Op_Index_Set"}

\* Ast_Value and its subclass Ast_LValue, what can stand left of "=".
LValueKinds == {"variable", "index", "member", "newArray", "decl"}
CanLValue(n) == n.k \in LValueKinds
IsValue(n) == n.k \in LValueKinds \cup
    {"Integer", "Real", "String", "Character", "K_true", "K_false", "binary",
     "unary", "call", "arrayLiteral", "if", "fn"}

(***************************************************************************)
(* The operators of int, char and double: which type a method of the       *)
(* builtin types returns, Nil where there is none.                         *)
(***************************************************************************)
Comparisons == {"Less", "Greater", "Less_Equals", "Greater_Equals",
                "Equals_Equals", "Not_Equals"}
BitOperators == {"Bit_And", "Bit_Or", "Bit_Xor", "L_Shift", "R_Shift"}
Arithmetic == {"Plus", "Minus", "Star", "Slash", "Mod"}

NumberMethod(op, recv, arg) ==
    IF op \in Comparisons THEN BoolT
    ELSE IF DoubleT \in {recv, arg}
         THEN IF op \in Arithmetic THEN DoubleT ELSE Nil
         ELSE IF op \in Arithmetic \cup BitOperators
              THEN IF IntT \in {recv, arg} THEN IntT ELSE CharT
              ELSE Nil

BinaryMethod(op, recv, arg) ==
    CASE {recv, arg} \subseteq {IntT, CharT} -> NumberMethod(op, recv, arg)
      [] <<recv, arg>> \in {<<IntT, DoubleT>>, <<DoubleT, IntT>>, <<DoubleT, DoubleT>>}
           -> NumberMethod(op, recv, arg)
      [] op = "Plus" /\ recv = StringT /\ arg = StringT -> StringT
      [] OTHER -> Nil

UnaryMethod(op, recv) ==
    CASE recv \in {IntT, CharT} /\ op \in {"Invert", "Plus", "Minus"} -> recv
      [] recv = DoubleT /\ op \in {"Plus", "Minus"} -> recv
      [] OTHER -> Nil

(***************************************************************************)
(* get_type, asked while a declaration without a type is parsed: the type  *)
(* if the value alone settles it, else Nil.  Abort stands for the          *)
(* process's abort().                                                      *)
(***************************************************************************)
Abort == [k |-> "abort"]

\* Only a type and its aliases are assignable; no alias occurs here.
Assignable(from, to) == from = to

\* The legs of an if used as a value.  With both types unknown the code calls
\* a method of the null type, which in every build returns the null type.
IfType(conseq, altern, conType, altType) ==
    LET valued(leg) == IsValue(leg[Len(leg)])
    IN  IF conseq = <<>> \/ altern = <<>> THEN VoidT
        ELSE IF ~valued(conseq) /\ ~valued(altern) THEN VoidT
        ELSE IF ~valued(conseq) \/ ~valued(altern) THEN Abort
        ELSE IF (altType = Nil) # (conType = Nil) THEN Abort
        ELSE IF Assignable(altType, conType) THEN conType ELSE Abort

RECURSIVE TypeOf(_)
TypeOf(n) ==
    CASE n.k = "Integer" -> IntT
      [] n.k = "Real" -> DoubleT
      [] n.k = "Character" -> CharT
      [] n.k = "String" -> StringT
      [] n.k \in {"K_true", "K_false"} -> BoolT
      [] n.k = "fn" -> FnType([i \in DOMAIN n.params |-> n.params[i].type], n.ret)
      [] n.k = "newArray" -> ArrayType(n.of)
      [] n.k = "decl" -> n.type
      [] n.k = "binary" /\ n.op \notin {"Log_Or", "Log_And"} ->
           LET l == TypeOf(n.lhs)
               r == TypeOf(n.rhs)
           IN  IF Nil \in {l, r} THEN Nil ELSE BinaryMethod(n.op, l, r)
      [] n.k = "member" -> \* of the types that are there from the beginning
           LET t == TypeOf(n.thing)
           IN  IF n.member = "length" /\ (t = StringT \/ t.k = "arrayType")
               THEN IntT ELSE Nil
      [] n.k = "unary" -> UnaryMethod(n.op, TypeOf(n.operand))
      [] n.k = "call" ->
           LET f == TypeOf(n.callee) IN IF f.k = "fnType" THEN f.ret ELSE Nil
      [] n.k = "if" ->
           \* Both types are read from the alternative: the consequence's is
           \* never looked at.
           LET alt == IF n.altern = <<>> THEN Nil ELSE TypeOf(n.altern[Len(n.altern)])
           IN  IfType(n.conseq, n.altern, alt, alt)
      [] OTHER -> Nil
=============================================================================
