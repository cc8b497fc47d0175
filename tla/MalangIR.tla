------------------------------ MODULE MalangIR ------------------------------
(***************************************************************************)
(* Ast_To_IR (src/src/ir/ast_to_ir.cpp): the translation of a syntax tree  *)
(* into the intermediate tree.  Conv(n, c) is visit(n) in the state c of   *)
(* the translator; it gives the state afterwards and the IR node.  Nil is  *)
(* nullptr, and a state that is dead stands for the process's abort().     *)
(* A label is a number; a symbol, an index into c.syms, because codegen    *)
(* asks later whether anything has initialised it.                         *)
(***************************************************************************)
EXTENDS MalangTypes

NativeFnType(params, ret) ==
    [k |-> "fnType", params |-> params, ret |-> ret, native |-> TRUE]

\* println of builtins.cpp, bound once for each type it prints.
Println(t) == [name |-> "println", params |-> <<t>>, label |-> 0,
               type |-> NativeFnType(<<t>>, VoidT)]

Translator(declared) ==
    [dead |-> FALSE, next |-> 1, first |-> <<>>, syms |-> <<>>, strings |-> <<>>,
     tt |-> InitialTypes(declared), leave |-> {},
     scopes |-> <<[names |-> <<>>, fns |-> {Println(t) : t \in {IntT, CharT, BoolT, DoubleT, StringT}},
                   frame |-> FALSE, index |-> 0]>>,
     scope |-> "Global",    \* cur_symbol_scope
     locals |-> 0,          \* cur_locals_count
     fn |-> Nil, ep |-> 0,  \* cur_fn, cur_fn_ep
     ext |-> Nil,           \* is_extending
     args |-> <<>>,         \* cur_call_arg_types: at most one element
     rets |-> {},           \* all_returns_this_fn
     trueL |-> 0, falseL |-> 0, breakL |-> 0, contL |-> 0]

Ok(c, ir) == [c |-> c, ir |-> ir]
Dead(c) == [c |-> [c EXCEPT !.dead = TRUE], ir |-> Nil]
Check(ok, r) == IF ok THEN r ELSE Dead(r.c)

Labels(c, n) == [c EXCEPT !.next = @ + n]

(***************************************************************************)
(* Scopes.  Every scope can see its parent, also that of a function:       *)
(* hide_parent is never called, and would not hide.                        *)
(***************************************************************************)
PushScope(c, frame) ==
    [c EXCEPT !.scopes = Append(@, [names |-> <<>>, fns |-> {}, frame |-> frame,
                                    index |-> IF frame THEN 0 ELSE Last(@).index])]

PopScope(c) ==
    LET top == Last(c.scopes)
        rest == Front(c.scopes)
    IN  [c EXCEPT !.scopes =
            IF top.frame THEN rest
            ELSE [rest EXCEPT ![Len(rest)].index = top.index]]

FindSymbol(c, name) ==      \* 0 when there is none
    LET found == {i \in DOMAIN c.scopes : name \in DOMAIN c.scopes[i].names}
    IN  IF found = {} THEN 0 ELSE c.scopes[Max(found)].names[name]

FindBound(c, name, params) ==
    LET same(f) == f.name = name /\ f.params = params
        found == {i \in DOMAIN c.scopes : \E f \in c.scopes[i].fns : same(f)}
    IN  IF found = {} THEN Nil ELSE CHOOSE f \in c.scopes[Max(found)].fns : same(f)

MakeSymbol(c, name, type, readonly) ==
    LET top == Len(c.scopes)
        id == Len(c.syms) + 1
    IN  [c EXCEPT !.syms = Append(@, [name |-> name, type |-> type, readonly |-> readonly,
                                      scope |-> c.scope, index |-> c.scopes[top].index,
                                      init |-> FALSE]),
                  !.scopes[top].index = @ + 1,
                  !.scopes[top].names = (name :> id) @@ @]

Initialise(c, id) == [c EXCEPT !.syms[id].init = TRUE]
Symbol(id) == [k |-> "symbol", id |-> id]

(***************************************************************************)
(* The IR nodes that are values, and their types.  Nil for a type stands   *)
(* for get_type's abort.                                                   *)
(***************************************************************************)
IRValues == {"fixnum", "bool", "double", "string", "callable", "symbol", "bin", "un",
             "block", "call", "callMethod", "index", "member", "alloc", "newArray"}
IsIRValue(ir) == ir.k \in IRValues

Block(nodes, type) == [k |-> "block", nodes |-> nodes, type |-> type]
Callable(label, type, bound) ==
    [k |-> "callable", label |-> label, type |-> type, bound |-> bound]
CallMethod(thing, m, args) ==
    [k |-> "callMethod", thing |-> thing, method |-> m, args |-> args]
IRBranch(kind, to) == [k |-> "branch", kind |-> kind, to |-> to]
Label(l) == [k |-> "label", label |-> l]
NamedBlock(l, end, body) == [k |-> "named", label |-> l, end |-> end, body |-> body]
Assignment(lhs, rhs) == [k |-> "assign", lhs |-> lhs, rhs |-> rhs]
Fixnum(type, v) == [k |-> "fixnum", type |-> type, v |-> v]
Discard == [k |-> "discard"]
AssignTop(id) == [k |-> "assignTop", id |-> id]     \* 0: the first local
AllocateLocals(n) == [k |-> "locals", n |-> n]
IRReturn(id, values) == [k |-> "return", id |-> id, values |-> values]

RECURSIVE IRType(_, _)
IRType(ir, c) ==
    LET ret(m) == IF m = Nil THEN Nil ELSE m.ret
    IN  CASE ir.k \in {"fixnum", "callable", "block", "index", "newArray"} -> ir.type
          [] ir.k = "bool" -> BoolT
          [] ir.k = "double" -> DoubleT
          [] ir.k = "string" -> StringT
          [] ir.k = "symbol" -> c.syms[ir.id].type
          [] ir.k = "bin" -> ret(FindMethod(c.tt, IRType(ir.lhs, c), ir.op,
                                            <<IRType(ir.rhs, c)>>))
          [] ir.k = "un" -> ret(FindMethod(c.tt, IRType(ir.operand, c),
                                           UnaryName(ir.op), <<>>))
          [] ir.k = "call" -> IRType(ir.callee, c).ret
          [] ir.k = "callMethod" -> ir.method.ret
          [] ir.k = "alloc" -> ir.for
          [] ir.k = "member" -> FieldType(c.tt, IRType(ir.thing, c), ir.name)
          [] OTHER -> Nil

RECURSIVE Conv(_, _)

\* One after the other; the nodes that become nothing leave Nil.
ConvAll(nodes, c) ==
    FoldLeft(LAMBDA acc, n : LET r == Conv(n, acc.c)
                             IN  [c |-> r.c, irs |-> Append(acc.irs, r.ir)],
             [c |-> c, irs |-> <<>>], nodes)

TypesOf(a) == [i \in DOMAIN a.irs |-> IRType(a.irs[i], a.c)]

\* convert_body: the value of an expression statement is dropped, except that
\* of the last statement when the body's value is wanted.
AddStatementDrops(acc, r, wanted) ==    \* a seeded bug: drops what void calls leave, too
    LET type == IF IsIRValue(r.ir) /\ ~wanted THEN IRType(r.ir, r.c) ELSE VoidT
    IN  [c |-> IF type = Nil THEN Dead(r.c).c ELSE r.c,
         irs |-> acc.irs \o (IF r.ir = Nil THEN <<>> ELSE <<r.ir>>)
                         \o (IF IsIRValue(r.ir) /\ ~wanted THEN <<Discard>> ELSE <<>>),
         last |-> r.ir]

AddStatement(acc, r, wanted) ==
    LET type == IF IsIRValue(r.ir) /\ ~wanted THEN IRType(r.ir, r.c) ELSE VoidT
    IN  [c |-> IF type = Nil THEN Dead(r.c).c ELSE r.c,
         irs |-> acc.irs \o (IF r.ir = Nil THEN <<>> ELSE <<r.ir>>)
                         \o (IF type = VoidT THEN <<>> ELSE <<Discard>>),
         last |-> r.ir]

ConvBody(nodes, c, collecting) ==
    FoldLeftDomain(
        LAMBDA acc, i : AddStatement(acc, Conv(nodes[i], acc.c),
                                     collecting /\ i = Len(nodes)),
        [c |-> c, irs |-> <<>>, last |-> Nil], nodes)

(***************************************************************************)
(* Names and literals.                                                     *)
(***************************************************************************)
ConvLiteral(n, c) ==
    CASE n.k = "Integer" -> Ok(c, Fixnum(IntT, n.text))
      [] n.k = "Character" -> Ok(c, Fixnum(CharT, n.text))
      [] n.k = "Real" -> Ok(c, [k |-> "double", v |-> n.text])
      [] n.k = "K_true" -> Ok(c, [k |-> "bool", v |-> 1])
      [] n.k = "K_false" -> Ok(c, [k |-> "bool", v |-> 0])
      [] n.k = "String" -> Ok([c EXCEPT !.strings = Append(@, n.text)],
                              [k |-> "string", index |-> Len(c.strings)])

\* As a callee a name is, in this order, the function around it, a method of
\* the type being extended, a bound function, a constructor, a variable.
ConvVariable(n, c) ==
    LET called == c.args # <<>>
        method == IF called /\ c.ext # Nil THEN FindMethod(c.tt, c.ext, n.name, c.args[1])
                  ELSE Nil
        bound == IF called THEN FindBound(c, n.name, c.args[1]) ELSE Nil
        type == TypeName(<<n.name>>)
        symbol == FindSymbol(c, n.name)
    IN  IF n.quals # <<>> THEN Dead(c)      \* no module is loaded here
        ELSE IF c.fn # Nil /\ n.name = "recurse"
             THEN Ok(c, Callable(c.ep, TypeOf(c.fn), FALSE))
        ELSE IF method # Nil THEN Ok(c, CallMethod(Nil, method, <<>>))
        ELSE IF bound # Nil THEN Ok(c, Callable(bound.label, bound.type, FALSE))
        ELSE IF called /\ type \in DOMAIN c.tt
             THEN Ok(c, [k |-> "alloc", for |-> type, args |-> <<>>, ctor |-> Nil])
        ELSE IF symbol # 0 THEN Ok(c, Symbol(symbol))
        ELSE Dead(c)

ConvMember(n, c) ==
    LET r == Conv(n.thing, c)
        type == IRType(r.ir, r.c)
        private == n.member \in StartsWithUnderscore
    IN  Check(type # Nil /\ (private => r.c.ext = AliasedToTop(r.c.tt, type)),
              Ok(r.c, [k |-> "member", thing |-> r.ir, name |-> n.member]))

ConvIndex(n, c) ==
    LET r == Conv(n.thing, c)
        type == IRType(r.ir, r.c)
        a == ConvAll(n.subscript, r.c)
        get == FindMethod(a.c.tt, type, "Op_Index_Get", TypesOf(a))
        node(t) == [k |-> "index", thing |-> r.ir, type |-> t, args |-> a.irs]
    IN  IF type = BufferT THEN Check(Len(n.subscript) = 1, Ok(a.c, node(CharT)))
        ELSE IF type.k = "arrayType" THEN Check(Len(n.subscript) = 1, Ok(a.c, node(type.of)))
        ELSE Check(get # Nil, Ok(a.c, IF get = Nil THEN Nil ELSE node(get.ret)))

(***************************************************************************)
(* Operators.                                                              *)
(***************************************************************************)
ConvUnary(n, c) ==
    LET r == Conv(n.operand, c)
    IN  Check(IsIRValue(r.ir), Ok(r.c, [k |-> "un", op |-> n.op, operand |-> r.ir]))

ConvUnalias(n, c) ==
    LET r == Conv(n.operand, c)
        type == IRType(r.ir, r.c)
        top == AliasedToTop(r.c.tt, type)
    IN  Check(type # Nil, IF type = top THEN r ELSE Ok(r.c, Block(<<r.ir>>, top)))

ConvBinary(n, c) ==
    LET l == Conv(n.lhs, c)
        r == Conv(n.rhs, l.c)
    IN  Check(IsIRValue(l.ir) /\ IsIRValue(r.ir),
              Ok(r.c, [k |-> "bin", op |-> n.op, lhs |-> l.ir, rhs |-> r.ir]))

BothBool(l, r) == IRType(l.ir, l.c) = BoolT /\ IRType(r.ir, r.c) = BoolT

ConvLogicalOrFalls(n, c) ==     \* a seeded bug: the labels that were meant for `and'
    LET l == Conv(n.lhs, c)
        r == Conv(n.rhs, l.c)
        end == r.c.next
    IN  IF c.falseL # 0
        THEN Ok(r.c, Block(<<l.ir, IRBranch("Pop_Branch_If_True", c.falseL), r.ir>>, BoolT))
        ELSE Ok(Labels(r.c, 1),
                Block(<<l.ir, IRBranch("Branch_If_True_Or_Pop", end), r.ir, Label(end)>>, BoolT))

\* Inside a condition (there is a true label) the left operand jumps there.
ConvLogicalOr(n, c) ==
    LET l == Conv(n.lhs, c)
        r == Conv(n.rhs, l.c)
        end == r.c.next
    IN  Check(BothBool(l, r),
              IF c.trueL # 0
              THEN Ok(r.c, Block(<<l.ir, IRBranch("Pop_Branch_If_True", c.trueL), r.ir>>, BoolT))
              ELSE Ok(Labels(r.c, 1),
                      Block(<<l.ir, IRBranch("Branch_If_True_Or_Pop", end), r.ir, Label(end)>>,
                            BoolT)))

\* Inside a condition (there is a false label) the left operand jumps there,
\* whatever stands around the conjunction.
ConvLogicalAnd(n, c) ==
    LET true == c.next
        l == Conv(n.lhs, [Labels(c, 1) EXCEPT !.trueL = true])
        r == Conv(n.rhs, [l.c EXCEPT !.trueL = c.trueL])
        end == r.c.next
    IN  Check(BothBool(l, r),
              IF c.falseL # 0
              THEN Ok(r.c, Block(<<l.ir, IRBranch("Pop_Branch_If_False", c.falseL),
                                   Label(true), r.ir>>, BoolT))
              ELSE Ok(Labels(r.c, 1),
                      Block(<<l.ir, IRBranch("Branch_If_False_Or_Pop", end), Label(true),
                              r.ir, Label(end)>>, BoolT)))

(***************************************************************************)
(* Calls.                                                                  *)
(***************************************************************************)
Accepts(c, types, params) ==
    /\ Len(types) = Len(params)
    /\ \A i \in DOMAIN types : IsAssignableTo(c.tt, types[i], params[i])

\* The callee f, after the arguments a.
CallOf(n, c, a, types, f) ==
    LET after == [f.c EXCEPT !.args = c.args]
        isA(kind) == f.ir.k = kind
        ctors == IF isA("alloc") THEN Constructors(f.c.tt, f.ir.for, types) ELSE {}
        method == IF isA("member")
                  THEN FindMethod(f.c.tt, IRType(f.ir.thing, f.c), f.ir.name, types)
                  ELSE Nil
        type == IRType(f.ir, f.c)
    IN  IF Nil \in ToSet(types) \/ ~IsIRValue(f.ir) THEN Dead(after)
        ELSE IF isA("alloc")
        THEN Check(ctors # {} \/ (f.ir.for = BufferT /\ types = <<IntT>>),
                   Ok(after, [f.ir EXCEPT !.args = a.irs, !.ctor = types]))
        ELSE IF isA("member") /\ method # Nil
        THEN Ok(after, CallMethod(f.ir.thing, method, a.irs))
        ELSE IF isA("callMethod")   \* also when the callee has its arguments already
        THEN Ok(after, [f.ir EXCEPT !.args = a.irs])
        ELSE Check(type.k = "fnType" /\ Accepts(after, types, type.params),
                   Ok(after, [k |-> "call", callee |-> f.ir, args |-> a.irs]))

CallWith(n, c, a, types) ==
    CallOf(n, c, a, types, Conv(n.callee, [a.c EXCEPT !.args = <<types>>]))

ConvCall(n, c) ==
    LET a == ConvAll(n.args, c) IN CallWith(n, c, a, TypesOf(a))

(***************************************************************************)
(* Variables.                                                              *)
(***************************************************************************)
ConvDeclUnnested(n, c) ==       \* a seeded bug: no room for what a nested scope declares
    LET made == MakeSymbol(c, n.name, n.type, n.readonly)
    IN  IF n.name \in DOMAIN Last(c.scopes).names THEN Dead(c)
        ELSE Ok([made EXCEPT !.locals = IF c.scope = "Local" /\ Last(c.scopes).frame
                                        THEN @ + 1 ELSE @],
                Symbol(Len(made.syms)))

ConvDecl(n, c) ==
    LET made == MakeSymbol(c, n.name, n.type, n.readonly)
    IN  IF n.name \in DOMAIN Last(c.scopes).names THEN Dead(c)
        ELSE Ok([made EXCEPT !.locals = IF c.scope = "Local" THEN @ + 1 ELSE @],
                Symbol(Len(made.syms)))

ConvDeclAssign(n, c) ==
    LET v == Conv(n.value, c)
        is == IRType(v.ir, v.c)
        type == IF n.decl.type = Nil THEN is ELSE n.decl.type
        d == ConvDecl([n.decl EXCEPT !.type = type], v.c)
    IN  IF ~IsAssignableTo(v.c.tt, is, type) \/ d.ir = Nil THEN Dead(d.c)
        ELSE Ok(Initialise(d.c, d.ir.id), Assignment(d.ir, v.ir))

ConvAssign(n, c) ==
    LET v == Conv(n.rhs, c)
        l == Conv(n.lhs, v.c)
        fits == IsAssignableTo(l.c.tt, IRType(v.ir, l.c), IRType(l.ir, l.c))
    IN  IF l.ir.k = "symbol"
        THEN Check(fits /\ ~l.c.syms[l.ir.id].readonly,
                   Ok(Initialise(l.c, l.ir.id), Assignment(l.ir, v.ir)))
        ELSE Check(fits /\ l.ir.k \in {"index", "member"},
                   Ok(l.c, Assignment(l.ir, v.ir)))

(***************************************************************************)
(* Arrays.                                                                 *)
(***************************************************************************)
ConvArrayLiteral(n, c) ==
    LET a == ConvAll(n.values, c)
        types == {IRType(a.irs[i], a.c) : i \in DOMAIN a.irs}
        of == CHOOSE t \in types : TRUE
        array == ArrayType(of)
        \* .array_lit takes an index but no room in the frame
        made == MakeSymbol(PushScope(a.c, FALSE), ".array_lit", array, TRUE)
        tmp == Symbol(Len(made.syms))
        size == Len(a.irs)
        store(i) == Assignment([k |-> "index", thing |-> tmp, type |-> of,
                                args |-> <<Fixnum(IntT, i - 1)>>], a.irs[i])
    IN  IF Cardinality(types) # 1 \/ Nil \in types THEN Dead(a.c)
        ELSE Ok(PopScope(made),
                Block(<<Assignment(tmp, [k |-> "newArray", type |-> array, of |-> of,
                                         size |-> Fixnum(IntT, size)])>>
                      \o [i \in 1..size |-> store(i)] \o <<tmp>>, array))

ConvNewArray(n, c) ==
    LET r == Conv(n.size, c)
    IN  Check(IsAssignableTo(r.c.tt, IRType(r.ir, r.c), IntT),
              Ok(r.c, [k |-> "newArray", type |-> ArrayType(n.of), of |-> n.of,
                       size |-> r.ir]))

(***************************************************************************)
(* Code that is called: functions, methods and constructors.  Arguments    *)
(* were pushed from left to right and are taken off from the right.        *)
(***************************************************************************)
AddReturn(c, id) ==
    [Labels(c, 1) EXCEPT !.rets = @ \cup {id},
                         !.leave = IF c.locals # 0 THEN @ \cup {id} ELSE @]

CloseCodeLate(p, b) ==  \* a seeded bug: returns before the first variable stay fast
    LET code == Reverse([i \in DOMAIN p.irs |-> AssignTop(p.irs[i].id)]) \o b.irs
        returns == code # <<>> /\ Last(code).k = "return"
        closed == IF returns THEN b.c ELSE AddReturn(b.c, b.c.next)
        n == b.c.locals
    IN  [c |-> PopScope(closed),
         code |-> (IF n > 0 THEN <<AllocateLocals(n)>> ELSE <<>>) \o code
                  \o (IF returns THEN <<>> ELSE <<IRReturn(b.c.next, <<>>)>>),
         returns |-> returns]

CloseCode(p, b) ==      \* parameters and body have been translated
    LET code == Reverse([i \in DOMAIN p.irs |-> AssignTop(p.irs[i].id)]) \o b.irs
        returns == code # <<>> /\ Last(code).k = "return"
        closed == IF returns THEN b.c ELSE AddReturn(b.c, b.c.next)
        n == b.c.locals
    IN  [c |-> PopScope([closed EXCEPT !.leave = IF n > 0 THEN @ \cup closed.rets ELSE @]),
         code |-> (IF n > 0 THEN <<AllocateLocals(n)>> ELSE <<>>) \o code
                  \o (IF returns THEN <<>> ELSE <<IRReturn(b.c.next, <<>>)>>),
         returns |-> returns]

CodeWith(p, body) ==
    LET ids == {p.irs[i].id : i \in DOMAIN p.irs}
        opened == [p.c EXCEPT !.syms = [i \in DOMAIN @ |->
                                            IF i \in ids THEN [@[i] EXCEPT !.init = TRUE]
                                            ELSE @[i]]]
    IN  IF p.c.dead THEN [c |-> p.c, code |-> <<>>, returns |-> FALSE]
        ELSE CloseCode(p, ConvBody(body, opened, FALSE))

CompileCode(params, body, c) ==
    CodeWith(ConvAll(params, [PushScope(c, TRUE) EXCEPT !.scope = "Local", !.rets = {}]), body)

\* The body stands where the function is written, or before all statements,
\* and a branch leads around it.
Around(label, end, code) == <<IRBranch("Branch", end), NamedBlock(label, end, code)>>

AfterFn(n, c, f) ==     \* f is what its code was compiled to
    LET type == TypeOf(n)
        bound == n.name # ""
        label == c.next
        restored == [f.c EXCEPT !.scope = c.scope, !.locals = c.locals, !.fn = c.fn,
                                !.ep = c.ep, !.rets = c.rets,
                                !.first = @ \o Around(label, label + 1, f.code)]
        same(other) == other.name = n.name /\ other.params = type.params
        entry == [name |-> n.name, params |-> type.params, label |-> label, type |-> type]
    IN  IF \/ ~f.returns /\ n.ret # VoidT
           \/ bound /\ \E g \in Last(f.c.scopes).fns : same(g)
        THEN Dead(c)
        ELSE Ok(IF bound THEN [restored EXCEPT !.scopes[Len(f.c.scopes)].fns = @ \cup {entry}]
                ELSE restored,
                Callable(label, type, bound))

ConvFn(n, c) ==
    LET params == TypeOf(n).params
        bound == n.name # ""
        extends == bound /\ c.ext # Nil
        method == IF extends THEN FindMethod(c.tt, c.ext, n.name, params) ELSE Nil
        waiting == method # Nil /\ ~method.native /\ method.label = 0
        tt == IF ~extends THEN c.tt
              ELSE IF method = Nil
              THEN AddMethod(c.tt, c.ext,
                             Method(c.ext, n.name, params, n.ret, c.next, FALSE))
              ELSE SetMethod(c.tt, method, c.next)
        self == IF extends THEN <<DeclNode("self", c.ext, FALSE)>> ELSE <<>>
    IN  IF (bound /\ FindSymbol(c, n.name) # 0) \/ (method # Nil /\ ~waiting) THEN Dead(c)
        ELSE AfterFn(n, c, CompileCode(self \o n.params, n.body,
                                [Labels(c, 2) EXCEPT !.fn = n, !.ep = c.next, !.tt = tt]))

\* The returns noted so far are not restored afterwards.
ConvConstructor(n, c) ==
    LET types == [i \in DOMAIN n.params |-> n.params[i].type]
        known == {k \in RowOf(c.tt, c.ext).ctors : k.params = types}
        ctor == CHOOSE k \in known : TRUE
        label == c.next
        tt == IF known = {}
              THEN AddConstructor(c.tt, c.ext, [params |-> types, label |-> label])
              ELSE SetConstructor(c.tt, c.ext, ctor, label)
        self == [DeclNode("self", c.ext, FALSE) EXCEPT !.readonly = TRUE]
        f == CompileCode(<<self>> \o n.params, n.body, [Labels(c, 2) EXCEPT !.tt = tt])
    IN  IF known # {} /\ ctor.label # 0 THEN Dead(c)
        ELSE Ok([f.c EXCEPT !.scope = c.scope, !.locals = c.locals],
                Block(Around(label, label + 1, f.code), VoidT))

ConvReturn(n, c) ==
    LET v == Conv(n.values[1], c)
    IN  IF c.fn = Nil \/ Len(n.values) > 1 THEN Dead(c)
        ELSE IF n.values = <<>>
        THEN Check(c.fn.ret = VoidT, Ok(AddReturn(c, c.next), IRReturn(c.next, <<>>)))
        ELSE Check(IsAssignableTo(v.c.tt, IRType(v.ir, v.c), c.fn.ret),
                   Ok(AddReturn(v.c, v.c.next), IRReturn(v.c.next, <<v.ir>>)))

(***************************************************************************)
(* Types.  Methods and constructors are declared before any is defined,    *)
(* and .init gives the fields their first values.                          *)
(***************************************************************************)
ConvFields(fields, c) ==
    FoldLeft(
        LAMBDA acc, field :
            LET r == Conv(field, acc.c)
                added == Field(field.decl.name, IRType(r.ir.rhs, r.c), field.decl.readonly)
            IN  IF field.k # "declAssign" \/ acc.c.dead \/ r.c.dead
                   \/ HasField(r.c.tt, r.c.ext, field.decl.name)
                THEN [acc EXCEPT !.c.dead = TRUE]
                ELSE [c |-> [r.c EXCEPT !.tt = AddField(@, r.c.ext, added)],
                      irs |-> Append(acc.irs, r.ir)],
        [c |-> c, irs |-> <<>>], fields)

ConvTypeDef(n, c) ==
    LET type == n.type
        params(code) == [i \in DOMAIN code.params |-> code.params[i].type]
        methods == {Method(type, m.name, params(m), m.ret, 0, FALSE) : m \in ToSet(n.methods)}
        ctors == IF n.ctors = <<>> THEN {[params |-> <<>>, label |-> 0]}
                 ELSE {[params |-> params(k), label |-> 0] : k \in ToSet(n.ctors)}
        declared == [c.tt EXCEPT ![type].methods = @ \cup methods,
                                 ![type].ctors = @ \cup ctors]
        init == c.next
        f == ConvFields(n.fields,
                 [Labels(PushScope(c, TRUE), 2) EXCEPT !.ext = type, !.scope = "Field",
                                                       !.tt = declared])
        code == <<AllocateLocals(1), AssignTop(0)>> \o f.irs \o <<IRReturn(f.c.next, <<>>)>>
        defined == [Labels(f.c, 1) EXCEPT !.leave = @ \cup {f.c.next},
                                          !.tt[type].init = init]
        m == ConvAll(n.methods, defined)
        k == ConvAll(n.ctors, [m.c EXCEPT !.scope = "Local"])
    IN  IF Len(n.ctors) # Cardinality({params(x) : x \in ToSet(n.ctors)}) THEN Dead(c)
        ELSE Ok([PopScope(k.c) EXCEPT !.ext = c.ext, !.scope = c.scope],
                Block(Around(init, init + 1, code) \o m.irs \o k.irs, VoidT))

ConvExtend(n, c) ==
    LET m == ConvAll(n.body, [PushScope(c, TRUE) EXCEPT !.ext = n.type])
    IN  Ok([PopScope(m.c) EXCEPT !.ext = c.ext], Block(m.irs, VoidT))

(***************************************************************************)
(* Conditions and loops.  Outside of a loop break and continue report an   *)
(* error and go on, with no label to branch to.                            *)
(***************************************************************************)
\* The labels that a statement sets are the caller's again afterwards.
Restored(c, old) ==
    [c EXCEPT !.trueL = old.trueL, !.falseL = old.falseL,
              !.breakL = old.breakL, !.contL = old.contL]

ConvBreak(n, c) == Check(n.values = <<>>, Ok(c, IRBranch("Branch", c.breakL)))
ConvContinue(c) == Ok(c, IRBranch("Branch", c.contL))

InLoopContinueBelow(c, check) ==    \* a seeded bug: continue skips the condition
    [Labels(c, 3) EXCEPT !.trueL = check + 1, !.falseL = check + 2,
                         !.breakL = check + 2, !.contL = check + 1]

InLoop(c, check) ==     \* check, then the loop's block and its end
    [Labels(c, 3) EXCEPT !.trueL = check + 1, !.falseL = check + 2,
                         !.breakL = check + 2, !.contL = check]

Loop(check, before, cond, body, inside) ==
    Block(before \o <<Label(check), cond, IRBranch("Pop_Branch_If_False", check + 2),
                      NamedBlock(check + 1, check + 2,
                                 inside \o body \o <<IRBranch("Branch", check)>>)>>, VoidT)

ConvWhile(n, c) ==
    LET check == c.next
        cond == Conv(n.cond, InLoop(c, check))
        b == ConvBody(n.body, PushScope(cond.c, FALSE), FALSE)
    IN  Check(IRType(cond.ir, cond.c) = BoolT,
              Ok(Restored(PopScope(b.c), c), Loop(check, <<>>, cond.ir, b.irs, <<>>)))

ConvForIterator(n, itr, moveNext, current, c) ==
    LET check == c.next
        a == MakeSymbol(PushScope(InLoop(c, check), FALSE), ".itr", IRType(itr, c), TRUE)
        s == Symbol(Len(a.syms))
        d == [MakeSymbol(a, n.it, current.ret, TRUE) EXCEPT !.locals = @ + 2]
        b == ConvBody(n.body, d, FALSE)
    IN  Check(moveNext.ret = BoolT /\ current.ret # VoidT,
              Ok(Restored(PopScope(b.c), c),
                 Loop(check, <<Assignment(s, itr)>>, CallMethod(s, moveNext, <<>>), b.irs,
                      <<Assignment(Symbol(Len(d.syms)), CallMethod(s, current, <<>>))>>)))

\* Written out as a loop over an index; the step is the loop's last statement,
\* which continue jumps over.
ConvForIndex(n, c) ==
    LET itr == VariableNode(<<>>, ".itr")
        index == n.it \o "_index"
        at == VariableNode(<<>>, index)
        let(name, value) == DeclAssignNode(DeclNode(name, Nil, FALSE), value)
        step == AssignNode(at, BinaryNode("Plus", at, LiteralNode("Integer", 1)))
        a == ConvAll(<<let(".itr", n.iterable), let(index, LiteralNode("Integer", 0)),
                       WhileNode(BinaryNode("Less", at, MemberNode(itr, "length")),
                                 <<let(n.it, IndexNode(itr, <<at>>))>> \o n.body \o <<step>>)>>,
                     PushScope(c, FALSE))
    IN  Ok(PopScope(a.c), Block(a.irs, VoidT))

ConvFor(n, c) ==        \* the second form visits the iterable again
    LET r == Conv(n.iterable, c)
        type == IRType(r.ir, r.c)
        moveNext == FindMethod(r.c.tt, type, "move_next", <<>>)
        current == FindMethod(r.c.tt, type, "current", <<>>)
    IN  IF type = Nil THEN Dead(r.c)
        ELSE IF moveNext # Nil /\ current # Nil
        THEN ConvForIterator(n, r.ir, moveNext, current, r.c)
        ELSE ConvForIndex(n, r.c)

\* A body in a scope of its own.
Scoped(nodes, c, collecting) ==
    LET b == ConvBody(nodes, PushScope(c, FALSE), collecting)
    IN  [b EXCEPT !.c = PopScope(@)]

\* The legs t and e, and the label before them and at the end.
IfLegs(n, c, cond, t, e) ==
    LET alt == c.next
        end == t.c.next
        start == <<cond.ir, IRBranch("Pop_Branch_If_False", alt), Label(alt + 1)>> \o t.irs
        type == IF n.conseq # <<>> /\ IsIRValue(t.last) /\ IsIRValue(e.last)
                THEN IRType(t.last, e.c) ELSE VoidT
        valued == type # VoidT /\ IsAssignableTo(e.c.tt, IRType(e.last, e.c), type)
    IN  Check(IRType(cond.ir, cond.c) = BoolT,
              IF n.altern = <<>>
              THEN Ok(Restored(t.c, c), Block(Append(start, Label(alt)), VoidT))
              ELSE Ok(Restored(e.c, c),
                      Block(start \o <<IRBranch("Branch", end), Label(alt)>>
                            \o e.irs \o <<Label(end)>>, IF valued THEN type ELSE VoidT)))

IfThen(n, c, cond, t, both) ==
    IfLegs(n, c, cond, t, Scoped(n.altern, Labels(t.c, 1), both))

IfWith(n, c, cond, both) ==
    IfThen(n, c, cond, Scoped(n.conseq, cond.c, both), both)

ConvIf(n, c) ==
    IfWith(n, c, Conv(n.cond, [Labels(c, 2) EXCEPT !.falseL = c.next, !.trueL = c.next + 1]),
           n.conseq # <<>> /\ n.altern # <<>>)

(***************************************************************************)
(* visit, and convert: definitions first, then statements.                 *)
(***************************************************************************)
Conv(n, c) ==
    CASE c.dead -> Ok(c, Nil)
      [] n.k \in {"Integer", "Character", "Real", "K_true", "K_false", "String"} ->
           ConvLiteral(n, c)
      [] n.k = "variable" -> ConvVariable(n, c)
      [] n.k = "member" -> ConvMember(n, c)
      [] n.k = "index" -> ConvIndex(n, c)
      [] n.k = "unary" -> IF n.op = "K_unalias" THEN ConvUnalias(n, c) ELSE ConvUnary(n, c)
      [] n.k = "binary" -> CASE n.op = "Log_Or" -> ConvLogicalOr(n, c)
                             [] n.op = "Log_And" -> ConvLogicalAnd(n, c)
                             [] OTHER -> ConvBinary(n, c)
      [] n.k = "call" -> ConvCall(n, c)
      [] n.k = "arrayLiteral" -> ConvArrayLiteral(n, c)
      [] n.k = "newArray" -> ConvNewArray(n, c)
      [] n.k = "if" -> ConvIf(n, c)
      [] n.k = "fn" -> ConvFn(n, c)
      [] n.k = "assign" -> ConvAssign(n, c)
      [] n.k = "decl" -> ConvDecl(n, c)
      [] n.k = "declAssign" -> ConvDeclAssign(n, c)
      [] n.k = "return" -> ConvReturn(n, c)
      [] n.k = "break" -> ConvBreak(n, c)
      [] n.k = "continue" -> ConvContinue(c)
      [] n.k = "while" -> ConvWhile(n, c)
      [] n.k = "for" -> ConvFor(n, c)
      [] n.k = "ctor" -> ConvConstructor(n, c)
      [] n.k = "typedef" -> ConvTypeDef(n, c)
      [] n.k = "alias" -> Ok(c, Nil)        \* done while parsing
      [] n.k = "extend" -> ConvExtend(n, c)

\* p.imports is empty here: Modules is about them.
Translate(p, declared) ==
    LET add(b) == [b.c EXCEPT !.first = @ \o b.irs]
        item(c, n) == add(ConvBody(<<n>>, c, FALSE))
        translated(b) == [c |-> b.c, first |-> b.c.first, second |-> b.irs]
    IN  translated(ConvBody(p.second, FoldLeft(item, Translator(declared), p.first), FALSE))
=============================================================================
