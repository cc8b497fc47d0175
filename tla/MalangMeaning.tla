--------------------------- MODULE MalangMeaning ---------------------------
(***************************************************************************)
(* What a program should print: an evaluator of syntax trees that knows    *)
(* nothing of labels, slots, operand stacks or instructions.  Compile      *)
(* holds the machine against it.                                           *)
(*                                                                         *)
(* Ev(n, m) evaluates n in the memory m and gives the memory afterwards,   *)
(* the value, and how to go on: "go", "break", "continue" or "return".     *)
(* Nothing happens any more once an index was out of bounds.               *)
(* Functions see their own variables, the fields of self and the globals.  *)
(***************************************************************************)
EXTENDS MalangSyntax, SequencesExt
LOCAL INSTANCE Bitwise

None == <<"none", 0>>
Memory(p) ==
    [defs |-> ToSet(p.first), scopes |-> << <<>> >>, self |-> None, fn |-> Nil,
     heap |-> <<>>, out |-> <<>>, stopped |-> FALSE]
R(m, v) == [m |-> m, v |-> v, sig |-> "go"]
Signal(m, v, sig) == [m |-> m, v |-> v, sig |-> sig]
Stop(m) == R([m EXCEPT !.stopped = TRUE], None)

TypeOfValue(v, m) ==
    CASE v[1] = "int" -> IntT
      [] v[1] = "bool" -> BoolT
      [] v[1] = "string" -> StringT
      [] v[1] = "ref" -> m.heap[v[2]].type
      [] v[1] = "fn" -> FnType([i \in DOMAIN v[2].params |-> v[2].params[i].type], v[2].ret)
Types(vs, m) == [i \in DOMAIN vs |-> TypeOfValue(vs[i], m)]
ParamTypes(f) == [i \in DOMAIN f.params |-> f.params[i].type]

TypeDefs(m) == {d \in m.defs : d.k = "typedef"}
MethodsOf(type, m) ==
    UNION {IF d.k = "typedef" /\ d.type = type THEN ToSet(d.methods)
           ELSE IF d.k = "extend" /\ d.type = type THEN ToSet(d.body) ELSE {} : d \in m.defs}
Matching(fs, name, types) == {f \in fs : f.name = name /\ ParamTypes(f) = types}
NamedFns(m) == {d \in m.defs : d.k = "fn"}

(***************************************************************************)
(* Variables: the innermost scope that has the name, then self, then the   *)
(* globals, which are the first scope.                                     *)
(***************************************************************************)
ScopeOf(name, m) ==
    {i \in 2 .. Len(m.scopes) : name \in DOMAIN m.scopes[i]}
OwnField(name, m) == m.self # None /\ name \in DOMAIN m.heap[m.self[2]].cells

Lookup(name, m) ==
    IF ScopeOf(name, m) # {} THEN m.scopes[Max(ScopeOf(name, m))][name]
    ELSE IF OwnField(name, m) THEN m.heap[m.self[2]].cells[name] ELSE m.scopes[1][name]
Known(name, m) == ScopeOf(name, m) # {} \/ OwnField(name, m) \/ name \in DOMAIN m.scopes[1]

Update(name, v, m) ==
    IF ScopeOf(name, m) # {} THEN [m EXCEPT !.scopes[Max(ScopeOf(name, m))][name] = v]
    ELSE IF OwnField(name, m) THEN [m EXCEPT !.heap[m.self[2]].cells[name] = v]
    ELSE [m EXCEPT !.scopes[1][name] = v]
Define(name, v, m) == [m EXCEPT !.scopes[Len(m.scopes)] = (name :> v) @@ @]

Object(type, cells, m) ==
    R([m EXCEPT !.heap = Append(@, [type |-> type, cells |-> cells])],
      <<"ref", Len(m.heap) + 1>>)
Cell(v, i, m) == m.heap[v[2]].cells[i]
InBounds(v, i, m) == i[2] \in DOMAIN m.heap[v[2]].cells

Apply(op, a, b) ==
    LET bool(c) == <<"bool", IF c THEN 1 ELSE 0>>
        x == a[2]
        y == b[2]
    IN  CASE op = "Plus" -> IF a[1] = "string" THEN <<"string", x \o y>> ELSE <<"int", x + y>>
          [] op = "Minus" -> <<"int", x - y>>
          [] op = "Star" -> <<"int", x * y>>
          [] op = "Slash" -> <<"int", x \div y>>
          [] op = "Mod" -> <<"int", x % y>>
          [] op = "Bit_And" -> <<"int", x & y>>
          [] op = "Bit_Or" -> <<"int", x | y>>
          [] op = "Bit_Xor" -> <<"int", x ^^ y>>
          [] op = "L_Shift" -> <<"int", x * 2 ^ y>>
          [] op = "R_Shift" -> <<"int", shiftR(x, y)>>
          [] op = "Equals_Equals" -> bool(x = y)
          [] op = "Not_Equals" -> bool(x # y)
          [] op = "Less" -> bool(x < y)
          [] op = "Less_Equals" -> bool(x <= y)
          [] op = "Greater" -> bool(x > y)
          [] op = "Greater_Equals" -> bool(x >= y)

RECURSIVE Ev(_, _)

EvAll(nodes, m) ==
    FoldLeft(LAMBDA acc, n : LET r == Ev(n, acc.m) IN [m |-> r.m, vs |-> Append(acc.vs, r.v)],
             [m |-> m, vs |-> <<>>], nodes)

\* One after the other until one of them leaves.
EvBody(nodes, m) ==
    FoldLeft(LAMBDA r, n : IF r.sig = "go" THEN Ev(n, r.m) ELSE r, R(m, None), nodes)
EvBlock(nodes, m) ==
    LET r == EvBody(nodes, [m EXCEPT !.scopes = Append(@, <<>>)])
    IN  [r EXCEPT !.m.scopes = Front(@)]

\* The body of f with its own variables; the globals may change.
Enter(f, args, self, m) ==
    LET params == [name \in {f.params[i].name : i \in DOMAIN f.params} |->
                        args[CHOOSE i \in DOMAIN f.params : f.params[i].name = name]]
        own == IF self = None THEN params ELSE ("self" :> self) @@ params
        r == EvBody(f.body, [m EXCEPT !.scopes = <<m.scopes[1], own>>, !.self = self, !.fn = f])
    IN  R([r.m EXCEPT !.scopes = <<r.m.scopes[1]>> \o Tail(m.scopes),
                      !.self = m.self, !.fn = m.fn],
          IF r.sig = "return" THEN r.v ELSE None)

CallMethodOf(v, name, args, m) ==
    Enter(CHOOSE f \in Matching(MethodsOf(TypeOfValue(v, m), m), name, Types(args, m)) : TRUE,
          args, v, m)

Construct(def, args, m) ==
    LET made == Object(def.type, <<>>, m)
        init(acc, field) ==
            LET r == Ev(field.value, acc)
            IN  [r.m EXCEPT !.heap[made.v[2]].cells = (field.decl.name :> r.v) @@ @]
        inited == FoldLeft(init, [made.m EXCEPT !.self = made.v], def.fields)
        ctors == {k \in ToSet(def.ctors) : ParamTypes(k) = Types(args, m)}
        done == [inited EXCEPT !.self = m.self]
    IN  IF ctors = {} THEN R(done, made.v)
        ELSE R(Enter(CHOOSE k \in ctors : TRUE, args, made.v, done).m, made.v)

EvCall(n, m) ==
    LET member == n.callee.k = "member"
        thing == Ev(n.callee.thing, m)
        a == EvAll(n.args, IF member THEN thing.m ELSE m)
        types == Types(a.vs, a.m)
        name == n.callee.name
        own == IF a.m.self = None THEN {}
               ELSE Matching(MethodsOf(TypeOfValue(a.m.self, a.m), a.m), name, types)
        named == Matching(NamedFns(a.m), name, types)
        defs == {d \in TypeDefs(a.m) : d.type = TypeName(<<name>>)}
        value == Ev(n.callee, a.m)
    IN  IF member
        THEN IF Matching(MethodsOf(TypeOfValue(thing.v, a.m), a.m), n.callee.member, types) # {}
             THEN CallMethodOf(thing.v, n.callee.member, a.vs, a.m)
             ELSE Enter(Cell(thing.v, n.callee.member, a.m)[2], a.vs, None, a.m)
        ELSE IF n.callee.k # "variable" THEN Enter(value.v[2], a.vs, None, value.m)
        ELSE IF a.m.stopped THEN R(a.m, None)
        ELSE IF name = "println" THEN R([a.m EXCEPT !.out = Append(@, a.vs[1])], None)
        ELSE IF name = "recurse" THEN Enter(a.m.fn, a.vs, None, a.m)
        ELSE IF own # {} THEN CallMethodOf(a.m.self, name, a.vs, a.m)
        ELSE IF named # {} THEN Enter(CHOOSE f \in named : TRUE, a.vs, None, a.m)
        ELSE IF defs # {} THEN Construct(CHOOSE d \in defs : TRUE, a.vs, a.m)
        ELSE IF name = "buffer"
        THEN Object(TypeName(<<name>>), [i \in 0 .. a.vs[1][2] - 1 |-> <<"int", 0>>], a.m)
        ELSE Enter(value.v[2], a.vs, None, value.m)

EvBinary(n, m) ==
    LET l == Ev(n.lhs, m)
        r == Ev(n.rhs, l.m)
    IN  IF n.op = "Log_And" THEN IF l.v[2] = 0 THEN l ELSE r
        ELSE IF n.op = "Log_Or" THEN IF l.v[2] = 1 THEN l ELSE r
        ELSE IF l.v[1] = "ref" THEN CallMethodOf(l.v, n.op, <<r.v>>, r.m)
        ELSE R(r.m, Apply(n.op, l.v, r.v))

EvUnary(n, m) ==
    LET r == Ev(n.operand, m)
    IN  CASE n.op = "Minus" -> R(r.m, <<"int", -r.v[2]>>)
          [] n.op = "Invert" -> R(r.m, <<"int", -r.v[2] - 1>>)
          [] n.op \in {"Plus", "K_unalias"} -> r

EvIndex(n, m) ==
    LET thing == Ev(n.thing, m)
        a == EvAll(n.subscript, thing.m)
        user == MethodsOf(TypeOfValue(thing.v, a.m), a.m) # {}
    IN  IF user THEN CallMethodOf(thing.v, "Op_Index_Get", a.vs, a.m)
        ELSE IF InBounds(thing.v, a.vs[1], a.m) THEN R(a.m, Cell(thing.v, a.vs[1][2], a.m))
        ELSE Stop(a.m)

EvMember(n, m) ==
    LET r == Ev(n.thing, m)
        object == r.m.heap[r.v[2]]
        defined == object.type \in {d.type : d \in TypeDefs(m)}
    IN  R(r.m, IF defined THEN object.cells[n.member]
               ELSE <<"int", Cardinality(DOMAIN object.cells)>>)

EvAssign(n, m) ==
    LET r == Ev(n.rhs, m)
        thing == Ev(n.lhs.thing, r.m)
        a == EvAll(n.lhs.subscript, thing.m)
        user == MethodsOf(TypeOfValue(thing.v, a.m), a.m) # {}
    IN  R(CASE n.lhs.k = "variable" -> Update(n.lhs.name, r.v, r.m)
            [] n.lhs.k = "member" ->
                 [thing.m EXCEPT !.heap[thing.v[2]].cells[n.lhs.member] = r.v]
            [] n.lhs.k = "index" ->
                 IF user THEN CallMethodOf(thing.v, "Op_Index_Set", Append(a.vs, r.v), a.m).m
                 ELSE IF InBounds(thing.v, a.vs[1], a.m)
                 THEN [a.m EXCEPT !.heap[thing.v[2]].cells[a.vs[1][2]] = r.v]
                 ELSE Stop(a.m).m,
          None)

Array(vs, type, m) == Object(ArrayType(type), [i \in 0 .. Len(vs) - 1 |-> vs[i + 1]], m)

RECURSIVE EvWhile(_, _)
EvWhile(n, m) ==
    LET c == Ev(n.cond, m)
        b == EvBlock(n.body, c.m)
    IN  IF c.v[2] = 0 \/ b.sig = "break" THEN R(IF c.v[2] = 0 THEN c.m ELSE b.m, None)
        ELSE IF b.sig = "return" THEN b
        ELSE EvWhile(n, b.m)

\* Over what an iterator gives, or over the elements of an array.
RECURSIVE EvFor(_, _, _, _)
EvFor(n, itr, i, m) ==
    LET iterator == TypeOfValue(itr, m).k # "arrayType"
        next == CallMethodOf(itr, "move_next", <<>>, m)
        current == CallMethodOf(itr, "current", <<>>, next.m)
        more == IF iterator THEN next.v[2] = 1 ELSE i \in DOMAIN m.heap[itr[2]].cells
        it == IF iterator THEN current ELSE R(m, Cell(itr, i, m))
        index == IF iterator THEN <<>> ELSE (n.it \o "_index" :> <<"int", i>>)
        b == EvBody(n.body, [it.m EXCEPT !.scopes = Append(@, (n.it :> it.v) @@ index)])
        after == [b EXCEPT !.m.scopes = Front(@)]
    IN  IF ~more THEN R(IF iterator THEN next.m ELSE m, None)
        ELSE IF b.sig = "break" THEN R(after.m, None)
        ELSE IF b.sig = "return" THEN after
        ELSE EvFor(n, itr, i + 1, after.m)

Ev(n, m) ==
    CASE m.stopped -> R(m, None)
      [] n.k \in {"Integer", "Character"} -> R(m, <<"int", n.text>>)
      [] n.k = "String" -> R(m, <<"string", n.text>>)
      [] n.k = "K_true" -> R(m, <<"bool", 1>>)
      [] n.k = "K_false" -> R(m, <<"bool", 0>>)
      [] n.k = "variable" -> R(m, Lookup(n.name, m))
      [] n.k = "fn" -> R(m, <<"fn", n>>)
      [] n.k = "binary" -> EvBinary(n, m)
      [] n.k = "unary" -> EvUnary(n, m)
      [] n.k = "call" -> EvCall(n, m)
      [] n.k = "index" -> EvIndex(n, m)
      [] n.k = "member" -> EvMember(n, m)
      [] n.k = "arrayLiteral" ->
           LET a == EvAll(n.values, m) IN Array(a.vs, TypeOfValue(a.vs[1], a.m), a.m)
      [] n.k = "newArray" ->
           LET r == Ev(n.size, m) IN Array([i \in 1 .. r.v[2] |-> None], n.of, r.m)
      [] n.k = "decl" -> R(Define(n.name, None, m), None)
      [] n.k = "declAssign" ->
           LET r == Ev(n.value, m) IN R(Define(n.decl.name, r.v, r.m), None)
      [] n.k = "assign" -> EvAssign(n, m)
      [] n.k = "return" ->
           LET a == EvAll(n.values, m)
           IN  Signal(a.m, IF a.vs = <<>> THEN None ELSE a.vs[1], "return")
      [] n.k \in {"break", "continue"} -> Signal(m, None, n.k)
      [] n.k = "if" -> LET c == Ev(n.cond, m)
                       IN  EvBlock(IF c.v[2] = 1 THEN n.conseq ELSE n.altern, c.m)
      [] n.k = "while" -> EvWhile(n, m)
      [] n.k = "for" -> LET r == Ev(n.iterable, m) IN EvFor(n, r.v, 0, r.m)

\* What the statements of p print.
Meaning(p) == EvBody(p.second, Memory(p)).m.out
=============================================================================
