----------------------------- MODULE MalangCode -----------------------------
(***************************************************************************)
(* IR_To_Code and Codegen (src/src/codegen): the instructions for an       *)
(* intermediate tree.  An instruction has an address and a width in bytes; *)
(* the short forms of an instruction (Load_Local_3, Literal_Fixnum_1, ...) *)
(* are the instruction with a width of its own, and Fixnum_Add and the     *)
(* others are "Fixnum" with the operator.  g is the state of the generator.*)
(***************************************************************************)
EXTENDS MalangIR

Generator(c) == [c |-> c, code |-> <<>>, size |-> 0, at |-> <<>>, dead |-> c.dead]
Kill(g) == [g EXCEPT !.dead = TRUE]
TypeIn(g, ir) == IRType(ir, g.c)

Emit(g, op, arg, width) ==
    [g EXCEPT !.code = Append(@, [op |-> op, arg |-> arg, at |-> g.size,
                                  next |-> g.size + width]),
              !.size = @ + width]

\* The smallest form that holds the number.  What fits a byte is stored in an
\* unsigned one.
GenFixnum(g, n) ==
    CASE n \in 0 .. 5 -> Emit(g, "Literal", n, 1)
      [] n \in (-128 .. 127) \ (0 .. 5) -> Emit(g, "Literal", n % 256, 2)
      [] n \in (-32768 .. 32767) \ (-128 .. 127) -> Emit(g, "Literal", n, 3)
      [] OTHER -> Emit(g, "Literal", n, 5)

GenLiteral32(g, n) == Emit(g, "Literal", n, IF n \in -1 .. 5 THEN 1 ELSE 5)

Local(g, op, n) == Emit(g, op, n, IF n \in 0 .. 9 THEN 1 ELSE 3)

(***************************************************************************)
(* Labels.  Where a label lies is known once it has been placed; what      *)
(* refers to one before is filled in afterwards.  Branches are relative to *)
(* their own address, except the conditional ones back to a label that has *)
(* been placed, which are given the address itself.                        *)
(***************************************************************************)
Placed(g, l) == l \in DOMAIN g.at
Place(g, l) == IF Placed(g, l) THEN Kill(g) ELSE [g EXCEPT !.at = (l :> g.size) @@ @]
To(l, from) == [label |-> l, from |-> from]

GenBranch(g, kind, l) ==
    IF l = 0 THEN Kill(g)
    ELSE Emit(g, kind, To(l, IF Placed(g, l) /\ kind # "Branch" THEN 0 ELSE g.size), 5)

GenCall(g, l) == IF l = 0 THEN Kill(g) ELSE Emit(g, "Call", To(l, 0), 5)

\* A method may have been defined since the call of it was translated.
GenMethod(g, m) ==
    IF m = Nil THEN Kill(g)
    ELSE IF m.native THEN Emit(g, "Call_Native", <<m.name, Append(m.params, m.owner)>>, 5)
    ELSE GenCall(g, FindMethod(g.c.tt, m.owner, m.name, m.params).label)

Jumps == {"Branch", "Pop_Branch_If_True", "Pop_Branch_If_False", "Branch_If_True_Or_Pop",
          "Branch_If_False_Or_Pop"}
Dummy == -559038737     \* 0xdeadbeef

Backfill(g) ==
    [i \in DOMAIN g.code |->
        LET ins == g.code[i]
        IN  IF ins.op \in Jumps \cup {"Call"}
            THEN [ins EXCEPT !.arg = IF Placed(g, @.label) THEN g.at[@.label] - @.from
                                     ELSE Dummy]
            ELSE ins]

(***************************************************************************)
(* Variables.                                                              *)
(***************************************************************************)
GenLoad(g, s) ==
    CASE ~s.init -> Kill(g)
      [] s.scope = "Global" -> Emit(g, "Load_Global", s.index, 5)
      [] s.scope = "Local" -> Local(g, "Load_Local", s.index)
      [] s.scope = "Field" -> Emit(Local(g, "Load_Local", 0), "Load_Field", s.index, 3)

GenStore(g, s) ==
    CASE s.scope = "Global" -> Emit(g, "Store_Global", s.index, 5)
      [] s.scope = "Local" -> Local(g, "Store_Local", s.index)
      [] s.scope = "Field" -> Emit(Local(g, "Load_Local", 0), "Store_Field", s.index, 3)

RECURSIVE Gen(_, _)
GenAll(irs, g) == FoldLeft(LAMBDA acc, ir : Gen(ir, acc), g, irs)

\* To an element, through an index or an operator of the type.
GenIndexed(thing, args, op, g) ==
    LET code == GenAll(<<thing>> \o args, g)
        type == TypeIn(g, thing)
        types == [i \in DOMAIN args |-> TypeIn(g, args[i])]
    IN  IF type = BufferT THEN Emit(code, "Buffer_" \o op, 0, 1)
        ELSE IF type.k = "arrayType" THEN Emit(code, "Array_" \o op, 0, 1)
        ELSE GenMethod(code, FindMethod(g.c.tt, type,
                                        IF op = "Load" THEN "Op_Index_Get" ELSE "Op_Index_Set",
                                        types))

GenMember(ir, g) ==
    LET type == TypeIn(g, ir.thing)
        code == Gen(ir.thing, g)
    IN  IF ir.name = "length" /\ type = BufferT THEN Emit(code, "Buffer_Length", 0, 1)
        ELSE IF ir.name = "length" /\ type.k = "arrayType"
        THEN Emit(code, "Array_Length", 0, 1)
        ELSE IF ~HasField(g.c.tt, type, ir.name) THEN Kill(g)
        ELSE Emit(code, "Load_Field", FieldIndex(g.c.tt, type, ir.name) - 1, 3)

GenStoreMemberFirst(lhs, rhs, g) ==     \* a seeded bug: the object below its value
    LET i == FieldIndex(g.c.tt, TypeIn(g, lhs.thing), lhs.name)
    IN  IF ~HasField(g.c.tt, TypeIn(g, lhs.thing), lhs.name) THEN Kill(g)
        ELSE IF Fields(g.c.tt, TypeIn(g, lhs.thing))[i].readonly THEN Kill(g)
        ELSE Emit(GenAll(<<lhs.thing, rhs>>, g), "Store_Field", i - 1, 3)

GenStoreMember(lhs, rhs, g) ==
    LET type == TypeIn(g, lhs.thing)
        i == FieldIndex(g.c.tt, type, lhs.name)
    IN  IF ~HasField(g.c.tt, type, lhs.name) THEN Kill(g)
        ELSE IF Fields(g.c.tt, type)[i].readonly THEN Kill(g)
        ELSE Emit(GenAll(<<rhs, lhs.thing>>, g), "Store_Field", i - 1, 3)

\* A variable counts as initialised once an assignment to it is reached here.
GenAssignment(ir, g) ==
    CASE ir.lhs.k = "symbol" ->
           LET r == Gen(ir.rhs, [g EXCEPT !.c.syms[ir.lhs.id].init = TRUE])
           IN  GenStore(r, r.c.syms[ir.lhs.id])
      [] ir.lhs.k = "index" ->
           GenIndexed(ir.lhs.thing, Append(ir.lhs.args, ir.rhs), "Store", g)
      [] ir.lhs.k = "member" -> GenStoreMember(ir.lhs, ir.rhs, g)

GenAssignTop(ir, g) ==
    IF ir.id = 0 THEN Local(g, "Store_Local", 0) ELSE GenStore(g, g.c.syms[ir.id])

(***************************************************************************)
(* Operators.  Those on whole numbers are instructions, others methods.    *)
(***************************************************************************)
GenBinary(ir, g) ==
    LET types == <<TypeIn(g, ir.lhs), TypeIn(g, ir.rhs)>>
        ints == \A t \in ToSet(types) : IsAliasTo(g.c.tt, t, IntT)
        operands == GenAll(<<ir.lhs, ir.rhs>>, g)
    IN  IF ints THEN Emit(operands, "Fixnum", ir.op, 1)
        ELSE GenMethod(operands, FindMethod(g.c.tt, types[1], ir.op, <<types[2]>>))

GenUnary(ir, g) ==
    LET type == TypeIn(g, ir.operand)
        operand == Gen(ir.operand, g)
    IN  IF ir.op \in {"Plus", "Minus", "Invert"} /\ IsAliasTo(g.c.tt, type, IntT)
        THEN IF ir.op = "Plus" THEN operand ELSE Emit(operand, "Fixnum_Unary", ir.op, 1)
        ELSE GenMethod(operand, FindMethod(g.c.tt, type, UnaryName(ir.op), <<>>))

(***************************************************************************)
(* Calls and objects.                                                      *)
(***************************************************************************)
IsNative(type) == "native" \in DOMAIN type

GenCallable(ir, g) ==
    IF IsNative(ir.type) \/ ir.bound THEN g      \* a native is only called here
    ELSE IF Placed(g, ir.label) THEN GenLiteral32(g, g.at[ir.label]) ELSE Kill(g)

\* What the compiler knows of a function value; the machine is not told.
Signature(type) ==
    [args |-> Len(type.params), results |-> IF type.ret = VoidT THEN 0 ELSE 1]

GenCalling(ir, g) ==
    LET args == GenAll(ir.args, g)
    IN  IF ir.callee.k = "callable"
        THEN IF IsNative(ir.callee.type)
             THEN Emit(args, "Call_Native", <<"println", ir.callee.type.params>>, 5)
             ELSE GenCall(args, ir.callee.label)
        ELSE Emit(Gen(ir.callee, args), "Call_Dyn", Signature(TypeIn(g, ir.callee)), 1)

Self(g) == Local(g, "Load_Local", 0)

GenCallMethod(ir, g) ==
    GenMethod(GenAll(ir.args, IF ir.thing = Nil THEN Self(g) ELSE Gen(ir.thing, g)), ir.method)

\* Neither .init nor a constructor returns anything: the reference is doubled
\* for each.
GenAllocate(ir, g) ==
    LET row == RowOf(g.c.tt, ir.for)
        ctor == CHOOSE k \in Constructors(g.c.tt, ir.for, ir.ctor) : TRUE
        dup(h) == Emit(h, "Dup_1", 0, 1)
        object == Emit(g, "Alloc_Object", Len(Fields(g.c.tt, ir.for)), 5)
        inited == IF row.builtin THEN object ELSE GenCall(dup(object), row.init)
    IN  IF ir.for = BufferT /\ ir.ctor = <<IntT>>
        THEN Emit(GenAll(ir.args, g), "Buffer_New", 0, 1)
        ELSE IF ctor.params = <<>> /\ ctor.label = 0 THEN inited
        ELSE GenCall(GenAll(ir.args, dup(inited)), ctor.label)

(***************************************************************************)
(* visit and convert.                                                      *)
(***************************************************************************)
Gen(ir, g) ==
    CASE g.dead -> g
      [] ir.k = "fixnum" -> GenFixnum(g, ir.v)
      [] ir.k = "bool" -> GenLiteral32(g, ir.v)
      [] ir.k = "string" -> Emit(g, "Load_String_Constant", g.c.strings[ir.index + 1], 5)
      [] ir.k = "symbol" -> GenLoad(g, g.c.syms[ir.id])
      [] ir.k = "callable" -> GenCallable(ir, g)
      [] ir.k = "bin" -> GenBinary(ir, g)
      [] ir.k = "un" -> GenUnary(ir, g)
      [] ir.k = "block" -> GenAll(ir.nodes, g)
      [] ir.k = "call" -> GenCalling(ir, g)
      [] ir.k = "callMethod" -> GenCallMethod(ir, g)
      [] ir.k = "index" -> GenIndexed(ir.thing, ir.args, "Load", g)
      [] ir.k = "member" -> GenMember(ir, g)
      [] ir.k = "alloc" -> GenAllocate(ir, g)
      [] ir.k = "newArray" -> Emit(Gen(ir.size, g), "Array_New", 0, 5)
      [] ir.k = "assign" -> GenAssignment(ir, g)
      [] ir.k = "assignTop" -> GenAssignTop(ir, g)
      [] ir.k = "discard" -> Emit(g, "Drop", 1, 1)
      [] ir.k = "locals" -> Emit(g, "Alloc_Locals", ir.n, 3)
      [] ir.k = "return" ->
           Emit(GenAll(ir.values, g),
                IF ir.id \in g.c.leave THEN "Return" ELSE "Return_Fast", 0, 1)
      [] ir.k = "label" -> Place(g, ir.label)
      [] ir.k = "named" -> Place(GenAll(ir.body, Place(g, ir.label)), ir.end)
      [] ir.k = "branch" -> GenBranch(g, ir.kind, ir.to)

\* The code, or that the compiler gave up.
Generate(t) ==
    LET g == Emit(GenAll(t.first \o t.second, Generator(t.c)), "Halt", 0, 1)
    IN  IF g.dead THEN [rejected |-> TRUE, code |-> <<>>]
        ELSE [rejected |-> FALSE,
              code |-> FoldLeft(LAMBDA code, ins : (ins.at :> ins) @@ code, <<>>, Backfill(g))]
=============================================================================
