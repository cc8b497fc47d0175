---------------------------- MODULE MalangTypes ----------------------------
(***************************************************************************)
(* The type table (src/src/type_map.cpp, vm/runtime/reflection.cpp): what  *)
(* is known of every type while a program is compiled.  A table maps a     *)
(* type to its row; array and function types have rows of their own that   *)
(* nothing can change.  Methods of the builtin types are the operators of  *)
(* MalangSyntax.  Labels are numbers, 0 for "waiting for definition".      *)
(***************************************************************************)
EXTENDS MalangSyntax, SequencesExt

BufferT == TypeName(<<"buffer">>)
Builtins == {VoidT, BufferT, IntT, CharT, DoubleT, BoolT, StringT}

Method(owner, name, params, ret, label, native) ==
    [owner |-> owner, name |-> name, params |-> params, ret |-> ret,
     label |-> label, native |-> native]

UnaryName(op) == IF op \in {"Plus", "Minus"} THEN op \o "_At" ELSE op

NativeMethods(t) ==
    {Method(t, op, <<arg>>, BinaryMethod(op, t, arg), 0, TRUE) :
        op \in Comparisons \cup BitOperators \cup Arithmetic,
        arg \in {IntT, CharT, DoubleT, StringT}}
    \cup {Method(t, UnaryName(op), <<>>, UnaryMethod(op, t), 0, TRUE) :
        op \in {"Plus", "Minus", "Invert"}}

Row(fields, methods, builtin) ==
    [alias |-> Nil, fields |-> fields, methods |-> methods, ctors |-> {},
     init |-> 0, builtin |-> builtin]

Field(name, type, readonly) == [name |-> name, type |-> type, readonly |-> readonly]
Length == Field("length", IntT, TRUE)

BuiltinRow(t) ==
    Row(IF t \in {BufferT, StringT} THEN <<Length>> ELSE <<>>,
        {m \in NativeMethods(t) : m.ret # Nil}, TRUE)

\* Type_Map::Type_Map and the runtime_*_init.  User types are declared, and
\* aliases made, while the program is parsed: declared is a function from them
\* to what they are another name of, or Nil.
InitialTypes(declared) ==
    [t \in Builtins |-> BuiltinRow(t)]
    @@ [t \in DOMAIN declared |-> [Row(<<>>, {}, FALSE) EXCEPT !.alias = declared[t]]]

RowOf(tt, t) ==
    IF t \in DOMAIN tt THEN tt[t]
    ELSE Row(IF t.k = "arrayType" THEN <<Length>> ELSE <<>>, {}, TRUE)

-----------------------------------------------------------------------------
RECURSIVE AliasChain(_, _)
AliasChain(tt, t) ==
    <<t>> \o (IF RowOf(tt, t).alias = Nil THEN <<>> ELSE AliasChain(tt, RowOf(tt, t).alias))

AliasedToTop(tt, t) == Last(AliasChain(tt, t))

\* A value may always be given a more particular name, never a more general.
IsAssignableEitherWay(tt, t, other) ==      \* a seeded bug: the chain of either type
    t # Nil /\ (t \in ToSet(AliasChain(tt, other)) \/ other \in ToSet(AliasChain(tt, t)))
IsAssignableTo(tt, t, other) == t # Nil /\ t \in ToSet(AliasChain(tt, other))
IsAliasTo(tt, t, other) == t # Nil /\ other \in ToSet(AliasChain(tt, t))

\* find_method: the nearest in the alias chain.
RECURSIVE FindMethod(_, _, _, _)
FindMethod(tt, t, name, params) ==
    LET here == {m \in RowOf(tt, t).methods : m.name = name /\ m.params = params}
    IN  IF here # {} THEN CHOOSE m \in here : TRUE
        ELSE IF RowOf(tt, t).alias = Nil THEN Nil
        ELSE FindMethod(tt, RowOf(tt, t).alias, name, params)

Fields(tt, t) == RowOf(tt, AliasedToTop(tt, t)).fields
FieldIndices(tt, t, name) == {i \in DOMAIN Fields(tt, t) : Fields(tt, t)[i].name = name}
HasField(tt, t, name) == FieldIndices(tt, t, name) # {}
FieldIndex(tt, t, name) == CHOOSE i \in FieldIndices(tt, t, name) : TRUE
FieldType(tt, t, name) ==
    LET found == {f \in ToSet(Fields(tt, t)) : f.name = name}
    IN  IF found = {} THEN Nil ELSE (CHOOSE f \in found : TRUE).type

Constructors(tt, t, params) ==
    {ctor \in RowOf(tt, AliasedToTop(tt, t)).ctors : ctor.params = params}

\* add_method, add_constructor and add_field: refused (here: unchanged, and
\* the caller aborts) when there is one of that name and signature already.
AddMethod(tt, t, m) == [tt EXCEPT ![t].methods = @ \cup {m}]
AddConstructor(tt, t, ctor) == [tt EXCEPT ![t].ctors = @ \cup {ctor}]
AddField(tt, t, field) == [tt EXCEPT ![t].fields = Append(@, field)]

\* set_function, for what has been declared before.
SetMethod(tt, m, label) ==
    [tt EXCEPT ![m.owner].methods = (@ \ {m}) \cup {[m EXCEPT !.label = label]}]
SetConstructor(tt, t, ctor, label) ==
    [tt EXCEPT ![t].ctors = (@ \ {ctor}) \cup {[ctor EXCEPT !.label = label]}]
=============================================================================
