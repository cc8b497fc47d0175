------------------------------ MODULE MalangVM ------------------------------
(***************************************************************************)
(* The interpreter of the malang virtual machine (vm.cpp), with the code   *)
(* the compiler gives it for functions (ast_to_ir.cpp, ir_to_code.cpp):    *)
(* one data stack, one array of locals cut into frames, a cached pointer   *)
(* to the current frame, a stack of return addresses, an array of globals, *)
(* and the parts of these areas the collector takes for roots.             *)
(*                                                                         *)
(* Abstractions.  A value is a reference or Nil.  The body of a function   *)
(* is any sequence of instructions the compiler could emit for it: it      *)
(* loads only variables it has assigned, pops only its own operands and    *)
(* returns with exactly its result.  `acts' records, per activation, what  *)
(* the compiler knows there; the machine never reads it.  What objects     *)
(* refer to, and how a collection proceeds, is MalangGC; here a collection *)
(* is one step that keeps exactly what the roots hold.  Instructions that  *)
(* only differ in how many operands they consume or which non-reference    *)
(* they produce are combinations of Literal, Dup, Swap and Drop.           *)
(***************************************************************************)
EXTENDS Integers, Sequences, FiniteSets, SequencesExt

CONSTANTS
  Fn,           \* the functions of the program
  source,       \* how each is written: the fields below
  Obj, Nil, Unset,
  NGlobals,     \* global variables
  RefGlobals,   \* those of a type the collector manages
  CollectFrom,  \* collections happen once globals_top has got this far
  MaxFrame,     \* bounds the variables of one function
  MaxCalls,     \* bounds the call depth
  MaxData       \* bounds the data stack

Source ==
  [params : Nat,   \* parameters, self included
   decls : Nat,    \* variables declared in it, the parameters among them
   literals : Nat, \* array literals in it
   outer : Nat,    \* variables of the enclosing functions when it starts
   results : 0 .. 1]

ASSUME VMAssumption ==
  /\ "script" \notin Fn
  /\ source \in [Fn -> Source]
  /\ \A f \in Fn : source[f].params <= source[f].decls
  /\ MaxFrame \in Nat
  /\ \A f \in Fn :
       source[f].outer + source[f].decls + source[f].literals <= MaxFrame
  /\ NGlobals \in Nat /\ CollectFrom \in Nat
  /\ RefGlobals \subseteq 0 .. (NGlobals - 1)
  /\ MaxCalls \in Nat /\ MaxData \in Nat
  /\ Nil \notin Obj /\ Unset \notin Obj \cup {Nil}

Value == Obj \cup {Nil}
Global == 0 .. (NGlobals - 1)
Code == Fn \cup {"script"}

-----------------------------------------------------------------------------
(* The code of a function.                                                 *)

\* cur_locals_count, which counts declarations and is not reset for a
\* function inside another
LocalsToAllocate(f) == source[f].outer + source[f].decls
Leaves(f) == f # "script" /\ LocalsToAllocate(f) > 0

\* the slots of its symbols: an array literal has one too, which is not counted
SlotsOf(f) == 0 .. (source[f].decls + source[f].literals - 1)

\* the instructions before the body: Alloc_Locals, then a store per parameter
Prologue(f) == source[f].params + (IF Leaves(f) THEN 1 ELSE 0)

\* the part of the locals array the instance can use
NLocals == MaxCalls * MaxFrame + MaxData
Slot == 0 .. NLocals
VarSlot == 0 .. (MaxFrame - 1)

VARIABLES
  ip,            \* the function that runs, with the prologue it has left
  data,          \* data_stack, up to data_top
  locals, locals_top, locals_frames,
  fast_locals,   \* the cached current_locals()
  call_frames,
  globals, globals_top,
  alive,         \* the objects that exist
  acts           \* per activation: where its operands begin, what it assigned

frameVars == <<locals_top, locals_frames, fast_locals>>
globalVars == <<globals, globals_top>>
vars == <<ip, data, locals, frameVars, call_frames, globalVars, alive, acts>>

Activation == [fn : Code, base : Nat, assigned : SUBSET VarSlot]

TypeOK ==
  /\ ip \in [fn : Code, left : Nat]
  /\ data \in Seq(Value)
  /\ locals \in [Slot -> Value]
  /\ locals_top \in Slot
  /\ locals_frames \in Seq(Slot)
  /\ fast_locals \in Slot
  /\ call_frames \in Seq(Code)
  /\ globals \in [Global -> Value]
  /\ globals_top \in Nat
  /\ alive \subseteq Obj
  /\ acts \in Seq(Activation)

Init ==
  /\ ip = [fn |-> "script", left |-> 0]
  /\ data = <<>>
  /\ locals = [s \in Slot |-> Nil]
  /\ locals_top = 0
  /\ locals_frames = <<>>
  /\ fast_locals = 0
  /\ call_frames = <<>>
  /\ globals = [g \in Global |-> Nil]
  /\ globals_top = 0
  /\ alive = {}
  /\ acts = <<[fn |-> "script", base |-> 0, assigned |-> {}]>>

Act == acts[Len(acts)]
Own == Len(data) - Act.base
InBody == ip.left = 0
DataBound == Len(data) < MaxData

-----------------------------------------------------------------------------
(* Operands.                                                               *)
Operate(ops) ==
  /\ InBody
  /\ data' = ops
  /\ UNCHANGED <<ip, locals, frameVars, call_frames, globalVars, alive, acts>>

Literal == DataBound /\ Operate(Append(data, Nil))
Dup_1 == DataBound /\ Own >= 1 /\ Operate(Append(data, Last(data)))
Drop_1 == Own >= 1 /\ Operate(Front(data))
Swap_1 ==
  /\ Own >= 2
  /\ LET n == Len(data)
     IN Operate([data EXCEPT ![n] = data[n - 1], ![n - 1] = data[n]])

-----------------------------------------------------------------------------
(* Variables.                                                              *)
Load_Local(s) ==
  /\ DataBound
  /\ s \in Act.assigned
  /\ Operate(Append(data, locals[fast_locals + s]))

StoreTop(s) ==
  /\ locals' = [locals EXCEPT ![fast_locals + s] = Last(data)]
  /\ data' = Front(data)
  /\ acts' = [acts EXCEPT ![Len(acts)].assigned = @ \cup {s}]
  /\ UNCHANGED <<frameVars, call_frames, globalVars, alive>>

Store_Local(s) ==
  /\ InBody /\ Own >= 1
  /\ ip.fn # "script" /\ s \in SlotsOf(ip.fn)
  /\ StoreTop(s)
  /\ UNCHANGED ip

\* arguments are pushed from left to right, so they are stored from the last
StoreArgument ==
  /\ ip.fn # "script" /\ ip.left \in 1 .. source[ip.fn].params
  /\ StoreTop(ip.left - 1)
  /\ ip' = [ip EXCEPT !.left = @ - 1]

Load_Global(g) == DataBound /\ Operate(Append(data, globals[g]))

Store_Global(g) ==
  /\ InBody /\ Own >= 1
  /\ Last(data) = Nil \/ g \in RefGlobals
  /\ globals' = [globals EXCEPT ![g] = Last(data)]
  /\ globals_top' = IF g > globals_top THEN g ELSE globals_top
  /\ data' = Front(data)
  /\ UNCHANGED <<ip, locals, frameVars, call_frames, alive, acts>>

-----------------------------------------------------------------------------
(* Calls.  Call_Dyn takes the function from the data stack first.          *)
CallBound == Len(call_frames) < MaxCalls

Enter(f, operands) ==
  /\ InBody /\ CallBound
  /\ Own >= source[f].params + Len(data) - Len(operands)
  /\ data' = operands
  /\ call_frames' = Append(call_frames, ip.fn)
  /\ ip' = [fn |-> f, left |-> Prologue(f)]
  /\ acts' = Append(acts, [fn |-> f, base |-> Len(operands) - source[f].params,
                           assigned |-> {}])
  /\ UNCHANGED <<locals, frameVars, globalVars, alive>>

Call(f) == Enter(f, data)
Call_Dyn(f) == Own >= 1 /\ Last(data) = Nil /\ Enter(f, Front(data))

\* a frame that begins at the new top, not at the old one
Alloc_LocalsAbove ==
  /\ Leaves(ip.fn) /\ ip.left = Prologue(ip.fn)
  /\ locals_top' = locals_top + LocalsToAllocate(ip.fn)
  /\ locals_frames' = Append(locals_frames, locals_top')
  /\ fast_locals' = locals_top'
  /\ ip' = [ip EXCEPT !.left = @ - 1]
  /\ UNCHANGED <<data, locals, call_frames, globalVars, alive, acts>>

Alloc_Locals ==
  /\ Leaves(ip.fn) /\ ip.left = Prologue(ip.fn)
  /\ locals_frames' = Append(locals_frames, locals_top)
  /\ locals_top' = locals_top + LocalsToAllocate(ip.fn)
  /\ fast_locals' = locals_top
  /\ ip' = [ip EXCEPT !.left = @ - 1]
  /\ UNCHANGED <<data, locals, call_frames, globalVars, alive, acts>>

\* current_locals() reads locals_frames[-1] when there is no frame: the member
\* before the array is data_top
CurrentLocals(frames) == IF frames = <<>> THEN Len(data) ELSE Last(frames)

Leave ==
  /\ InBody /\ ip.fn # "script"
  /\ Own = source[ip.fn].results
  /\ ip' = [fn |-> Last(call_frames), left |-> 0]
  /\ call_frames' = Front(call_frames)
  /\ acts' = Front(acts)
  /\ UNCHANGED <<data, locals, globalVars, alive>>

\* two returns with a bug: one keeps the cached pointer, one keeps the frame
ReturnStale ==
  /\ Leaves(ip.fn)
  /\ Leave
  /\ locals_top' = Last(locals_frames)
  /\ locals_frames' = Front(locals_frames)
  /\ UNCHANGED fast_locals
ReturnKeepTop ==
  /\ Leaves(ip.fn)
  /\ Leave
  /\ locals_frames' = Front(locals_frames)
  /\ fast_locals' = CurrentLocals(locals_frames')
  /\ UNCHANGED locals_top

Return ==
  /\ Leaves(ip.fn)
  /\ Leave
  /\ locals_top' = Last(locals_frames)
  /\ locals_frames' = Front(locals_frames)
  /\ fast_locals' = CurrentLocals(locals_frames')

Return_Fast == ~Leaves(ip.fn) /\ Leave /\ UNCHANGED frameVars

-----------------------------------------------------------------------------
(* Objects.                                                                *)
\* a scan that misses the top of the data stack
RootsBelowTop ==
  {globals[g] : g \in {h \in Global : h < globals_top}}
  \cup {locals[s] : s \in {t \in Slot : t < locals_top}}
  \cup {data[i] : i \in 1 .. Len(data) - 1}

\* what mark() scans
Roots ==
  {globals[g] : g \in {h \in Global : h < globals_top}}
  \cup {locals[s] : s \in {t \in Slot : t < locals_top}}
  \cup {data[i] : i \in 1 .. Len(data)}

MayCollect == globals_top >= CollectFrom

\* gc_run
Collect ==
  /\ InBody /\ MayCollect
  /\ alive' = alive \cap Roots
  /\ UNCHANGED <<ip, data, locals, frameVars, call_frames, globalVars, acts>>

\* Alloc_Object, Array_New, Buffer_New: the collection, when one is due, runs
\* before the new object is on the stack
New(o, collects) ==
  /\ InBody /\ DataBound
  /\ collects => MayCollect
  /\ LET kept == IF collects THEN alive \cap Roots ELSE alive
     IN o \notin kept /\ alive' = kept \cup {o}
  /\ data' = Append(data, o)
  /\ UNCHANGED <<ip, locals, frameVars, call_frames, globalVars, acts>>

-----------------------------------------------------------------------------
Next ==
  \/ Literal \/ Dup_1 \/ Drop_1 \/ Swap_1
  \/ \E s \in VarSlot : Load_Local(s) \/ Store_Local(s)
  \/ StoreArgument
  \/ \E g \in Global : Load_Global(g) \/ Store_Global(g)
  \/ \E f \in Fn : Call(f) \/ Call_Dyn(f)
  \/ Alloc_Locals
  \/ Return \/ Return_Fast
  \/ Collect
  \/ \E o \in Obj, collects \in BOOLEAN : New(o, collects)

Spec == Init /\ [][Next]_vars
-----------------------------------------------------------------------------
(* Safety.                                                                 *)

(* The frames tile the locals array: each begins where the one before it   *)
(* ends, locals_top is the end of the last one, the cached pointer is its  *)
(* beginning, and the functions that own them, with their return           *)
(* addresses, are the activations under way (vm.cpp:750-769, 991-1000).    *)
Framed == {i \in 1 .. Len(acts) :
             /\ Leaves(acts[i].fn)
             /\ i = Len(acts) => ip.left < Prologue(ip.fn)}
FrameNo(i) == Cardinality({j \in Framed : j <= i})
FrameEnd(i) == locals_frames[FrameNo(i)] + LocalsToAllocate(acts[i].fn)
NextFrame(i) ==
  IF FrameNo(i) < Len(locals_frames) THEN locals_frames[FrameNo(i) + 1] ELSE locals_top

FramesTile ==
  /\ Len(locals_frames) = Cardinality(Framed)
  /\ \A i \in Framed : FrameEnd(i) = NextFrame(i)
  /\ locals_frames # <<>> =>
       locals_frames[1] = 0 /\ fast_locals = Last(locals_frames)
  /\ Len(call_frames) = Len(acts) - 1
  /\ \A i \in 1 .. Len(call_frames) : call_frames[i] = acts[i].fn
  /\ ip.fn = Act.fn

(* Nothing the program can still use is collected: its operands, the       *)
(* variables it has assigned in every activation under way, and the        *)
(* globals all hold objects that exist (gc.cpp:143-160 scans exactly what  *)
(* vm.cpp keeps in use).                                                   *)
FrameBase(i) == IF FrameNo(i) = 0 THEN fast_locals ELSE locals_frames[FrameNo(i)]
Assigned(i) == {locals[FrameBase(i) + s] : s \in acts[i].assigned}
LocalsAlive ==
  (UNION {Assigned(i) : i \in 1 .. Len(acts)}) \cup Range(data) \subseteq alive \cup {Nil}
GlobalsAlive == {globals[g] : g \in Global} \subseteq alive \cup {Nil}
HeldAlive == LocalsAlive /\ GlobalsAlive

(* A collection marks only objects that exist: every root is one, or no    *)
(* reference (the assertion header.free == false of object.cpp:24).        *)
RootsExist == InBody /\ MayCollect => Roots \subseteq alive \cup {Nil}

(* The machine gives every activation its own variables and operands, and  *)
(* the collector respects them.  Until the prologue has stored them, the   *)
(* arguments are the operands the callee begins with.                      *)
ArgumentsLeft == IF ip.left <= source[ip.fn].params THEN ip.left ELSE source[ip.fn].params
OperandEnd(i) == IF i < Len(acts) THEN acts[i + 1].base ELSE Len(data)
Waiting(i) == IF i = Len(acts) /\ ip.fn # "script" THEN ArgumentsLeft ELSE 0
Var(i, s) ==
  IF s < Waiting(i) THEN data[acts[i].base + s + 1]
  ELSE IF s \in acts[i].assigned THEN locals[FrameBase(i) + s] ELSE Unset

Variables(i) == [s \in VarSlot |-> Var(i, s)]
Operands(i) == SubSeq(data, acts[i].base + Waiting(i) + 1, OperandEnd(i))
Activations ==
  [i \in 1 .. Len(acts) |->
     [fn |-> acts[i].fn, vars |-> Variables(i), operands |-> Operands(i)]]

Stack == INSTANCE CallStack WITH
  params <- [f \in Fn |-> source[f].params],
  results <- [f \in Fn |-> source[f].results],
  NSlots <- MaxFrame,
  acts <- Activations
ImplementsCallStack == Stack!Spec
=============================================================================
