------------------------------ MODULE StackMap ------------------------------
(***************************************************************************)
(* What the machine takes for granted of the code it is given.  vm.cpp     *)
(* checks neither addresses nor the depth of a stack while it runs         *)
(* (vm.cpp:454-503, vm.hpp:134-152), so the code has to be such that an    *)
(* instruction finds the same operands whichever way control comes to it.  *)
(* A stack map writes this down.  before[a] is                             *)
(*   [fn, depth, framed]: the entry of the function that a belongs to,     *)
(*      how many operands the activation has there, and whether it has     *)
(*      allocated its frame,                                               *)
(* for every address a that is reached, and fns[e] is                      *)
(*   [args, results, slots]: of the function that is entered at e.  The    *)
(*      statements of the program are the function at 0.                   *)
(* Interpreter_proofs says what the machine does with code that has one.   *)
(***************************************************************************)
EXTENDS Interpreter

CONSTANTS StackMapOf(_)       \* [before, fns], of a program

Reached == DOMAIN StackMapOf(prog).before
Before(a) == StackMapOf(prog).before[a]
Main == 0
FnEntries == DOMAIN StackMapOf(prog).fns \ {Main}
Function(e) == StackMapOf(prog).fns[e]

\* The activation goes on at b, with d operands.
Flows(a, b, d, framed) ==
    /\ b \in Reached
    /\ Before(b) = [fn |-> Before(a).fn, depth |-> d, framed |-> framed]

\* The next instruction finds n operands less and m more.
Steps(a, n, m) ==
    /\ n <= Before(a).depth
    /\ Flows(a, code[a].next, Before(a).depth - n + m, Before(a).framed)

MapTyped ==
    /\ Reached \subseteq DOMAIN code
    /\ \A a \in Reached :
          /\ Before(a).fn \in FnEntries \cup {Main}
          /\ Before(a).depth \in Nat
          /\ Before(a).framed \in BOOLEAN
    /\ \A e \in FnEntries \cup {Main} :
          Function(e).args \in Nat /\ Function(e).results \in Nat /\ Function(e).slots \in Nat

\* The statements begin with nothing, a function with its arguments.
EntriesMapped ==
    /\ Main \in Reached /\ Before(Main) = [fn |-> Main, depth |-> 0, framed |-> FALSE]
    /\ \A e \in FnEntries :
          /\ e \in Reached
          /\ Before(e) = [fn |-> e, depth |-> Function(e).args, framed |-> FALSE]

\* Operands and operators: how many operands an instruction takes and leaves.
Effect(ins) ==
    CASE ins.op \in {"Literal", "Load_String_Constant", "Load_Local", "Load_Global",
                     "Alloc_Object"} -> <<0, 1>>
      [] ins.op = "Dup_1" -> <<1, 2>>
      [] ins.op \in {"Fixnum_Unary", "Array_New", "Buffer_New", "Load_Field",
                     "Array_Length", "Buffer_Length"} -> <<1, 1>>
      [] ins.op \in {"Fixnum", "Array_Load", "Buffer_Load"} -> <<2, 1>>
      [] ins.op \in {"Drop", "Store_Local", "Store_Global"} -> <<1, 0>>
      [] ins.op = "Store_Field" -> <<2, 0>>
      [] ins.op \in {"Array_Store", "Buffer_Store"} -> <<3, 0>>
      [] ins.op = "Call_Native" -> IF ins.arg[1] = "Plus" THEN <<2, 1>> ELSE <<1, 0>>
      [] OTHER -> <<>>

\* With nothing left, the statements may drop what is not theirs.
DropsNothing(a) ==
    code[a].op = "Drop" /\ Before(a).fn = Main /\ Before(a).depth = 0 /\ Steps(a, 0, 0)

StraightMapped(a) ==
    Effect(code[a]) # <<>> =>
        Steps(a, Effect(code[a])[1], Effect(code[a])[2]) \/ DropsNothing(a)

PopBranches == {"Pop_Branch_If_True", "Pop_Branch_If_False"}
BranchesOrPops == {"Branch_If_True_Or_Pop", "Branch_If_False_Or_Pop"}

BranchesMapped(a) ==
    LET op == code[a].op
        depth == Before(a).depth
        to(d) == Flows(a, a + code[a].arg, d, Before(a).framed)
    IN  /\ op = "Branch" => to(depth)
        /\ op \in PopBranches => Steps(a, 1, 0) /\ to(depth - 1)
        /\ op \in BranchesOrPops => Steps(a, 1, 0) /\ to(depth)

\* A call with n operands besides the arguments.
Calls(a, n, f) == Steps(a, f.args + n, f.results)

CallsMapped(a) ==
    LET op == code[a].op
        own == Function(Before(a).fn)
    IN  /\ op = "Call" => code[a].arg \in FnEntries /\ Calls(a, 0, Function(code[a].arg))
        /\ op = "Call_Dyn" => Calls(a, 1, code[a].arg)
        /\ op = "Alloc_Locals" =>
              /\ Before(a).fn # Main /\ ~Before(a).framed
              /\ code[a].arg = own.slots
              /\ Flows(a, code[a].next, Before(a).depth, TRUE)
        /\ op \in {"Return", "Return_Fast"} =>
              /\ Before(a).fn # Main
              /\ Before(a).framed = (op = "Return")
              /\ Before(a).depth = own.results
        /\ op \in {"Load_Local", "Store_Local"} => Before(a).framed /\ code[a].arg \in 0 .. own.slots - 1
        /\ op = "Halt" =>
              Before(a) = [fn |-> Main, depth |-> 0, framed |-> FALSE]

\* Each address reached has the same operands before it on all ways to it,
\* calls find their arguments and returns leave their results, slots lie in
\* the frame that the prologue allocates, and all is taken off at the end.
CodeMapped ==
    status = "running" =>
        /\ MapTyped /\ EntriesMapped
        /\ \A a \in Reached : StraightMapped(a) /\ BranchesMapped(a) /\ CallsMapped(a)

\* What is called by value is a function of the type its callers compiled for.
CalleesMapped ==
    Running({"Call_Dyn"}) =>
        /\ Top(0)[2] \in FnEntries
        /\ Function(Top(0)[2]).args = Instr.arg.args
        /\ Function(Top(0)[2]).results = Instr.arg.results

\* What a program has to satisfy for the theorems about the machine: there is
\* a stack map for the code that IR_To_Code emits (ir_to_code.cpp:907-915), and
\* a function value leads to code that takes and leaves what its type says.
WellMapped == CodeMapped /\ CalleesMapped

\* The same of a run, step by step: it begins before there is any code.
StaysWellMapped == [][WellMapped']_vars
-----------------------------------------------------------------------------
(* What the machine relies on without a check.                             *)

\* Neither a branch, a call nor a return leads into the middle of an
\* instruction, or out of the code; one returns to where a call was made.
OnInstructions ==
    status = "running" =>
        /\ ip \in DOMAIN code
        /\ \A r \in ToSet(call_frames) :
              \E a \in DOMAIN code : code[a].op \in {"Call", "Call_Dyn"} /\ code[a].next = r

\* The kinds of operand an instruction reads without looking, the last
\* pushed first.
Kinds == {"int", "string", "ref", "fresh"}
Stored == Kinds \ {"fresh"}
Reads ==
    CASE Instr.op = "Fixnum" -> <<{"int"}, {"int"}>>
      [] Instr.op \in {"Array_Load", "Buffer_Load"} -> <<{"int"}, {"ref"}>>
      [] Instr.op = "Array_Store" -> <<Stored, {"int"}, {"ref"}>>
      [] Instr.op = "Buffer_Store" -> <<{"int"}, {"int"}, {"ref"}>>
      [] Instr.op \in (PopBranches \cup BranchesOrPops)
             \cup {"Fixnum_Unary", "Call_Dyn", "Array_New", "Buffer_New"} -> <<{"int"}>>
      [] Instr.op \in {"Load_Field", "Array_Length", "Buffer_Length"} -> <<{"ref"}>>
      [] Instr.op = "Store_Field" -> <<{"ref"}, Stored>>
      [] Instr.op \in {"Store_Local", "Store_Global", "Dup_1"} -> <<Stored>>
      [] OTHER -> <<>>

\* What an instruction reads has been pushed: peek_data and pop_data never
\* look below the stack.
OperandsThere == status = "running" => Len(Reads) <= Len(data)

\* A function reads and writes variables only in the frame it allocated.
LocalsInFrame ==
    Running({"Load_Local", "Store_Local"}) => fast_locals + Instr.arg < locals_top

\* When the program ends, the stacks are as they were when it began.
StacksEmptied ==
    status = "halted" =>
        data = <<>> /\ call_frames = <<>> /\ locals_frames = <<>> /\ locals_top = 0

\* A step leaves alone what the activations before its own have pushed.
CallersKept ==
    \A k \in 1 .. Len(data) - Before(ip).depth : k \in DOMAIN data' /\ data'[k] = data[k]
CallersUntouched == [][status = "running" /\ status' = "running" => CallersKept]_vars
=============================================================================
