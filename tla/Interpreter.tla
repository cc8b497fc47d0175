---------------------------- MODULE Interpreter ----------------------------
(***************************************************************************)
(* A program compiled and run: Compiled gives the code (see Compile),      *)
(* vm.cpp executes it, one instruction a step.                             *)
(*                                                                         *)
(* A value carries its kind: <<"int", 3>>, <<"ref", 1>> for the first      *)
(* object made, <<"string", "s">>, and Fresh for a slot nothing was stored *)
(* in.  The machine does not look at kinds; OperandsFit says that it need  *)
(* not.  Booleans and functions are numbers.  Numbers stay far from 32     *)
(* bits, shifts are by small positive amounts and divisors are not zero in *)
(* the programs given.  Objects stay alive: MalangGC is about that.        *)
(***************************************************************************)
EXTENDS Integers, SequencesExt

CONSTANTS Names,        \* of the programs
          Compiled(_)   \* [rejected, code]: what parse_to_code makes of one; code
                        \* is a function from addresses to [op, arg, at, next]

VARIABLES
  prog,
  code,         \* the instructions, by address
  status,       \* "source", "rejected", "running", "halted" or "panicked"
  ip,
  data, under,  \* data_stack up to data_top; how far below it data_top has been dropped
  locals, locals_top, locals_frames, fast_locals,
  call_frames,
  globals,
  heap,
  out           \* what has been printed

stacks == <<data, under>>
frames == <<locals_top, locals_frames, fast_locals>>
vars == <<prog, code, status, ip, stacks, locals, frames, call_frames, globals, heap, out>>

Fresh == <<"fresh", 0>>
IntV(n) == <<"int", n>>
BoolV(b) == IntV(IF b THEN 1 ELSE 0)
Slot(f, i) == IF i \in DOMAIN f THEN f[i] ELSE Fresh

Init ==
    /\ prog \in Names
    /\ status = "source" /\ code = <<>> /\ ip = 0
    /\ data = <<>> /\ under = 0
    /\ locals = <<>> /\ locals_top = 0 /\ locals_frames = <<>> /\ fast_locals = 0
    /\ call_frames = <<>> /\ globals = <<>> /\ heap = <<>> /\ out = <<>>

\* parse_to_code, and the machine made for the result.
Compile ==
    /\ status = "source"
    /\ \E compiled \in {Compiled(prog)} :
          /\ code' = compiled.code
          /\ status' = IF compiled.rejected THEN "rejected" ELSE "running"
    /\ UNCHANGED <<prog, ip, stacks, locals, frames, call_frames, globals, heap, out>>

-----------------------------------------------------------------------------
Instr == code[ip]
Running(ops) == status = "running" /\ ip \in DOMAIN code /\ Instr.op \in ops

Top(n) == data[Len(data) - n]       \* Top(0) is what was pushed last
Below(n) == SubSeq(data, 1, Len(data) - n)
Goto(a) == ip' = a
Next1 == Goto(Instr.next)

\* An instruction that takes n operands and pushes the given ones.
Operate(n, pushed) ==
    /\ data' = Below(n) \o pushed
    /\ Next1
    /\ UNCHANGED <<prog, code, status, under, frames, call_frames>>

Pure == UNCHANGED <<locals, globals, heap, out>>

\* Division and remainder as the processor does them.
Abs(n) == IF n < 0 THEN -n ELSE n
Quotient(a, b) == IF (a < 0) = (b < 0) THEN Abs(a) \div Abs(b) ELSE -(Abs(a) \div Abs(b))

\* On numbers that are not negative, bit by bit.
BitByBit(op, a, b) ==
    LET ones(i) == ((a \div 2 ^ i) % 2) + ((b \div 2 ^ i) % 2)
        set(i) == ones(i) \in (CASE op = "Bit_And" -> {2}
                                 [] op = "Bit_Or" -> {1, 2}
                                 [] op = "Bit_Xor" -> {1})
    IN  MapThenSumSet(LAMBDA i : 2 ^ i, {i \in 0 .. 30 : set(i)})

Arith(op, a, b) ==
    CASE op = "Plus" -> IntV(a + b)
      [] op = "Minus" -> IntV(a - b)
      [] op = "Star" -> IntV(a * b)
      [] op = "Slash" -> IntV(Quotient(a, b))
      [] op = "Mod" -> IntV(a - b * Quotient(a, b))
      [] op \in {"Bit_And", "Bit_Or", "Bit_Xor"} -> IntV(BitByBit(op, a, b))
      [] op = "L_Shift" -> IntV(a * 2 ^ b)
      [] op = "R_Shift" -> IntV(a \div 2 ^ b)
      [] op = "Equals_Equals" -> BoolV(a = b)
      [] op = "Not_Equals" -> BoolV(a # b)
      [] op = "Less" -> BoolV(a < b)
      [] op = "Less_Equals" -> BoolV(a <= b)
      [] op = "Greater" -> BoolV(a > b)
      [] op = "Greater_Equals" -> BoolV(a >= b)

-----------------------------------------------------------------------------
(* Operands and operators.                                                 *)
Literal ==
    /\ Running({"Literal", "Load_String_Constant"})
    /\ Operate(0, <<IF Instr.op = "Literal" THEN IntV(Instr.arg) ELSE <<"string", Instr.arg>> >>)
    /\ Pure

Dup_1 == Running({"Dup_1"}) /\ Operate(1, <<Top(0), Top(0)>>) /\ Pure

\* data_top -= 1, whatever lies there.
Drop ==
    /\ Running({"Drop"})
    /\ IF data = <<>> THEN data' = data /\ under' = under + 1
       ELSE data' = Below(1) /\ under' = under
    /\ Next1
    /\ UNCHANGED <<prog, code, status, frames, call_frames>>
    /\ Pure

Fixnum_Op ==
    /\ Running({"Fixnum"})
    /\ Operate(2, <<Arith(Instr.arg, Top(1)[2], Top(0)[2])>>)
    /\ Pure

Fixnum_Unary ==
    /\ Running({"Fixnum_Unary"})
    /\ Operate(1, <<IntV(IF Instr.arg = "Minus" THEN -Top(0)[2] ELSE -Top(0)[2] - 1)>>)
    /\ Pure

-----------------------------------------------------------------------------
(* Branches.                                                               *)
BranchFromNext(taken, n) ==     \* a seeded bug: relative to the next instruction
    /\ data' = Below(n)
    /\ Goto(IF taken THEN Instr.next + Instr.arg ELSE Instr.next)
    /\ UNCHANGED <<prog, code, status, under, frames, call_frames>>
    /\ Pure

BranchTo(taken, n) ==
    /\ data' = Below(n)
    /\ Goto(IF taken THEN ip + Instr.arg ELSE Instr.next)
    /\ UNCHANGED <<prog, code, status, under, frames, call_frames>>
    /\ Pure

True == Top(0)[2] # 0
Branch == Running({"Branch"}) /\ BranchTo(TRUE, 0)
Pop_BranchKeeps ==      \* a seeded bug: the condition stays
    /\ Running({"Pop_Branch_If_True", "Pop_Branch_If_False"})
    /\ BranchTo(True = (Instr.op = "Pop_Branch_If_True"), 0)
Pop_Branch ==
    /\ Running({"Pop_Branch_If_True", "Pop_Branch_If_False"})
    /\ BranchTo(True = (Instr.op = "Pop_Branch_If_True"), 1)
Branch_Or_Pop ==
    /\ Running({"Branch_If_True_Or_Pop", "Branch_If_False_Or_Pop"})
    /\ LET taken == True = (Instr.op = "Branch_If_True_Or_Pop")
       IN  BranchTo(taken, IF taken THEN 0 ELSE 1)

-----------------------------------------------------------------------------
(* Calls and frames.                                                       *)
Call ==
    /\ Running({"Call", "Call_Dyn"})
    /\ Goto(IF Instr.op = "Call" THEN Instr.arg ELSE Top(0)[2])
    /\ data' = Below(IF Instr.op = "Call" THEN 0 ELSE 1)
    /\ call_frames' = Append(call_frames, Instr.next)
    /\ UNCHANGED <<prog, code, status, under, frames>>
    /\ Pure

Alloc_LocalsDown ==     \* a seeded bug: frames grow the other way
    /\ Running({"Alloc_Locals"})
    /\ locals_frames' = Append(locals_frames, locals_top)
    /\ locals_top' = locals_top - Instr.arg
    /\ fast_locals' = locals_top
    /\ Next1
    /\ UNCHANGED <<prog, code, status, stacks, call_frames>>
    /\ Pure

Alloc_Locals ==
    /\ Running({"Alloc_Locals"})
    /\ locals_frames' = Append(locals_frames, locals_top)
    /\ locals_top' = locals_top + Instr.arg
    /\ fast_locals' = locals_top
    /\ Next1
    /\ UNCHANGED <<prog, code, status, stacks, call_frames>>
    /\ Pure

\* Below the outermost frame lies nothing of the program's: 0 stands for it.
Return ==
    /\ Running({"Return"})
    /\ locals_top' = Last(locals_frames)
    /\ locals_frames' = Front(locals_frames)
    /\ fast_locals' = IF locals_frames' = <<>> THEN 0 ELSE Last(locals_frames')
    /\ Goto(Last(call_frames)) /\ call_frames' = Front(call_frames)
    /\ UNCHANGED <<prog, code, status, stacks>>
    /\ Pure

Return_Fast ==
    /\ Running({"Return_Fast"})
    /\ Goto(Last(call_frames)) /\ call_frames' = Front(call_frames)
    /\ UNCHANGED <<prog, code, status, stacks, frames>>
    /\ Pure

\* println, and the one operator that is native here.
Call_Native ==
    /\ Running({"Call_Native"})
    /\ LET name == Instr.arg[1]
           params == Instr.arg[2]
       IN  \/ /\ name = "println"
              /\ out' = Append(out, <<params[1].path[1], Top(0)[2]>>)
              /\ Operate(1, <<>>)
           \/ /\ name = "Plus"    \* of two strings
              /\ \A i \in {1, 2} : params[i].path = <<"string">>
              /\ Operate(2, << <<"string", Top(1)[2] \o Top(0)[2]>> >>)
              /\ UNCHANGED out
    /\ UNCHANGED <<locals, globals, heap>>

-----------------------------------------------------------------------------
(* Variables.                                                              *)
Load ==
    /\ Running({"Load_Local", "Load_Global"})
    /\ Operate(0, <<IF Instr.op = "Load_Local" THEN Slot(locals, fast_locals + Instr.arg)
                    ELSE Slot(globals, Instr.arg)>>)
    /\ Pure

Store_Local ==
    /\ Running({"Store_Local"})
    /\ locals' = (fast_locals + Instr.arg :> Top(0)) @@ locals
    /\ Operate(1, <<>>)
    /\ UNCHANGED <<globals, heap, out>>

Store_Global ==
    /\ Running({"Store_Global"})
    /\ globals' = (Instr.arg :> Top(0)) @@ globals
    /\ Operate(1, <<>>)
    /\ UNCHANGED <<locals, heap, out>>

-----------------------------------------------------------------------------
(* Objects, arrays and buffers.                                            *)
Allocate(size, popped, fill) ==
    /\ heap' = Append(heap, [i \in 0 .. size - 1 |-> fill])
    /\ Operate(popped, << <<"ref", Len(heap) + 1>> >>)
    /\ UNCHANGED <<locals, globals, out>>

Alloc_Object == Running({"Alloc_Object"}) /\ Allocate(Instr.arg, 0, Fresh)
Array_New == Running({"Array_New"}) /\ Allocate(Top(0)[2], 1, Fresh)
Buffer_New == Running({"Buffer_New"}) /\ Allocate(Top(0)[2], 1, IntV(0))

Cells(v) == heap[v[2]]

Load_Field ==
    /\ Running({"Load_Field"})
    /\ Operate(1, <<Cells(Top(0))[Instr.arg]>>)
    /\ Pure

Store_Field ==
    /\ Running({"Store_Field"})
    /\ heap' = [heap EXCEPT ![Top(0)[2]][Instr.arg] = Top(1)]
    /\ Operate(2, <<>>)
    /\ UNCHANGED <<locals, globals, out>>

Panic ==
    /\ status' = "panicked"
    /\ UNCHANGED <<prog, code, ip, stacks, locals, frames, call_frames, globals, heap, out>>

Load_Element ==
    /\ Running({"Array_Load", "Buffer_Load"})
    /\ IF Top(0)[2] \in DOMAIN Cells(Top(1))
       THEN Operate(2, <<Cells(Top(1))[Top(0)[2]]>>) /\ Pure
       ELSE Panic

Store_Element ==
    /\ Running({"Array_Store", "Buffer_Store"})
    /\ IF Top(1)[2] \in DOMAIN Cells(Top(2))
       THEN /\ heap' = [heap EXCEPT ![Top(2)[2]][Top(1)[2]] = Top(0)]
            /\ Operate(3, <<>>)
            /\ UNCHANGED <<locals, globals, out>>
       ELSE Panic

Length_Of ==
    /\ Running({"Array_Length", "Buffer_Length"})
    /\ Operate(1, <<IntV(Cardinality(DOMAIN Cells(Top(0))))>>)
    /\ Pure

Halt ==
    /\ Running({"Halt"})
    /\ status' = "halted"
    /\ UNCHANGED <<prog, code, ip, stacks, locals, frames, call_frames, globals, heap, out>>

-----------------------------------------------------------------------------
Step ==
    \/ Literal \/ Dup_1 \/ Drop \/ Fixnum_Op \/ Fixnum_Unary
    \/ Branch \/ Pop_Branch \/ Branch_Or_Pop
    \/ Call \/ Alloc_Locals \/ Return \/ Return_Fast \/ Call_Native
    \/ Load \/ Store_Local \/ Store_Global
    \/ Alloc_Object \/ Array_New \/ Buffer_New \/ Load_Field \/ Store_Field
    \/ Load_Element \/ Store_Element \/ Length_Of
    \/ Halt

Done == status \in {"rejected", "halted", "panicked"} /\ UNCHANGED vars

Next == Compile \/ Step \/ Done

\* Nothing else runs: the machine goes on as long as it can.
Spec == Init /\ [][Next]_vars /\ WF_vars(Compile \/ Step)
=============================================================================
