---------------------------- MODULE MalangVMInv ----------------------------
(***************************************************************************)
(* The inductive invariant of MalangVM, in named parts, and what a program *)
(* has to satisfy for the machine to keep its variables alive.  TLC checks *)
(* IInv on a small instance that satisfies them.                           *)
(***************************************************************************)
EXTENDS MalangVM

\* No array literal takes a slot that Alloc_Locals does not count
\* (ast_to_ir.cpp:1686); every global that is a reference is below globals_top
\* when a collection runs (gc.cpp:143).  Without them the machine is wrong.
CountedSlots == \A f \in Fn : source[f].literals = 0
GlobalsScanned == \A g \in RefGlobals : g < CollectFrom

\* the stack of return addresses and the activations say the same
CallsAgree ==
  /\ Len(acts) \in 1 .. (MaxCalls + 1)
  /\ Len(call_frames) = Len(acts) - 1
  /\ \A i \in 1 .. Len(call_frames) : call_frames[i] = acts[i].fn
  /\ \A i \in 1 .. Len(acts) : acts[i].fn = "script" <=> i = 1
  /\ ip.fn = Act.fn

\* the operands of the activations lie one above the other; an argument that
\* the prologue has not stored is still one of the callee's
OperandsNest ==
  /\ Len(data) <= MaxData
  /\ \A i, j \in 1 .. Len(acts) : i < j => acts[i].base <= acts[j].base
  /\ \A i \in 1 .. Len(acts) : acts[i].base <= Len(data)
  /\ ip.fn = "script" => ip.left = 0
  /\ ip.left > 0 => ip.left <= Prologue(ip.fn) /\ Own = ArgumentsLeft

\* only variables of the function are assigned, once its frame is there
AssignedOwn ==
  \A i \in 1 .. Len(acts) :
    /\ acts[i].fn = "script" => acts[i].assigned = {}
    /\ acts[i].fn # "script" => acts[i].assigned \subseteq SlotsOf(acts[i].fn)
    /\ Leaves(acts[i].fn) /\ i \notin Framed => acts[i].assigned = {}

\* where the frames lie, each after all those below it
FramesApart ==
  /\ \A i, j \in Framed : i < j => FrameEnd(i) <= locals_frames[FrameNo(j)]
  /\ \A i \in Framed : FrameEnd(i) <= locals_top

FramesFit ==
  /\ \A k \in 1 .. Len(locals_frames) : locals_frames[k] <= (k - 1) * MaxFrame
  /\ locals_top <= Len(locals_frames) * MaxFrame
  /\ locals_frames = <<>> => locals_top = 0 /\ fast_locals <= MaxData

\* Calls, operands, frames and variables of the activations fit together: a
\* return finds below it the frame and the operands its caller left, whatever
\* was called in between (vm.hpp:94-106).
IInv ==
  /\ TypeOK
  /\ CallsAgree
  /\ OperandsNest
  /\ FramesTile
  /\ AssignedOwn
  /\ FramesApart
  /\ FramesFit

\* what is alive, for programs that satisfy the two conditions
OnlyRefGlobals == \A g \in Global \ RefGlobals : globals[g] = Nil
LiveIInv == OnlyRefGlobals /\ HeldAlive
=============================================================================
