----------------------------- MODULE CallStack ------------------------------
(***************************************************************************)
(* What a malang program is entitled to when functions call each other and *)
(* objects come and go: every activation of a function has variables and   *)
(* operands of its own, which nobody else touches; the arguments of a call *)
(* are the first variables of the callee; its result arrives on top of the *)
(* caller's operands; the collector takes only objects that no variable,   *)
(* operand or global holds.  A value is a reference to an object, or Nil   *)
(* for anything else.                                                      *)
(***************************************************************************)
EXTENDS Integers, Sequences, SequencesExt

CONSTANTS
  Fn,       \* the functions of the program
  params,   \* how many arguments each takes
  results,  \* how many values each returns, 0 or 1
  NSlots,   \* variables an activation may have
  NGlobals, \* global variables
  Obj,      \* the identities of objects
  Nil,      \* any value that is not a reference
  Unset     \* a variable that has not been assigned yet

VARIABLES
  acts,     \* the activations, the running one last
  globals,
  alive     \* the objects that exist

vars == <<acts, globals, alive>>

Value == Obj \cup {Nil}
Slot == 0 .. (NSlots - 1)
Global == 0 .. (NGlobals - 1)

Running == acts[Len(acts)]
Operands == Running.operands
Become(a) == acts' = [acts EXCEPT ![Len(acts)] = a]

Held ==
  (UNION {{acts[i].vars[s] : s \in Slot} \cup Range(acts[i].operands) :
            i \in 1 .. Len(acts)})
  \cup {globals[g] : g \in Global}

Init ==
  /\ acts = <<[fn |-> "script", vars |-> [s \in Slot |-> Unset], operands |-> <<>>]>>
  /\ globals = [g \in Global |-> Nil]
  /\ alive = {}

Push(v) == Become([Running EXCEPT !.operands = Append(@, v)])

Compute(ops) ==
  /\ Become([Running EXCEPT !.operands = ops])
  /\ UNCHANGED <<globals, alive>>
Literal == Compute(Append(Operands, Nil))
Dup == Operands # <<>> /\ Compute(Append(Operands, Last(Operands)))
Drop == Operands # <<>> /\ Compute(Front(Operands))
Swap ==
  /\ Len(Operands) >= 2
  /\ LET n == Len(Operands)
     IN Compute([Operands EXCEPT ![n] = Operands[n - 1], ![n - 1] = Operands[n]])

LoadLocal(s) ==
  /\ Running.vars[s] # Unset
  /\ Push(Running.vars[s])
  /\ UNCHANGED <<globals, alive>>

StoreLocal(s) ==
  /\ Operands # <<>>
  /\ Become([Running EXCEPT !.operands = Front(@), !.vars[s] = Last(Operands)])
  /\ UNCHANGED <<globals, alive>>

LoadGlobal(g) == Push(globals[g]) /\ UNCHANGED <<globals, alive>>

StoreGlobal(g) ==
  /\ Operands # <<>>
  /\ globals' = [globals EXCEPT ![g] = Last(Operands)]
  /\ Become([Running EXCEPT !.operands = Front(@)])
  /\ UNCHANGED alive

\* a call consumes the arguments, and the function value if it is computed
Call(f, extra) ==
  /\ Len(Operands) >= params[f] + extra
  /\ LET rest == Len(Operands) - params[f] - extra
         Arg(s) == IF s < params[f] THEN Operands[rest + s + 1] ELSE Unset
     IN acts' = Append([acts EXCEPT ![Len(acts)].operands = SubSeq(@, 1, rest)],
                       [fn |-> f, vars |-> [s \in Slot |-> Arg(s)],
                        operands |-> <<>>])
  /\ UNCHANGED <<globals, alive>>

Return ==
  /\ Len(acts) > 1
  /\ Len(Operands) = results[Running.fn]
  /\ acts' = [Front(acts) EXCEPT ![Len(acts) - 1].operands = @ \o Operands]
  /\ UNCHANGED <<globals, alive>>

Collect(keep) ==
  /\ keep \subseteq alive
  /\ alive \cap Held \subseteq keep
  /\ alive' = keep
  /\ UNCHANGED <<acts, globals>>

New(keep, o) ==
  /\ keep \subseteq alive
  /\ alive \cap Held \subseteq keep
  /\ o \notin keep
  /\ alive' = keep \cup {o}
  /\ Push(o)
  /\ UNCHANGED globals

Next ==
  \/ Literal \/ Dup \/ Drop \/ Swap
  \/ \E s \in Slot : LoadLocal(s) \/ StoreLocal(s)
  \/ \E g \in Global : LoadGlobal(g) \/ StoreGlobal(g)
  \/ \E f \in Fn, extra \in {0, 1} : Call(f, extra)
  \/ Return
  \/ \E keep \in SUBSET Obj : Collect(keep) \/ \E o \in Obj : New(keep, o)

Spec == Init /\ [][Next]_vars
=============================================================================
