------------------------------ MODULE Compile ------------------------------
(***************************************************************************)
(* What compiling and running a program must come to: the output that its  *)
(* syntax tree means (MalangMeaning), on a machine whose stack, frames and *)
(* jumps nothing checks while it runs.                                     *)
(***************************************************************************)
EXTENDS MalangCode, StackMap

CONSTANTS Programs      \* [name |-> [ast, declared, ill]]

ProgramNames == DOMAIN Programs
AllCompiled ==
    [p \in DOMAIN Programs |-> Generate(Translate(Programs[p].ast, Programs[p].declared))]
CompiledProgram(p) == AllCompiled[p]

(***************************************************************************)
(* A stack map of the code.  The operands are followed from address to     *)
(* address; a call leads on once a return of the function called has been  *)
(* met.  Whatever comes out, CodeMapped decides whether it is one.         *)
(***************************************************************************)
Entries(is) ==      \* of functions, in the code is
    {a \in DOMAIN is : is[a].op = "Alloc_Locals"}
      \cup {is[a].arg : a \in {b \in DOMAIN is : is[b].op = "Call"}}

RECURSIVE StoresFrom(_, _)
StoresFrom(is, a) ==
    IF is[a].op = "Store_Local" THEN 1 + StoresFrom(is, is[a].next) ELSE 0

\* The prologue allocates the frame and stores the arguments.
FunctionAt(is, e, results) ==
    LET framed == e \in DOMAIN is /\ is[e].op = "Alloc_Locals"
    IN  [args |-> IF framed THEN StoresFrom(is, is[e].next) ELSE 0,
         results |-> IF e \in DOMAIN results THEN results[e] ELSE 0,
         slots |-> IF framed THEN is[e].arg ELSE 0]

\* Where control goes from a, and with what: s is the map so far.
After(is, a, s) ==
    LET ins == is[a]
        m == s.before[a]
        with(n, k) == [m EXCEPT !.depth = @ - n + k]
        target == a + ins.arg
    IN  CASE ins.op = "Drop" /\ m.depth = 0 -> {<<ins.next, m>>}
          [] Effect(ins) # <<>> -> {<<ins.next, with(Effect(ins)[1], Effect(ins)[2])>>}
          [] ins.op = "Branch" -> {<<target, m>>}
          [] ins.op \in PopBranches ->
               {<<ins.next, with(1, 0)>>, <<target, with(1, 0)>>}
          [] ins.op \in BranchesOrPops ->
               {<<ins.next, with(1, 0)>>, <<target, m>>}
          [] ins.op = "Call" /\ ins.arg \in DOMAIN s.results ->
               {<<ins.next, with(FunctionAt(is, ins.arg, <<>>).args, s.results[ins.arg])>>}
          [] ins.op = "Call_Dyn" -> {<<ins.next, with(ins.arg.args + 1, ins.arg.results)>>}
          [] ins.op = "Alloc_Locals" -> {<<ins.next, [m EXCEPT !.framed = TRUE]>>}
          [] OTHER -> {}

\* s.new are the addresses to go on from; a call waits for its function's results.
RECURSIVE Followed(_, _)
Followed(is, s) ==
    LET waiting == {a \in s.new : is[a].op = "Call" /\ is[a].arg \notin DOMAIN s.results}
        returns == {a \in s.new : is[a].op \in {"Return", "Return_Fast"}}
        on == {p \in UNION {After(is, a, s) : a \in s.new} : p[1] \notin DOMAIN s.before}
        reached == {p[1] : p \in on}
        returned == {s.before[a].fn : a \in returns}
    IN  IF s.new = waiting THEN s
        ELSE Followed(is,
              [before |-> s.before @@ [b \in reached |-> (CHOOSE p \in on : p[1] = b)[2]],
               results |-> s.results @@
                  [e \in returned |->
                     s.before[CHOOSE a \in returns : s.before[a].fn = e].depth],
               new |-> (reached \cap DOMAIN is) \cup waiting])

MapOf(is) ==
    LET first(e) == [fn |-> e, depth |-> FunctionAt(is, e, <<>>).args, framed |-> FALSE]
        all == Entries(is) \cup {Main}
        s == Followed(is, [before |-> [e \in all |-> first(e)], results |-> <<>>,
                           new |-> all \cap DOMAIN is])
    IN  [before |-> s.before, fns |-> [e \in all |-> FunctionAt(is, e, s.results)]]

AllMaps == [p \in DOMAIN Programs |-> MapOf(AllCompiled[p].code)]
MapOfProgram(p) == AllMaps[p]

-----------------------------------------------------------------------------
Meanings == INSTANCE MalangMeaning

\* Programs[p].ill: the language forbids p.
Expected ==
    [p \in DOMAIN Programs |-> IF Programs[p].ill THEN <<>>
                               ELSE Meanings!Meaning(Programs[p].ast)]

IllPrograms == {p \in DOMAIN Programs : Programs[p].ill}
NamedFunctions ==
    [p \in DOMAIN Programs |->
        Cardinality({i \in DOMAIN Programs[p].ast.first : Programs[p].ast.first[i].k = "fn"})]

Values == {"string"} \X STRING \cup (Kinds \ {"string"}) \X Int

\* Types, and the shape of the machine.
TypeOK ==
    /\ prog \in DOMAIN Expected
    /\ status \in {"source", "rejected", "running", "halted", "panicked"}
    /\ ip \in Int /\ under \in Nat /\ locals_top \in Nat /\ fast_locals \in Nat
    /\ data \in Seq(Values) /\ out \in Seq(Values \cup {"bool"} \X Int)
    /\ locals_frames \in Seq(Nat) /\ call_frames \in Seq(Int)
    /\ ToSet(globals) \cup ToSet(locals) \subseteq Values

\* The program prints what its statements mean, in that order, nothing else
\* and, when it ends, all of it.
PrintsItsMeaning ==
    /\ IsPrefix(out, Expected[prog])
    /\ status = "halted" => out = Expected[prog]

\* The same of an operator chain with the words of the language in it: the
\* README has `else if two or three and four' among its samples, and
\* examples/tests/bool.ma says of such an if what it must print.
WordsMeanWhatTheySay == status = "halted" => out = Expected[prog]

\* The machine reads operands as numbers or references without a check: what
\* it finds is always there and always of that kind, and a field exists.
OperandsFit ==
    status = "running" =>
        /\ OperandsThere
        /\ \A i \in DOMAIN Reads : Top(i - 1)[1] \in Reads[i]
        /\ Instr.op \in {"Load_Field", "Store_Field"} =>
              Instr.arg \in DOMAIN Cells(Top(0))

\* When the program ends no operand and no frame is left over.  Every named
\* function among the statements has dropped one operand too many.
NothingLeftOver ==
    StacksEmptied /\ (status = "halted" => under = NamedFunctions[prog])

\* What the language forbids is refused before anything runs, and nothing else.
OnlyIllRejected ==
    /\ status \in {"running", "halted", "panicked"} => prog \notin IllPrograms
    /\ status = "rejected" => prog \in IllPrograms

\* Every one of the programs ends: no loop goes back to the wrong place.
Ends == <>(status \in {"rejected", "halted", "panicked"})
=============================================================================
