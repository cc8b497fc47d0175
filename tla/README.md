# A verification project for malang

malang is a small statically typed scripting language: a C++ compiler
(`src/src/parser.cpp`, `src/src/ir`, `src/src/codegen`) translates a program to
bytecode, and a virtual machine (`src/src/vm`) runs it over a mark-and-sweep
garbage collector (`src/src/vm/runtime/gc.cpp`). Everything runs on one thread.
What makes the system hard is not interleaving but *aliasing of state over
time*: a sweep that removes from the vector it iterates over, memory that is
used again with its old contents, a collection that may run inside any
allocation, cached pointers into stacks, and code whose prologue and returns
are fixed up after they have been generated.

This directory holds TLA+ modules that model the way of a program from its text
to its output (lexer, parser, printer, types, translation, code generation,
execution), the import of modules, calls and frames, and the collector; TLC
configurations that check them on small instances; and TLAPS proofs about the
collector, the interpreter's frames, the execution of bytecode and imports for
every value of their constants. `PROJECT.json` maps every definition to the lines it models and
lists runs, mutants, hazards, findings and theorems.

## Inventory

| component | state | operations | correct when |
|---|---|---|---|
| Collector, lists (`gc.cpp` GC_Node, GC_List) | two vectors of nodes; per node a magic word (list identity and managed bit) and an index | append, remove (swap with the last), pop | a node is where it says it is; the self-checks never panic |
| Collector, mark and sweep (`gc.cpp`, `object.cpp`) | headers (colour, free bit, type), fields, trigger threshold, pause flag | mark, gc_mark, sweep, alloc_intern and its six callers, manage, unmanage, deallocate, destructor | nothing reachable is freed, everything else is; collections end; out of memory only when memory is really used |
| Interpreter (`vm.cpp`) | data stack, locals cut into frames, cached `fast_locals`, call frames, globals | one handler per instruction | every activation has its own variables and operands; the areas scanned as roots hold exactly what is in use |
| Lexer (`lexer.cpp`) | position in the text, tokens so far | one scan, two lookaheads at a line end | a line end separates statements where it should and nowhere else |
| Parser (`parser.cpp`) | token position, error count, `is_extending` | one function per rule, with backtracking | operators group by precedence; every item takes a token; a printed tree is read back as it was |
| Printer (`ast_pretty_printer.cpp`) | indentation | one visit per node | what it prints means what it was given |
| Compiler (`ast_to_ir.cpp`) | scopes, locals counter, list of returns, the true, false, break and continue labels in force | one visit per node | the code does what the tree means; slots fit into the frame the prologue allocates; what must be refused is |
| Code generator (`ir_to_code.cpp`, `codegen.cpp`, `ir_label.cpp`) | code bytes, resolved labels, pending backfills | one visit per IR node | every jump lands on an instruction; every literal is what the machine reads back |
| Modules (`module_map.cpp`, import in `ast_to_ir.cpp`) | module tree, colours, files found, what an import saves and restores | get_or_make, find_file, import | each module is compiled once and after its imports; a name means the module's own type |
| Types (`type_map.cpp`, `reflection.cpp`) | named types, tokens, alias links | declare, alias, assignability, fields, methods | alias walks end; tokens and names agree |
| Scopes and overloads (`scope_lookup.cpp`, `bound_function_map.cpp`) | chain of scopes with slot indexes; functions by signature | push, pop, lookup, bind | a name means the innermost visible declaration |
| Files and sockets (`mod_file.cpp`, `mod_socket.cpp`, `platform/socket.cpp`) | descriptors held in objects | open, close, read, write | an object uses only a descriptor it owns |
| Strings and values (`string.cpp`, `nun_boxing.hpp`, `fixnum.cpp`, `double.cpp`) | boxed words, owned byte arrays | natives | one owner per byte array; 32-bit arithmetic |
| Disassembler, debugger, main | text | sequential | (not modelled, see below) |

How they interact. `parse_to_code` parses the program's file, which declares
types in the type map and makes modules in the module map; the translation then
visits the imports, each of which parses and translates another file in the
middle of this one, with the same maps. The compiler writes code into a byte vector and tables of
types, natives and string constants; the machine reads them. The machine owns
the three root areas, and the collector reads them through `m_vm` when a
collection is due inside an allocation (`Alloc_Object`, `Array_New`,
`Buffer_New`, natives that allocate) or when the program calls `gc_run`. The
program steers the collector with `gc_pause` and `gc_resume`. Natives pop their
arguments from the data stack, which takes them out of the roots.

## Modules

| module | models |
|---|---|
| `GCList` | the two node lists: the moves of `GC_List`, `alloc_intern`, `free_node`, with their panics |
| `MalangGC` | the collector and the program above it, one step per loop iteration of mark, gc_mark and sweep |
| `TracingGC` | what the collector promises, abstractly: an object may vanish only once the program cannot reach it |
| `MalangGCInv` | the inductive invariants of the collector, in named parts: `IInv`, and `ExactInv` for what is exact |
| `CallStack` | what calls promise, abstractly: every activation has its own variables and operands |
| `MalangVM` | the interpreter's stacks, frames, globals and roots, with the code the compiler emits around a function |
| `MalangVMInv` | the inductive invariant of `MalangVM`, and the two conditions on programs |
| `MalangSyntax` | syntax trees, types as trees, operators and their levels |
| `MalangLexer`, `MalangParser`, `MalangPrinter` | text to tokens, tokens to trees, trees to text |
| `Frontend` | `Parser::parse` and `build_ast`, an item a step, against what a text was written to mean |
| `MalangTypes`, `MalangIR`, `MalangCode` | the type table, `Ast_To_IR`, `IR_To_Code` with `Codegen` and the labels |
| `Interpreter` | the compiled program in `vm.cpp`, an instruction a step |
| `StackMap` | what the machine takes for granted of its code, and what it relies on without a check |
| `MalangMeaning` | what a program means, an evaluator of trees without labels, slots or stacks |
| `Compile` | the two held together: the code of each program, its stack map and its meaning |
| `Modules` | imports: the files looked for and compiled, in which order, and the types names stand for, aliases included |
| `ModulesInv` | the inductive invariants of `Modules`: the stack, the order, names, aliases, reasons to give up |
| `MCgc`, `MCvm`, `MCfrontend`, `MCcompile`, `MCmodules` | instances for TLC |
| `GCList_proofs`, `MalangGC_proofs`, `MalangGC_live_proofs`, `MalangGC_refinement_proofs` | proofs about the collector, each extending the one before |
| `MalangVM_proofs`, `MalangVM_refinement_proofs` | proofs about the interpreter's frames and roots, and the step to `CallStack` |
| `Interpreter_proofs` | proofs about the machine that executes code with a stack map |
| `Modules_proofs` | proofs about imports, names and aliases |

### MalangGC

`pc` says who moves: `idle` is the program, `mark` and `sweep` are the loops of
`mark_and_sweep`, `take` is the rest of an allocation after its collection.
`after` is the return address of the collection and `request` the arguments of
the allocation under way. `stack` is the C++ stack of `gc_mark`, one frame per
activation with the loop index. `raw` is the memory of `m_allocated`'s vector
during a sweep: the range-for reads its end once, so it visits slots that
`pop_back` has already given up, and `raw` still has their contents. The
program moves, loads and stores references, allocates, pauses, calls `gc_run`
and exits; exit runs the destructor's sweep without a mark. `fault` records the
panic or crash that ended the process.

Abstractions: the three root areas are one array of slots; every traced object
has `NFields` fields; an array of unmanaged elements is a Buffer. A fresh
object's fields hold any node ever created, because the code takes them from
`operator new` and leaves them. The program is assumed not to *read* a field it
has not stored (the language runs field initialisers), but the collector does.

### MalangVM

`data`, `locals`, `locals_top`, `locals_frames`, `fast_locals`, `call_frames`,
`globals`, `globals_top` are the machine's own. `ip` is the function that runs
and how much of its prologue is left. `acts` is what the compiler knows at that
point (where the operands of each activation begin, which variables it has
assigned); the machine never reads it, it only says which instructions the
compiler could have emitted. A function is described as it is written
(`source`): parameters, declared variables, array literals, variables of the
enclosing functions, results; `LocalsToAllocate`, `SlotsOf`, `Leaves` and
`Prologue` are what `visit(Fn_Node)` and `make_symbol` make of it. A collection
is one step that keeps what `Roots` holds; that the collector really does this
is what `MalangGC` establishes (`CollectionExact`). Objects have no fields here.
`MaxFrame` bounds the slots of one function, `MaxCalls` the depth and `MaxData`
the data stack; the locals array of an instance has room for exactly that
(`NLocals`), and `TypeCorrect` proves that it is enough.

`CallStack` has, per activation, a function from slots to values and a sequence
of operands. `Activations` is the refinement mapping: activation i's variables
are the slots of its frame that it has assigned, its operands the part of
`data` between its own base and the next one's, an argument not yet stored by
the prologue counting as a variable already (`ArgumentsLeft`).

`Return` with no frame left computes `fast_locals` from `locals_frames[-1]`.
The member in front of the array is `data_top`, so the model uses that; no
correct program reads a local before its next `Alloc_Locals`.

### The front end

A text is a sequence of lexemes (a word, an operator, a run of blanks, a
comment, a line end); how many characters each has is kept, since the lexer's
lookahead counts them. Every `parse_` function is an operator from a parser
state to a state and a node, with `SAVE`, `RESTORE` and the errors that
backtracking does not take back; the rules call each other by name, through
`Parse`. `Frontend` steps through the lexer, then one
top-level item at a time. `input` carries the tree the text was written from,
by the printer, by grouping an operator chain by a table of strengths that the
parser does not have, or line by line.

### Compiling and running

`MalangIR` is one operator per visit function, over a state with the scopes,
symbols, types and labels; `abort` is a dead state. `MalangCode` gives every
instruction its address and its width in bytes, short forms included, so a
branch that is off by one leads nowhere. `Interpreter` is given the code of each
program by the constant `Compiled`; its first step takes it over (the variable
`code`), and then it executes one instruction a step, over the stacks of
`vm.cpp`, with values that carry their kind; the machine never looks at it, and
`OperandsFit` says that it need not. `under` counts the operands that a program
drops from below the stack (see the miscompilations below). `MalangMeaning`
evaluates the tree directly, and `PrintsItsMeaning` compares every prefix of
the output.

`StackMap` states, next to the machine, which code it can execute without
looking: `WellMapped`. A stack map gives for each address that is reached the
function it belongs to, the operands its activation has there and whether the
frame has been allocated. Nothing of the kind is written down in the code; it is
what `IR_To_Code` and `visit(Fn_Node)` have to get right between them, when
they choose returns, prologues and discards. `Compile` infers the map from
the generated code (`MapOf`), and the run `compile` checks that every program
has one. The argument of `Call_Dyn` (how many operands the type of the function
takes and leaves) is for `CalleesMapped` only; the machine takes the address
from the stack and nothing else.

`MalangIR`, `MalangCode`, `MalangMeaning` and `Compile` use RECURSIVE operators
over trees, so nothing is proved about them. `Interpreter` and `StackMap` do
not, and are proved about for any code.

### Modules

A world says which files exist, what each imports, defines, aliases and uses,
and which cannot be parsed. The stack holds the imports under way: a frame is
one activation of `visit(Import_Node)` with what its deferred block will
restore. An alias is made while the file is parsed, before its imports; `marked`
are the types that the search for cycles has marked (`m_cycle`) and must unmark,
for the walk stops at any mark. A type
is `<<T>>` or `<<m, T>>`; `TypeFor` is the order of `get_type`, the bare name
first. Functions are left out because no other module can name them: a
qualified name is looked up, with its qualifier, in a scope that has it
without.

## Runs

| run | instance | shows |
|---|---|---|
| `gc_collector` | 3 nodes, 2 roots, 1 field, interval 1, limit 2 | types, the invariant `ExactInv`, sound lists, tri-colour marking, nothing reachable freed, exact collections, out of memory only when full, a clean exit, refinement of `TracingGC` |
| `gc_host` | 2 nodes, all host calls, fair | the inductive invariant, that of the lists included, survives manage, unmanage and deallocate; every collection ends |
| `gc_uninitialised` | 2 nodes | expected violation: a collection before the first store follows an uninitialised field to a freed object |
| `vm_calls` | 2 objects, three functions (two parameters; nested with an inherited count; no frame), depth 2, frames of 2 slots | frames tile the locals, everything held survives, refinement of `CallStack` |
| `vm_globals` | as above, both globals references, collections at any time | expected violation: the object only the highest global refers to is collected |
| `vm_stale_frame` | as above, no reference globals | expected violation: an uncleared frame shows the collector a freed object |
| `vm_array_literal` | a function that makes an array literal and has no variables | expected violation: the literal is built in a variable of the caller |
| `frontend` | 14 141 texts: every printed form, operator chains of two and three, pairs of lines, all triples of 23 lexemes | a printed tree is read back; precedence; line ends separate; every item takes a token, whatever the text |
| `frontend_else` | an if with its `else` on the next line, after 0 to 60 blanks | expected violation: with up to three blanks the if loses its else |
| `compile` | 95 programs: conditions of three operands in every truth assignment, ifs, loops, functions, closures of frames, objects, iterators, aliases, arrays and buffers in and out of bounds, and what must be refused | a program prints what it means and ends; its code has a stack map; jumps, operands and variables are always good, and a function leaves its callers' operands alone; only ill programs are refused |
| `compile_words` | `a and b or c` as a condition | expected violation: the `or` is skipped |
| `modules` | 6 576 worlds: two modules with files here, in the search directory, both or nowhere, every import order, cycles, an import of the program itself, broken files, chains and cycles of aliases, aliases to types the program's file hides, uses of types that do not exist | compiled once, after the imports, in their own scope; names mean their types; aliases end; only what is broken is given up; compilation ends |

Bounds. Three nodes give two objects in use and one on the free list, the
smallest heap where a sweep swaps one survivor into a hole, a cycle of two is
collected, and a freed node is taken again with stale contents. One field is
enough for chains and cycles; which field is read is the same code for each.
With interval 1 and limit 2 the threshold reaches its cap and a paused
collector runs out of memory. Call depth 2 with two parameters has a frame
below, a frame above and a frameless function on top or between; the data stack
of two holds both arguments, so their order matters. `NodeBound`, `CallBound`
and `DataBound` are the guards that keep the instance finite. Nodes and objects
are interchangeable, hence the symmetry; the run with a liveness property
declares none.

The programs of `compile` are one instance per visit function and per way
labels can nest; arrays have up to four elements, calls nest up to four deep,
numbers stay far from 32 bits. They keep clear of what is listed under "Known
miscompilations". Two modules besides the program are enough for a diamond, for
cycles of one and two, and for an alias cycle of three; a third would be
processed by the same steps at a greater depth, which is what the proofs cover.

`vm_calls` assumes what the two findings below say the code needs: the highest
global is not a reference and has been assigned before the first collection
(`RefGlobals`, `CollectFrom`). Without that, `vm_globals` applies.

Deadlock is checked in every run. `Ended` stutters only after a panic, a crash
or the end of `main`; the interpreter can always move.

Fairness. `FairSpec` asks weak fairness of the collector's steps only: a
collection is a function call on the program's own thread and runs to its end
before the program moves. Nothing is asked of the program. `Compile` and
`Modules` ask weak fairness of the one thread that compiles and runs: it goes
on as long as it can.

## Disagreements found

1. Fields of a fresh object are not initialised and the pause around
   `construct_object` covers nothing (`gc_uninitialised`).
2. `Store_Global` keeps the highest index where the collector wants a count:
   the highest global is no root (`vm_globals`).
3. `Alloc_Locals` does not clear the frame, so freed objects become roots
   (`vm_stale_frame`).
4. Array literals use a slot that is not counted (`vm_array_literal`).

5. The lookahead for `else` looks at the wrong character (`frontend_else`).
6. `and` as the left operand of `or` in a condition skips the right one
   (`compile_words`).

Known miscompilations, met while modelling and checked against the compiled
program, which the programs of `compile` avoid: logical operators in the bodies
and arguments of statements whose labels are set; if/else whose legs differ in
whether they leave a value; a named function among statements, which drops an
operand of its surroundings (`NothingLeftOver` counts them); `continue` in a for
over an array; `break` and `continue` labels that leak into nested functions;
calling the result of a method call; names of enclosing functions. In the
module system: a qualified function call never resolves; a type of the program
takes over every module's type of that name; an import of the program's own
name compiles its file twice.

The quoted comments and assertions are in `PROJECT.json`.

## Proofs

The theorems hold for every value of the constants that the named assumptions
admit. A theorem `Spec => []P` rests on an inductive invariant, kept in the
`...Inv` module of its component, where TLC can check it too (`IInv` of
`MalangGC` in `gc_host`, `ExactInv` in `gc_collector`; `IInv` of `MalangVM` and
those of `Modules` were checked on the instances of `vm_calls` and `modules`,
one at a time, before they were proved). That of `Interpreter` has witnesses
over the natural numbers, which TLC cannot enumerate; it stands in
`Interpreter_proofs`, and its consequences are what the run `compile` checks.

### The collector

Assumptions: `Nil` is no node; `NRoots`, `NFields`, `RunInterval` are positive
and `RunInterval <= MaxObjects` (500 and 100000 in `main.cpp:554`); `HostCalls`
is any subset of the three calls. The set of nodes is arbitrary.

The safety properties are not inductive. `IInv` adds what they rest on, and the
proof goes in the order in which the parts need each other:

1. **Types** (`MalangGC_proofs`, `TypeCorrect`): one lemma per action.
2. **Lists** (`GCList_proofs`, then `ListsAlwaysSound`, `NoCorruption`): what
   each move returns; `ListsConsistent` and `HeadersAgree` together say which
   list a header's free bit belongs to, so the checks of `remove` and `append`
   pass. For the sweep, `SweepInv`: the nodes still to visit are in the list,
   at or before the place where the cursor will meet them, each once, since a
   removal only moves the last node towards the front.
3. **Colours and reachability** (`Invariance`, `TriColourHolds`,
   `NothingDangles`, `NothingLiveFreed`): marking keeps `TriColour`, with the
   activations of `gc_mark` as the grey objects. When it ends, the objects that
   are not white are closed and include the managed roots, so they include all
   the program can reach (`LiveInv`); the sweep frees white ones only, and each
   program step reaches no more than before, except a new object. `ColourInv`
   says that between collections nothing is coloured that has references, which
   is why the next mark starts from white.
4. **Exactness** (`CollectionsStayExact`, and from it `CollectionsAreExact`,
   `MemoryRunsOutOnlyWhenFull`, `ExitFreesEverything`), the converse of 3: nothing that is *not* in use is
   coloured. `ExactInv` adds to `IInv` that every managed object is white
   between collections (`AllWhite`); that while marking, whatever has a colour
   is reachable (`MarkExact`); that the sweep has kept what was coloured, made
   it white and freed the rest (`SweepExact`, `ExitExact`); and that the
   allocation after a collection finds room unless the collector is paused or
   the objects in use fill the limit (`RoomToTake`).
   Hypothesis: the host calls `manage` on nothing (`HostManagesNothing`).
   A Buffer that is unmanaged may have been coloured by a field referring to it;
   `manage` does not reset the colour, and the next collection would keep it.
   Nothing in the repository calls `manage`; the safety theorems of 2 and 3
   do not need the hypothesis.
5. **Refinement** (`PromiseKept`): every step maps to a step of `TracingGC` or
   to a stutter; `Live` is the same set on both sides.

### Calls, frames and roots

Assumptions (`VMAssumption`): any set of functions, each with any number of
parameters, variables, literals, inherited locals and zero or one result, as
long as one fits into `MaxFrame`; any bounds on depth and data.

1. **Invariant** (`MalangVM_proofs`: `Invariance`, `TypeCorrect`,
   `FramesAlwaysTile`). `FramesTile` does not survive a `Return` by itself: one
   has to know that the function returning is the one whose prologue pushed the
   top frame. `CallsAgree` ties return addresses to activations,
   `OperandsNest` the bases of the operands and the arguments that the prologue
   has still to store, `FramesApart` and `FramesFit` the places of the frames,
   `AssignedOwn` what is assigned to the function's own slots.
2. **What is held is alive** (`HeldStaysAlive`), under the two conditions that
   the runs `vm_globals` and `vm_array_literal` show to be needed:
   `CountedSlots`, no array literal takes an uncounted slot, and
   `GlobalsScanned`, every global of a collected type is below `globals_top`
   when a collection runs. With the first, every assigned variable lies below
   `locals_top` and so among the roots. Both hold of the instance of `vm_calls`.
3. **Refinement** (`ImplementsPromise`), under the same conditions: every
   instruction is one of `CallStack`'s steps on `Activations`. A load or store
   touches one slot, which is no other activation's (`FramesApart`); a `Call`
   moves operands into the callee; the stores of the prologue and
   `Alloc_Locals` change nothing there; a `Return` restores the caller's view.
   A new frame may show old contents; they are not variables until assigned.

### The machine and its code

`MalangVM` generates the instructions around calls itself; here the code is
whatever it is, and the theorems have the hypothesis `StaysWellMapped`, that
`WellMapped` holds after every step (before the first there is no code): the
code has a stack map (`CodeMapped`), and a function that is called by value is
one of the type its callers were compiled for (`CalleesMapped`, which is about
the value on the stack, since a variable can hold any function of its type).
The compiler is meant to emit no other code, and the run `compile` finds a map
for each of its programs that compiles. Some programs have none, and the
theorems do not speak of them: a named function *inside a function* is followed
by a discard although it leaves nothing (`ast_to_ir.cpp:1302-1333`), and takes
an operand of its caller. Among the statements of the program the same discard
finds nothing of the program's own (`DropsNothing`), and the map allows for it.
The constants are arbitrary: any set of programs, any code.

`Invariance` rests on three parts, with a sequence of activations recovered from
the return addresses:

1. `Accounted`. Activation i goes on at `Site(i)`, the address its callee
   returns to, or `ip` for the innermost. Its operands begin at `base[i]`, and
   each caller has been left with just what its map says of the address it
   returns to, less the results to come (`OperandsAbove`); its variables begin
   at `low[i]` and `nf[i]` frames are older (`FramesAbove`), since not every
   activation has a frame. `base`, `low` and `nf` are witnesses: the machine has
   only the sums of them, `data_top` and `locals_top`.
2. `FastIsCurrent`: `fast_locals` is the last entry of `locals_frames` whenever
   there is one.
3. `ReturnsFollowCalls`: what is on `call_frames` is an address behind a call.

There is one lemma per group of instructions for each of these, and lemmas for
the four changes of shape: a call (the arguments become the callee's operands),
the allocation of a frame, and the two returns. A `Return` pops the frame that
the same activation has allocated because `framed` is one value for each
address; that every way to a return agrees on it is just what the map says.

What follows, each of it a thing `vm.cpp` does not check: control stays on
instructions (`StaysOnInstructions`); operands are there (`OperandsAlwaysThere`);
variables are in the function's own frame (`VariablesInOwnFrame`); at the end
all stacks are empty (`EndsWithNothing`); and no step changes what the callers
have on the stack (`CallersOperandsUntouched`, by `base` of the innermost
activation being what remains below its operands).

### Imports, names and aliases

Assumptions: the program's name is no built-in module's; `Nil` is no module,
file or type; the worlds are well-formed, and there may be any set of them,
over any modules, directories and types.

1. **The stack** (`ModuleProcessedOnce`, `NamesBoundInOwnModule`, from `IInv`):
   the program's file at its bottom, above it the grey modules, each once, each
   frame with the module of the frame below saved in it. Entering a module is
   safe because white modules are not on the stack; leaving one gives the code
   to a module that was grey, so it had none yet. A file that is found is a
   file by the least index among the places (`FoundFile`).
2. **The tables** (`TablesHoldTheirTypes`, with `TablesTyped`).
3. **Order** (`CodeAfterImports`, from `OrderInv`): an import that its frame has
   passed is not white, so its code is there or it is on the stack below; and a
   module on the stack brings in all those above it, so in the second case
   there is a cycle. `Brings` is the least closed set, and an import that finds
   its file only makes it larger (`BringsGrows`).
4. **Names** (`NamesKeepTheirMeaning`, from `NamesInv`): a bare name is declared
   only if the program's own file mentions it, what a frame defines and uses
   has been declared, and `m::T` has no definer but the file of `m`. What has
   been linked keeps its meaning because a file of a module, once found, stays.
5. **Aliases** (`AliasesLeadSomewhere`, from `AliasInv`): no set of aliases is
   closed (`Acyclic`). A link that is not refused keeps that so and moves
   the ends of chains together (`LinkMade`), so a token copied when the alias
   was made still leads where its owner does.
6. **Reasons to give up** (`OnlyBrokenProgramsAbort`, from `AbortInv`): no mark
   of an earlier search for cycles is left (`NoMarksLeft`), and unless
   the program's file hides a type, each link is an alias some file asks for
   and not one its frame has still ahead, so an alias refused is one of two for
   a name or closes a cycle of those asked for; and a black module's types have
   been defined, so an unknown type is missing or its module is grey, that is,
   imports the file that uses it.

Proving these corrected two statements that the earlier worlds had not
refuted. `NamesMeanTheirTypes` excused a module's type only when the program's
file defines one of that name; an alias of the program's file to a bare,
undeclared name takes it over as well (`BareTypes`). `OnlyBrokenWorldsAbort`
did not count such aliases, nor a use of a type the module does not have. The
worlds of `modules` now include both.

### Only model-checked

Liveness (`CollectionEnds`, the two `Ends`), which is out of the prover's reach.

What the lexer, the parser, the translation and the evaluator return: they are
RECURSIVE operators over tokens and trees, and what those return for every
input is an induction over data. That leaves to TLC all of `Frontend`, and of
`Compile` that programs print what they mean, that only ill ones are refused,
that the compiler's code has a stack map (`StaysWellMapped`, the hypothesis
above), and `TypeOK`. Of `OperandsFit` the kinds of operands are model-checked
(stack maps have no kinds), of `NothingLeftOver` the number of operands dropped
from below the stack (which counts functions of the source).

## Not modelled

The disassembler, the debugger, tracing and command-line handling are input and
output; double arithmetic is out of TLC's reach; the library in malang and the
editor mode are not part of the program. The methods of files, sockets and
strings are single calls of the platform or computations on bytes. The depth
of the C++ stack in `gc_mark` and the capacity of the frame stacks are bounds of
the platform. Characters of numbers, strings and escapes, error texts, and the
crashes of the parser on malformed types are left out. `MalangVM` lets a
function load only variables it has assigned; the compiler's own rule ignores
control flow and is listed as a hazard no property covers, since the programs of
`compile` assign on every path. `Buffer_Copy` is never emitted by the
compiler. `Interpreter` has no collector, so what a collection makes of a
`data_top` below zero (`gc.cpp:160`) is not covered. A native function is only
ever called: the literal that stands for one as a value (`ir_to_code.cpp:99-102`)
is left out. A module's name is one word: the directories of `a::b`, and one file
imported under two names, are not modelled.

## Plan

Done: the collector, `CallStack` and `MalangVM`, the front end, `Compile`,
`Modules`; a theorem for every safety property of the collector, of `MalangVM`
and of `Modules`, both refinements, and the machine for any code with a stack
map.

Left: kinds in the stack map (of operands, variables, fields and elements),
which would prove the rest of `OperandsFit`; the parts of the front end that
are loops rather than recursion (the terminators of the lexer, the widths and
labels of the code generator) could be stated over functions instead of
RECURSIVE operators, which would bring them within the prover's reach. To
model next: the natives of strings, files and sockets over a table of
descriptors.
