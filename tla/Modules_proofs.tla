--------------------------- MODULE Modules_proofs ---------------------------
(***************************************************************************)
(* Imports, for every set of modules, every directory layout and every     *)
(* import graph: each module is processed once, and what is bound while a  *)
(* file is compiled is bound in that file's own module.                    *)
(*                                                                         *)
(* The invariant follows the stack of imports: the program's file is at    *)
(* its bottom, the modules above it are the grey ones, each once, and      *)
(* every frame has saved the module of the frame below it.                 *)
(***************************************************************************)
EXTENDS ModulesInv, TLAPS, SequenceTheorems, WellFoundedInduction

-----------------------------------------------------------------------------
LEMMA WorldTyped ==
    ASSUME NEW w \in Worlds, NEW f \in Files
    PROVE  w.imports[f] \in Seq(Names) /\ w.aliases[f] \in Seq([name : Types, to : Types])
BY WorldsAssumption

LEMMA RootIsFile == Root \in Files
BY NamesAssumption DEF Root, Files

\* A file that is found is a file.
LEMMA FoundFile ==
    ASSUME NEW f \in Files, NEW n \in Names, Hits(n, f) # {}
    PROVE  FindFile(n, f) \in Files
<1> DEFINE P == Places(f)
           H == Hits(n, f)
<1>1. P \in Seq(Dirs)
  BY NamesAssumption DEF Files, Places
<1>2. H \subseteq Nat /\ H # {}
  BY <1>1 DEF Hits
<1>3. \E i \in H : \A j \in H : i <= j
  <2> DEFINE R == {ss \in Nat \X Nat : ss[1] < ss[2]}
  <2>1. IsWellFoundedOn(R, Nat)
    BY NatLessThanWellFounded DEF OpToRel
  <2>2. PICK i \in H : \A j \in H : ~(<<j, i>> \in R)
    BY <1>2, <2>1, WFMin
  <2>3. \A j \in H : i <= j
    <3> SUFFICES ASSUME NEW j \in H PROVE i <= j
      OBVIOUS
    <3>1. i \in Nat /\ j \in Nat
      BY <1>2
    <3>2. <<j, i>> \in Nat \X Nat /\ <<j, i>>[1] = j /\ <<j, i>>[2] = i
      BY <3>1
    <3>3. ~(j < i)
      BY <2>2, <3>2
    <3> QED BY <3>1, <3>3
  <2> QED BY <2>3
<1>4. PICK i \in H : FindFile(n, f) = <<P[i], n>>
  BY <1>3 DEF FindFile
<1>5. P[i] \in Dirs
  BY <1>1, <1>4 DEF Hits
<1> QED BY <1>4, <1>5 DEF Files


-----------------------------------------------------------------------------
(***************************************************************************)
(* What the steps do to the stack.                                         *)
(***************************************************************************)
LEMMA AdvancedStack ==
    ASSUME Typed, stack # <<>>, Top.left # <<>>
    PROVE  /\ Advanced \in Seq(FrameType)
           /\ Len(Advanced) = Len(stack)
           /\ \A i \in 1 .. Len(stack) :
                 /\ Advanced[i].mod = stack[i].mod
                 /\ Advanced[i].locality = stack[i].locality
                 /\ Advanced[i].module = stack[i].module
           /\ Next1 \in Names
           /\ Top \in FrameType
<1>1. Len(stack) \in 1 .. Len(stack) /\ Top \in FrameType
  BY DEF Typed, Top
<1>2. Top.left \in Seq(Names) /\ Tail(Top.left) \in Seq(Names) /\ Next1 \in Names
  BY <1>1 DEF FrameType, Next1
<1>3. [Top EXCEPT !.left = Tail(@)] \in FrameType
  BY <1>1, <1>2 DEF FrameType
<1>4. Advanced = [stack EXCEPT ![Len(stack)] = [Top EXCEPT !.left = Tail(@)]]
  BY <1>1 DEF Advanced, Top
<1>5. \A i \in 1 .. Len(stack) :
         Advanced[i] = IF i = Len(stack) THEN [Top EXCEPT !.left = Tail(@)] ELSE stack[i]
  BY <1>4 DEF Typed
<1>6. Advanced \in Seq(FrameType) /\ Len(Advanced) = Len(stack)
  BY <1>1, <1>3, <1>4 DEF Typed
<1>7. \A i \in 1 .. Len(stack) :
          /\ Advanced[i].mod = stack[i].mod
          /\ Advanced[i].locality = stack[i].locality
          /\ Advanced[i].module = stack[i].module
  <2> SUFFICES ASSUME NEW i \in 1 .. Len(stack)
               PROVE  /\ Advanced[i].mod = stack[i].mod
                      /\ Advanced[i].locality = stack[i].locality
                      /\ Advanced[i].module = stack[i].module
    OBVIOUS
  <2>1. CASE i # Len(stack)
    BY <1>5, <2>1
  <2>2. CASE i = Len(stack)
    <3>1. Advanced[i] = [Top EXCEPT !.left = Tail(@)] /\ stack[i] = Top
      BY <1>5, <2>2 DEF Top
    <3> QED BY <3>1, <1>1 DEF FrameType
  <2> QED BY <2>1, <2>2
<1> QED BY <1>1, <1>2, <1>6, <1>7

LEMMA EmittedMods ==
    ASSUME Typed, NEW i \in 1 .. Len(emitted)
    PROVE  emitted[i].mod \in Names \cup {Nil}
<1>1. emitted[i] \in EmittedType
  BY DEF Typed
<1> QED BY <1>1 DEF EmittedType, Mods

LEMMA BelowStack ==
    ASSUME Typed, stack # <<>>
    PROVE  /\ Below \in Seq(FrameType)
           /\ Len(Below) = Len(stack) - 1
           /\ \A i \in 1 .. Len(Below) : Below[i] = stack[i]
BY DEF Typed, Below

-----------------------------------------------------------------------------
(***************************************************************************)
(* One lemma per action.                                                   *)
(***************************************************************************)
LEMMA InitIInv == Init => IInv
<1> SUFFICES ASSUME Init PROVE IInv
  OBVIOUS
<1>1. Typed
  BY DEF Init, Typed, Statuses, Colors, Mods
<1> QED
  BY <1>1 DEF Init, IInv, Bottom, OnceOnStack, OnceEmitted, EmittedBlack, SavedBelow,
              ScopeIsMod, Started, Running

LEMMA ParseRootIInv == IInv /\ ParseRoot => IInv'
<1> SUFFICES ASSUME IInv, ParseRoot PROVE IInv'
  OBVIOUS
<1>1. /\ stack = <<>> /\ emitted = <<>> /\ locality = Nil /\ module = Nil
      /\ \A n \in Names : color[n] = "white"
      /\ UNCHANGED <<world, color, locality, module, emitted>>
  BY DEF IInv, Started, ParseRoot, results
<1>2. CASE Root \in world.broken
  BY <1>1, <1>2 DEF ParseRoot, IInv, Typed, Bottom, OnceOnStack, OnceEmitted, EmittedBlack,
        SavedBelow, ScopeIsMod, Started, Running, Statuses
<1>3. CASE Root \notin world.broken
  <2> DEFINE f == Frame(Nil, Root)
  <2>1. stack' = <<f>> /\ status' = "running"
    BY <1>3 DEF ParseRoot
  <2>2. /\ f \in FrameType /\ f.mod = Nil /\ f.locality = Nil /\ f.module = Nil
    BY <1>1, WorldTyped, RootIsFile DEF IInv, Typed, Frame, FrameType, Mods
  <2>3. Len(stack') = 1 /\ stack'[1] = f /\ stack' \in Seq(FrameType) /\ stack' # <<>>
    BY <2>1, <2>2
  <2>4. Typed'
    BY <1>1, <2>1, <2>3 DEF IInv, Typed, Statuses
  <2>5. Bottom' /\ OnceOnStack' /\ SavedBelow'
    BY <2>2, <2>3 DEF Bottom, OnceOnStack, SavedBelow
  <2>6. Running'
    BY <1>1, <2>2, <2>3, NamesAssumption DEF Running, GreyOnStack, OwnModule, Top
  <2> QED BY <1>1, <2>1, <2>4, <2>5, <2>6 DEF IInv, OnceEmitted, EmittedBlack, ScopeIsMod, Started
<1> QED BY <1>2, <1>3

LEMMA FewerAliases ==
    ASSUME Typed, stack # <<>>, Top.aliases # <<>>
    PROVE  /\ OneAliasOn \in Seq(FrameType)
           /\ Len(OneAliasOn) = Len(stack)
           /\ \A i \in 1 .. Len(stack) :
                 /\ OneAliasOn[i].mod = stack[i].mod
                 /\ OneAliasOn[i].locality = stack[i].locality
                 /\ OneAliasOn[i].module = stack[i].module
<1>1. Len(stack) \in 1 .. Len(stack) /\ Top \in FrameType
  BY DEF Typed, Top
<1> DEFINE t == [Top EXCEPT !.aliases = Tail(@)]
<1>2. /\ t \in FrameType /\ t.mod = Top.mod
      /\ t.locality = Top.locality /\ t.module = Top.module
  <2>1. Top.aliases \in Seq([name : Types, to : Types])
    BY <1>1 DEF FrameType
  <2>2. Tail(Top.aliases) \in Seq([name : Types, to : Types])
    BY <2>1
  <2> QED BY <1>1, <2>2 DEF FrameType
<1>3. OneAliasOn = [stack EXCEPT ![Len(stack)] = t]
  BY <1>1 DEF Top, OneAliasOn
<1> HIDE DEF t
<1>4. OneAliasOn \in Seq(FrameType) /\ Len(OneAliasOn) = Len(stack)
  BY <1>1, <1>2, <1>3 DEF Typed
<1>5. \A i \in 1 .. Len(stack) : OneAliasOn[i] = IF i = Len(stack) THEN t ELSE stack[i]
  BY <1>3 DEF Typed
<1> QED BY <1>2, <1>4, <1>5 DEF Top

\* A step on the top frame: an alias, an import of a module that is loaded or
\* that has no file.
LEMMA OnTopIInv ==
    ASSUME IInv, status = "running", stack # <<>>,
           stack' \in Seq(FrameType), Len(stack') = Len(stack),
           \A i \in 1 .. Len(stack) :
               /\ stack'[i].mod = stack[i].mod
               /\ stack'[i].locality = stack[i].locality
               /\ stack'[i].module = stack[i].module,
           UNCHANGED <<world, status, locality, module, emitted>>,
           Next1 \in Names \/ UNCHANGED color,
           \/ UNCHANGED color
           \/ Fresh /\ color' = [color EXCEPT ![Next1] = "black"]
    PROVE  IInv'
<1>1. status = "running" /\ stack # <<>> /\ status' = "running"
  OBVIOUS
<1>2. Typed
  BY DEF IInv
<1>3. /\ stack' \in Seq(FrameType)
      /\ Len(stack') = Len(stack)
      /\ \A i \in 1 .. Len(stack) :
            /\ stack'[i].mod = stack[i].mod
            /\ stack'[i].locality = stack[i].locality
            /\ stack'[i].module = stack[i].module
  OBVIOUS
<1>4. color' \in [Names -> Colors]
  BY <1>2, <1>3 DEF Typed, Colors
<1>5. \A n \in Names : /\ color'[n] = "grey" <=> color[n] = "grey"
                       /\ color[n] = "black" => color'[n] = "black"
  BY <1>2, <1>3 DEF Typed, Fresh
<1>6. Typed'
  BY <1>2, <1>3, <1>4 DEF Typed
<1>7. Len(stack) \in 1 .. Len(stack)
  BY <1>1, <1>2 DEF Typed
<1>8. Bottom' /\ OnceOnStack'
  BY <1>3 DEF IInv, Bottom, OnceOnStack
<1>9. SavedBelow'
  <2> SUFFICES ASSUME NEW i \in 1 .. Len(stack), i # 1
               PROVE  stack'[i].locality = stack'[i - 1].mod /\ stack'[i].module = stack'[i - 1].mod
    BY <1>3 DEF SavedBelow
  <2>1. i - 1 \in 1 .. Len(stack)
    BY <1>2 DEF Typed
  <2> QED BY <1>3, <2>1 DEF IInv, SavedBelow
<1>10. EmittedBlack'
  <2> SUFFICES ASSUME NEW i \in 1 .. Len(emitted), emitted[i].mod # Nil
               PROVE  color'[emitted[i].mod] = "black"
    BY DEF EmittedBlack
  <2>1. emitted[i].mod \in Names
    BY <1>2, EmittedMods
  <2> QED BY <2>1, <1>5 DEF IInv, EmittedBlack
<1>11. Running'
  <2>1. stack' # <<>>
    BY <1>2, <1>3, <1>7 DEF Typed
  <2>2. GreyOnStack'
    BY <1>1, <1>3, <1>5 DEF IInv, Running, GreyOnStack
  <2>3. OwnModule'
    BY <1>1, <1>3, <1>7 DEF IInv, Running, OwnModule, Top
  <2> QED BY <1>1, <2>1, <2>2, <2>3 DEF IInv, Running
<1> QED
  BY <1>1, <1>6, <1>8, <1>9, <1>10, <1>11 DEF IInv, OnceEmitted, ScopeIsMod, Started

LEMMA SkipIInv ==
    ASSUME IInv, Importing, stack' = Advanced,
           UNCHANGED <<world, status, locality, module, emitted>>,
           \/ UNCHANGED color
           \/ Fresh /\ color' = [color EXCEPT ![Next1] = "black"]
    PROVE  IInv'
BY AdvancedStack, OnTopIInv DEF Importing, IInv

\* A step that stops the compilation, whatever it does to the colours of
\* modules that have no code yet.
LEMMA StopIInv ==
    ASSUME IInv, status = "running", status' = "aborted",
           UNCHANGED <<world, stack, emitted>>,
           locality' \in Mods, module' \in Mods,
           \/ UNCHANGED color
           \/ Next1 \in Names /\ Fresh /\ color' = [color EXCEPT ![Next1] = "grey"]
    PROVE  IInv'
<1>1. Typed'
  BY DEF IInv, Typed, Statuses, Colors
<1>2. EmittedBlack'
  <2> SUFFICES ASSUME NEW i \in 1 .. Len(emitted), emitted[i].mod # Nil
               PROVE  color'[emitted[i].mod] = "black"
    BY DEF EmittedBlack
  <2>1. emitted[i].mod \in Names /\ color[emitted[i].mod] = "black"
    BY EmittedMods DEF IInv, EmittedBlack
  <2> QED BY <2>1 DEF IInv, Typed, Fresh
<1> QED
  BY <1>1, <1>2 DEF IInv, Bottom, OnceOnStack, OnceEmitted, SavedBelow, ScopeIsMod, Started, Running

LEMMA EnterModuleIInv == IInv /\ EnterModule => IInv'
<1> SUFFICES ASSUME IInv, EnterModule PROVE IInv'
  OBVIOUS
<1>1. status = "running" /\ stack # <<>> /\ Top.left # <<>> /\ Fresh
  BY DEF EnterModule, NeedsFile, Importing
<1>2. Typed
  BY DEF IInv
<1>3. /\ Advanced \in Seq(FrameType) /\ Len(Advanced) = Len(stack)
      /\ \A i \in 1 .. Len(stack) :
            /\ Advanced[i].mod = stack[i].mod
            /\ Advanced[i].locality = stack[i].locality
            /\ Advanced[i].module = stack[i].module
      /\ Next1 \in Names /\ Top \in FrameType
  BY <1>1, <1>2, AdvancedStack
<1>4. PICK m : m = Next1
  OBVIOUS
<1>5. m \in Names /\ color[m] = "white" /\ m # Nil
  BY <1>1, <1>3, <1>4, NamesAssumption DEF Fresh
<1>6. PICK file : file = FindFile(Next1, Top.file)
  OBVIOUS
<1>7. file \in Files
  <2>1. Top.file \in Files
    BY <1>3 DEF FrameType
  <2> QED BY <2>1, <1>3, <1>6, FoundFile DEF EnterModule
<1>8. /\ UNCHANGED <<world, emitted>>
      /\ color' = [color EXCEPT ![m] = "grey"] /\ locality' = m /\ module' = m
  BY <1>4 DEF EnterModule, results
<1>9. CASE file \in world.broken
  <2>1. status' = "aborted" /\ UNCHANGED stack
    BY <1>6, <1>9 DEF EnterModule
  <2> QED BY <1>1, <1>4, <1>5, <1>8, <2>1, StopIInv DEF Mods
<1>10. CASE file \notin world.broken
  <2> DEFINE f == Frame(m, file)
  <2>1. stack' = Append(Advanced, f) /\ status' = "running"
    BY <1>1, <1>4, <1>6, <1>10 DEF EnterModule
  <2>2. f \in FrameType /\ f.mod = m /\ f.locality = locality /\ f.module = module
    BY <1>2, <1>5, <1>7, WorldTyped DEF Typed, Frame, FrameType, Mods
  <2>3. PICK n \in Nat : n = Len(stack) /\ n \in 1 .. n
    BY <1>1, <1>2 DEF Typed
  <2>4. /\ stack' \in Seq(FrameType) /\ Len(stack') = n + 1 /\ stack'[n + 1] = f
        /\ \A i \in 1 .. n : stack'[i] = Advanced[i]
    BY <1>3, <2>1, <2>2, <2>3
  <2>5. \A i \in 1 .. n : /\ stack'[i].mod = stack[i].mod
                          /\ stack'[i].locality = stack[i].locality
                          /\ stack'[i].module = stack[i].module
    BY <1>3, <2>3, <2>4
  <2>6. \A i \in 1 .. n : stack[i].mod # m
    BY <1>1, <1>5, <2>3 DEF IInv, Running, GreyOnStack
  <2>7. \A i \in 1 .. n + 1 : i \in 1 .. n \/ i = n + 1
    BY <2>3
  <2>8. Typed'
    BY <1>2, <1>5, <1>8, <2>1, <2>4 DEF Typed, Colors, Statuses, Mods
  <2>9. Bottom'
    BY <1>5, <2>2, <2>3, <2>4, <2>5, <2>7 DEF IInv, Bottom
  <2>10. OnceOnStack'
    BY <2>2, <2>3, <2>4, <2>5, <2>6, <2>7 DEF IInv, OnceOnStack
  <2>11. SavedBelow'
    <3> SUFFICES ASSUME NEW i \in 1 .. n + 1, i # 1
                 PROVE  /\ stack'[i].locality = stack'[i - 1].mod
                        /\ stack'[i].module = stack'[i - 1].mod
      BY <2>4 DEF SavedBelow
    <3>1. i - 1 \in 1 .. n
      BY <2>3
    <3>2. CASE i = n + 1
      <4>1. locality = stack[n].mod /\ module = stack[n].mod
        BY <1>1, <2>3 DEF IInv, Running, OwnModule, Top
      <4> QED BY <3>1, <3>2, <4>1, <2>2, <2>3, <2>4, <2>5
    <3>3. CASE i \in 1 .. n
      BY <3>1, <3>3, <2>3, <2>5 DEF IInv, SavedBelow
    <3> QED BY <2>7, <3>2, <3>3
  <2>12. EmittedBlack'
    <3> SUFFICES ASSUME NEW i \in 1 .. Len(emitted), emitted[i].mod # Nil
                 PROVE  color'[emitted[i].mod] = "black"
      BY <1>8 DEF EmittedBlack
    <3>1. emitted[i].mod \in Names /\ color[emitted[i].mod] = "black"
      BY <1>2, EmittedMods DEF IInv, EmittedBlack
    <3> QED BY <3>1, <1>2, <1>5, <1>8 DEF Typed
  <2>13. GreyOnStack'
    <3> SUFFICES ASSUME NEW k \in Names
                 PROVE  color'[k] = "grey" <=> \E i \in 1 .. n + 1 : stack'[i].mod = k
      BY <2>4 DEF GreyOnStack
    <3>1. CASE k = m
      <4>1. n + 1 \in 1 .. n + 1 /\ stack'[n + 1].mod = k
        BY <2>2, <2>3, <2>4, <3>1
      <4>2. color'[k] = "grey"
        BY <1>2, <1>5, <1>8, <3>1 DEF Typed
      <4> QED BY <4>1, <4>2
    <3>2. CASE k # m
      <4>1. color'[k] = color[k]
        BY <1>2, <1>5, <1>8, <3>2 DEF Typed
      <4>2. color[k] = "grey" <=> \E i \in 1 .. n : stack[i].mod = k
        BY <1>1, <2>3 DEF IInv, Running, GreyOnStack
      <4>3. (\E i \in 1 .. n : stack[i].mod = k) <=> \E i \in 1 .. n + 1 : stack'[i].mod = k
        BY <2>2, <2>3, <2>4, <2>5, <2>7, <3>2
      <4> QED BY <4>1, <4>2, <4>3
    <3> QED BY <3>1, <3>2
  <2>14. stack' # <<>> /\ OwnModule'
    BY <1>8, <2>2, <2>3, <2>4 DEF OwnModule, Top
  <2> QED
    BY <1>1, <1>8, <2>1, <2>8, <2>9, <2>10, <2>11, <2>12, <2>13, <2>14
       DEF IInv, OnceEmitted, ScopeIsMod, Started, Running
<1> QED BY <1>9, <1>10

\* What emitting the top file's code does to the list of code.
LEMMA GiveEmitted ==
    ASSUME IInv, Converting, Give, \A i \in 1 .. Len(emitted) : emitted[i].mod # Top.mod
    PROVE  /\ emitted' \in Seq(EmittedType)
           /\ OnceEmitted'
           /\ ScopeIsMod'
           /\ \A i \in 1 .. Len(emitted') :
                 emitted'[i].mod = Top.mod \/ \E j \in 1 .. Len(emitted) : emitted'[i].mod = emitted[j].mod
<1>1. Typed /\ status = "running" /\ stack # <<>> /\ OwnModule
  BY DEF IInv, Converting, Running
<1>2. Top \in FrameType
  BY <1>1 DEF Typed, Top
<1> DEFINE e == [mod |-> Top.mod, file |-> Top.file, scope |-> locality]
<1>3. e \in EmittedType /\ e.mod = Top.mod /\ e.scope = e.mod
  BY <1>1, <1>2 DEF FrameType, EmittedType, Mods, OwnModule, Typed
<1>4. PICK n \in Nat : n = Len(emitted)
  BY <1>1 DEF Typed
<1>5. /\ emitted' \in Seq(EmittedType) /\ Len(emitted') = n + 1 /\ emitted'[n + 1] = e
      /\ \A i \in 1 .. n : emitted'[i] = emitted[i]
  BY <1>1, <1>3, <1>4 DEF Give, Typed
<1>6. \A i \in 1 .. n + 1 : i \in 1 .. n \/ i = n + 1
  BY <1>4
<1>7. OnceEmitted'
  BY <1>3, <1>4, <1>5, <1>6 DEF IInv, OnceEmitted
<1>8. ScopeIsMod'
  BY <1>3, <1>4, <1>5, <1>6 DEF IInv, ScopeIsMod
<1> QED BY <1>3, <1>4, <1>5, <1>6, <1>7, <1>8

LEMMA ConvertModuleIInv == IInv /\ ConvertModule => IInv'
<1> SUFFICES ASSUME IInv, ConvertModule PROVE IInv'
  OBVIOUS
<1>1. /\ status = "running" /\ stack # <<>> /\ Top.mod # Nil /\ Converting /\ Give
      /\ UNCHANGED <<world, status>>
  BY DEF ConvertModule, Converting
<1>2. Typed
  BY DEF IInv
<1>3. PICK m, n : m = Top.mod /\ n = Len(stack)
  OBVIOUS
<1>4. n \in Nat /\ n \in 1 .. n /\ Top = stack[n] /\ Top \in FrameType
  BY <1>1, <1>2, <1>3 DEF Typed, Top
<1>5. m \in Names /\ m # Nil
  BY <1>1, <1>3, <1>4 DEF FrameType
<1>6. color[m] = "grey"
  BY <1>1, <1>3, <1>4, <1>5 DEF IInv, Running, GreyOnStack
<1>7. n # 1 /\ n - 1 \in 1 .. n - 1 /\ n - 1 \in 1 .. n
  BY <1>1, <1>3, <1>4, <1>5 DEF IInv, Bottom
<1>8. /\ stack' = Below /\ color' = [color EXCEPT ![m] = "black"]
      /\ locality' = stack[n].locality /\ module' = stack[n].module
  BY <1>3, <1>4 DEF ConvertModule
<1>9. /\ stack' \in Seq(FrameType) /\ Len(stack') = n - 1
      /\ \A i \in 1 .. n - 1 : stack'[i] = stack[i]
  BY <1>1, <1>2, <1>3, <1>8, BelowStack
<1>10. locality' = stack[n - 1].mod /\ module' = stack[n - 1].mod
  BY <1>3, <1>4, <1>7, <1>8 DEF IInv, SavedBelow
<1>11. \A i \in 1 .. Len(emitted) : emitted[i].mod # Top.mod
  BY <1>3, <1>5, <1>6 DEF IInv, EmittedBlack
<1>12. /\ emitted' \in Seq(EmittedType) /\ OnceEmitted' /\ ScopeIsMod'
       /\ \A i \in 1 .. Len(emitted') :
             emitted'[i].mod = m \/ \E j \in 1 .. Len(emitted) : emitted'[i].mod = emitted[j].mod
  BY <1>1, <1>3, <1>11, GiveEmitted
<1>13. \A i \in 1 .. n - 1 : i \in 1 .. n /\ stack[i].mod # m
  BY <1>3, <1>4, <1>7 DEF IInv, OnceOnStack
<1>14. Typed'
  <2>1. stack[n - 1].mod \in Mods
    <3>1. stack[n - 1] \in FrameType
      BY <1>2, <1>3, <1>7 DEF Typed
    <3> QED BY <3>1 DEF FrameType, Mods
  <2> QED BY <1>1, <1>2, <1>5, <1>8, <1>9, <1>10, <1>12, <2>1 DEF Typed, Colors
<1>15. Bottom' /\ OnceOnStack' /\ SavedBelow'
  <2>1. Bottom' /\ OnceOnStack'
    BY <1>3, <1>9, <1>13 DEF IInv, Bottom, OnceOnStack
  <2>2. SUFFICES ASSUME NEW i \in 1 .. n - 1, i # 1
                 PROVE  /\ stack'[i].locality = stack'[i - 1].mod
                        /\ stack'[i].module = stack'[i - 1].mod
    BY <1>9, <2>1 DEF SavedBelow
  <2>3. i - 1 \in 1 .. n - 1
    BY <1>4, <2>2
  <2> QED BY <1>3, <1>9, <1>13, <2>2, <2>3 DEF IInv, SavedBelow
<1>16. EmittedBlack'
  <2> SUFFICES ASSUME NEW i \in 1 .. Len(emitted'), emitted'[i].mod # Nil
               PROVE  color'[emitted'[i].mod] = "black"
    BY DEF EmittedBlack
  <2>1. CASE emitted'[i].mod = m
    BY <1>2, <1>5, <1>8, <2>1 DEF Typed
  <2>2. CASE emitted'[i].mod # m
    <3>1. PICK j \in 1 .. Len(emitted) : emitted'[i].mod = emitted[j].mod
      BY <1>12, <2>2
    <3>2. emitted[j].mod \in Names /\ color[emitted[j].mod] = "black"
      BY <1>2, <3>1, EmittedMods DEF IInv, EmittedBlack
    <3> QED BY <1>2, <1>8, <2>2, <3>1, <3>2 DEF Typed
  <2> QED BY <2>1, <2>2
<1>17. GreyOnStack'
  <2> SUFFICES ASSUME NEW k \in Names
               PROVE  color'[k] = "grey" <=> \E i \in 1 .. n - 1 : stack'[i].mod = k
    BY <1>9 DEF GreyOnStack
  <2>1. CASE k = m
    <3>1. color'[k] # "grey"
      BY <1>2, <1>5, <1>8, <2>1 DEF Typed
    <3> QED BY <1>9, <1>13, <2>1, <3>1
  <2>2. CASE k # m
    <3>1. color'[k] = color[k]
      BY <1>2, <1>5, <1>8, <2>2 DEF Typed
    <3>2. color[k] = "grey" <=> \E i \in 1 .. n : stack[i].mod = k
      BY <1>1, <1>3 DEF IInv, Running, GreyOnStack
    <3>3. \A i \in 1 .. n : i \in 1 .. n - 1 \/ i = n
      BY <1>4
    <3> QED BY <1>3, <1>4, <1>9, <1>13, <2>2, <3>1, <3>2, <3>3
  <2> QED BY <2>1, <2>2
<1>18. stack' # <<>> /\ OwnModule'
  BY <1>7, <1>9, <1>10 DEF OwnModule, Top
<1>19. \A i \in 1 .. Len(emitted') : emitted'[i].mod # Nil
  BY <1>1, <1>5, <1>12 DEF IInv, Running
<1> QED
  BY <1>1, <1>12, <1>14, <1>15, <1>16, <1>17, <1>18, <1>19 DEF IInv, Started, Running

LEMMA ConvertRootIInv == IInv /\ ConvertRoot => IInv'
<1> SUFFICES ASSUME IInv, ConvertRoot PROVE IInv'
  OBVIOUS
<1>1. /\ status = "running" /\ stack # <<>> /\ Top.mod = Nil /\ Converting /\ Give
      /\ status' = "compiled" /\ stack' = Below /\ UNCHANGED <<world, color, locality, module>>
  BY DEF ConvertRoot, Converting
<1>2. Typed
  BY DEF IInv
<1>3. PICK n \in Nat : n = Len(stack) /\ n \in 1 .. n /\ Top = stack[n]
  BY <1>1, <1>2 DEF Typed, Top
<1>4. n = 1
  BY <1>1, <1>3 DEF IInv, Bottom
<1>5. stack' \in Seq(FrameType) /\ Len(stack') = 0
  BY <1>1, <1>2, <1>3, <1>4, BelowStack
<1>6. /\ emitted' \in Seq(EmittedType) /\ OnceEmitted' /\ ScopeIsMod'
      /\ \A i \in 1 .. Len(emitted') :
            emitted'[i].mod = Nil \/ \E j \in 1 .. Len(emitted) : emitted'[i].mod = emitted[j].mod
  BY <1>1, GiveEmitted DEF IInv, Running
<1>7. Typed'
  BY <1>1, <1>2, <1>5, <1>6 DEF Typed, Statuses
<1>8. Bottom' /\ OnceOnStack' /\ SavedBelow'
  BY <1>5 DEF Bottom, OnceOnStack, SavedBelow
<1>9. EmittedBlack'
  BY <1>1, <1>6 DEF IInv, EmittedBlack
<1> QED
  BY <1>1, <1>6, <1>7, <1>8, <1>9 DEF IInv, Started, Running

-----------------------------------------------------------------------------
LEMMA NextIInv == IInv /\ [Next]_vars => IInv'
<1> SUFFICES ASSUME IInv, [Next]_vars PROVE IInv'
  OBVIOUS
<1>1. CASE ParseRoot
  BY <1>1, ParseRootIInv
<1>2. CASE ImportAgain
  BY <1>2, SkipIInv DEF ImportAgain, results
<1>3. CASE ImportBuiltin
  BY <1>3, SkipIInv DEF ImportBuiltin, results
<1>4. CASE EnterModule
  BY <1>4, EnterModuleIInv
<1>5. CASE FileNotFound
  <2>1. Next1 \in Names
    BY <1>5, AdvancedStack DEF FileNotFound, NeedsFile, Importing, IInv
  <2> QED BY <1>5, <2>1, StopIInv
             DEF FileNotFound, NeedsFile, Importing, results, IInv, Typed
<1>6. CASE ConvertModule
  BY <1>6, ConvertModuleIInv
<1>7. CASE ConvertRoot
  BY <1>7, ConvertRootIInv
<1>8. CASE UnknownType
  BY <1>8, StopIInv DEF UnknownType, Converting, results, IInv, Typed
<1>9. CASE DeclareAlias
  BY <1>9, FewerAliases, OnTopIInv DEF DeclareAlias, Aliasing, results, IInv
<1>10. CASE RefuseAlias
  BY <1>10, StopIInv DEF RefuseAlias, Aliasing, results, IInv, Typed
<1>11. CASE UNCHANGED vars
  BY <1>11 DEF vars, results, IInv, Typed, Bottom, OnceOnStack, OnceEmitted, EmittedBlack,
              SavedBelow, ScopeIsMod, Started, Running, GreyOnStack, OwnModule, Top
<1> QED
  BY <1>1, <1>2, <1>3, <1>4, <1>5, <1>6, <1>7, <1>8, <1>9, <1>10, <1>11 DEF Next, Compile, Stopped

LEMMA Invariant == Spec => []IInv
BY InitIInv, NextIInv, PTL DEF Spec

\* However imports form cycles and whoever imports what, a module is on the
\* stack of imports at most once, exactly while it is grey, and its code is
\* generated at most once.
THEOREM ModuleProcessedOnce == Spec => []ProcessedOnce
<1>1. IInv => ProcessedOnce
  BY DEF IInv, Typed, OnceOnStack, OnceEmitted, Running, GreyOnStack, EmittedBlack, ProcessedOnce
<1> QED BY <1>1, Invariant, PTL

\* Every file's names are bound in its own module, however deep the imports
\* that were processed before it.
THEOREM NamesBoundInOwnModule == Spec => []OwnScope
<1>1. IInv => OwnScope
  BY DEF IInv, Typed, ScopeIsMod, Running, OwnModule, OwnScope
<1> QED BY <1>1, Invariant, PTL

-----------------------------------------------------------------------------
(***************************************************************************)
(* Names of types.                                                         *)
(***************************************************************************)
\* A name of a type is bare or has one qualifier.
LEMMA NameShape ==
    ASSUME NEW name \in Types
    PROVE  \/ /\ Len(name) = 1 /\ name[1] \in TypeNames /\ name = <<name[1]>>
           \/ /\ Len(name) = 2 /\ name[1] \in Names /\ name[2] \in TypeNames
              /\ name = <<name[1], name[2]>>
<1>1. CASE name \in Names \X TypeNames
  BY <1>1
<1>2. CASE name \in [1 .. 1 -> TypeNames]
  <2>1. name \in Seq(TypeNames) /\ Len(name) = 1
    BY <1>2
  <2>2. name[1] \in TypeNames
    BY <1>2
  <2>3. name = <<name[1]>>
    <3>1. <<name[1]>> \in Seq(TypeNames) /\ Len(<<name[1]>>) = 1
      BY <2>2
    <3> QED BY <1>2, <2>1, <3>1
  <2> QED BY <2>1, <2>2, <2>3
<1> QED BY <1>1, <1>2 DEF Types

LEMMA BareName ==
    ASSUME NEW t \in TypeNames
    PROVE  /\ <<t>> \in Types /\ Len(<<t>>) = 1
           /\ Qualified(Nil, <<t>>) = <<t>>
           /\ \A m \in Names : Qualified(m, <<t>>) = <<m, t>> /\ <<m, t>> \in Types
<1>1. <<t>> \in [1 .. 1 -> TypeNames]
  OBVIOUS
<1>2. ASSUME NEW m \in Names
      PROVE  Qualified(m, <<t>>) = <<m, t>>
  <2>1. m # Nil /\ Len(<<t>>) = 1
    BY NamesAssumption
  <2>2. <<m>> \o <<t>> = <<m, t>>
    <3> DEFINE S == Names \cup TypeNames
    <3>1. <<m>> \in Seq(S) /\ <<t>> \in Seq(S) /\ <<m, t>> \in Seq(S)
      OBVIOUS
    <3>2. /\ <<m>> \o <<t>> \in Seq(S) /\ Len(<<m>> \o <<t>>) = 2
          /\ (<<m>> \o <<t>>)[1] = m /\ (<<m>> \o <<t>>)[2] = t
      BY <3>1
    <3>3. Len(<<m, t>>) = 2 /\ <<m, t>>[1] = m /\ <<m, t>>[2] = t
      OBVIOUS
    <3>4. \A i \in 1 .. 2 : (<<m>> \o <<t>>)[i] = <<m, t>>[i]
      BY <3>2, <3>3
    <3> HIDE DEF S
    <3> QED BY <3>1, <3>2, <3>3, <3>4, SeqEqual
  <2> QED BY <2>1, <2>2 DEF Qualified
<1> QED BY <1>1, <1>2 DEF Types, Qualified

LEMMA QualifiedName ==
    ASSUME NEW m \in Names, NEW t \in TypeNames, NEW mod
    PROVE  /\ <<m, t>> \in Types /\ Len(<<m, t>>) = 2
           /\ Qualified(mod, <<m, t>>) = <<m, t>>
BY DEF Types, Qualified

LEMMA QualifiedTyped ==
    ASSUME NEW mod \in Mods, NEW name \in Types
    PROVE  Qualified(mod, name) \in Types
<1>1. CASE mod = Nil \/ Len(name) > 1
  BY <1>1 DEF Qualified
<1>2. CASE mod # Nil /\ ~(Len(name) > 1)
  <2>1. mod \in Names
    BY <1>2 DEF Mods
  <2>2. name[1] \in TypeNames /\ name = <<name[1]>>
    BY <1>2, NameShape
  <2> QED BY <2>1, <2>2, BareName
<1> QED BY <1>1, <1>2

\* What a name stands for: itself, its qualified form, or nothing.
LEMMA TypeForIs ==
    ASSUME NEW decl, NEW mod, NEW name, TypeFor(decl, mod, name) # Nil
    PROVE  /\ TypeFor(decl, mod, name) \in decl
           /\ TypeFor(decl, mod, name) \in {name, Qualified(mod, name)}
BY DEF TypeFor

LEMMA GetOrDeclareIs ==
    ASSUME NEW decl, NEW mod, NEW name
    PROVE  /\ GetOrDeclare(decl, mod, name) \in {name, Qualified(mod, name)}
           /\ GetOrDeclare(decl, mod, name) = name => name \in decl \/ name = Qualified(mod, name)
BY DEF TypeFor, GetOrDeclare

LEMMA GetOrDeclareTyped ==
    ASSUME NEW decl, NEW mod \in Mods, NEW name \in Types
    PROVE  GetOrDeclare(decl, mod, name) \in Types
BY QualifiedTyped, GetOrDeclareIs

LEMMA WorldMentions ==
    ASSUME NEW w \in Worlds, NEW f \in Files
    PROVE  w.types[f] \subseteq TypeNames /\ w.uses[f] \subseteq Names \X TypeNames
BY WorldsAssumption

-----------------------------------------------------------------------------
(***************************************************************************)
(* The tables hold modules, files and names of types.                      *)
(***************************************************************************)
LEMMA AliasTyped ==
    ASSUME Typed, stack # <<>>, Top.aliases # <<>>
    PROVE  /\ Head(Top.aliases) \in [name : Types, to : Types]
           /\ To \in Types
           /\ From \in Types
<1>1. Top \in FrameType
  BY DEF Typed, Top
<1>2. Top.aliases \in Seq([name : Types, to : Types])
  BY <1>1 DEF FrameType
<1>3. Head(Top.aliases) \in [name : Types, to : Types]
  <2> DEFINE A == [name : Types, to : Types]
             q == Top.aliases
  <2>1. q \in Seq(A) /\ q # <<>>
    BY <1>2
  <2> HIDE DEF A, q
  <2>2. Head(q) \in A
    BY <2>1
  <2> QED BY <2>2 DEF A, q
<1>4. module \in Mods
  BY DEF Typed
<1>5. To \in Types
  BY <1>3, <1>4, GetOrDeclareTyped DEF To
<1>6. From \in Types
  BY <1>3, <1>4, GetOrDeclareTyped DEF From
<1> QED BY <1>3, <1>5, <1>6

LEMMA ParseTyped ==
    ASSUME Typed, TablesTyped, NEW mod \in Mods, NEW file \in Files, Parse(mod, file)
    PROVE  declared' \subseteq Types
<1>1. {<<t>> : t \in world.types[file]} \cup world.uses[file] \subseteq Types
  <2>1. \A t \in TypeNames : <<t>> \in Types
    BY BareName
  <2>2. Names \X TypeNames \subseteq Types
    BY DEF Types
  <2> QED BY <2>1, <2>2, WorldMentions DEF Typed
<1>2. \A name \in Types : GetOrDeclare(declared, mod, name) \in Types
  BY GetOrDeclareTyped
<1> QED BY <1>1, <1>2 DEF Parse, TablesTyped

LEMMA NamedTyped ==
    ASSUME Typed, stack # <<>>
    PROVE  Named \subseteq Types
<1>1. Top \in FrameType
  BY DEF Typed, Top
<1>2. Top.file \in Files
  BY <1>1 DEF FrameType
<1>3. \A t \in TypeNames : <<t>> \in Types
  BY BareName
<1>4. Names \X TypeNames \subseteq Types
  BY DEF Types
<1> QED BY <1>2, <1>3, <1>4, WorldMentions DEF Typed, Named

LEMMA ConvertTyped ==
    ASSUME Typed, TablesTyped, stack # <<>>, ConvertDefinitions
    PROVE  definers' \in [Types -> SUBSET Files]
<1>1. Top \in FrameType
  BY DEF Typed, Top
<1>2. Top.file \in Files
  BY <1>1 DEF FrameType
<1> QED BY <1>2 DEF ConvertDefinitions, TablesTyped

LEMMA GiveTyped ==
    ASSUME Typed, TablesTyped, stack # <<>>, Give, \A name \in Named : Known(name)
    PROVE  links' \subseteq [file : Files, mod : Mods, name : Types, type : Types]
<1>1. Top \in FrameType
  BY DEF Typed, Top
<1>2. Top.file \in Files /\ Top.mod \in Mods
  BY <1>1 DEF FrameType, Mods
<1>3. \A name \in Named : TypeFor(declared, module, name) \in Types
  BY TypeForIs DEF Known, TablesTyped
<1> QED BY <1>2, <1>3, NamedTyped DEF Give, TablesTyped

LEMMA TablesTypedInit == Init => TablesTyped
BY DEF Init, TablesTyped

LEMMA TablesTypedNext == IInv /\ TablesTyped /\ [Next]_vars => TablesTyped'
<1> SUFFICES ASSUME IInv, TablesTyped, [Next]_vars PROVE TablesTyped'
  OBVIOUS
<1>0. Typed
  BY DEF IInv
<1>1. CASE ParseRoot
  <2>1. UNCHANGED <<fileOf, definers, aliasedTo, token, marked, links>>
    BY <1>1 DEF ParseRoot, aliases, results
  <2>2. declared' \subseteq Types
    <3>1. Nil \in Mods /\ Root \in Files
      BY RootIsFile DEF Mods
    <3>2. UNCHANGED declared \/ Parse(Nil, Root)
      BY <1>1 DEF ParseRoot
    <3> QED BY <1>0, <3>1, <3>2, ParseTyped DEF TablesTyped
  <2> QED BY <2>1, <2>2 DEF TablesTyped
<1>2. CASE ImportAgain \/ ImportBuiltin \/ FileNotFound
  BY <1>2 DEF ImportAgain, ImportBuiltin, FileNotFound, tables, aliases, results, TablesTyped
<1>3. CASE EnterModule
  <2>1. UNCHANGED <<definers, aliasedTo, token, marked, links>>
    BY <1>3 DEF EnterModule, aliases, results
  <2>2. Next1 \in Names /\ Top.file \in Files
    <3>1. Next1 \in Names /\ Top \in FrameType
      BY <1>0, <1>3, AdvancedStack DEF EnterModule, NeedsFile, Importing
    <3> QED BY <3>1 DEF FrameType
  <2>3. PICK file : file = FindFile(Next1, Top.file)
    OBVIOUS
  <2>4. file \in Files
    BY <1>3, <2>2, <2>3, FoundFile DEF EnterModule
  <2>5. /\ fileOf' = [fileOf EXCEPT ![Next1] = file]
        /\ UNCHANGED declared \/ Parse(Next1, file)
    BY <1>3, <2>3 DEF EnterModule
  <2>6. fileOf' \in [Names -> Files \cup {Nil}]
    BY <2>4, <2>5 DEF TablesTyped
  <2>7. declared' \subseteq Types
    BY <1>0, <2>2, <2>4, <2>5, ParseTyped DEF TablesTyped, Mods
  <2> QED BY <2>1, <2>6, <2>7 DEF TablesTyped
<1>4. CASE ConvertModule \/ ConvertRoot \/ UnknownType
  <2>1. stack # <<>> /\ ConvertDefinitions /\ UNCHANGED <<fileOf, declared, aliasedTo, token, marked>>
    BY <1>4 DEF ConvertModule, ConvertRoot, UnknownType, Converting, aliases
  <2>2. UNCHANGED links \/ (Give /\ \A name \in Named : Known(name))
    BY <1>4 DEF ConvertModule, ConvertRoot, UnknownType, results
  <2>3. definers' \in [Types -> SUBSET Files]
    BY <1>0, <2>1, ConvertTyped
  <2>4. links' \subseteq [file : Files, mod : Mods, name : Types, type : Types]
    BY <1>0, <2>1, <2>2, GiveTyped DEF TablesTyped
  <2> QED BY <2>1, <2>3, <2>4 DEF TablesTyped
<1>5. CASE DeclareAlias \/ RefuseAlias
  <2>1. UNCHANGED <<fileOf, definers, links>> /\ declared' = declared \cup {From, To}
    BY <1>5 DEF DeclareAlias, RefuseAlias, results
  <2>2. To \in Types /\ From \in Types
    BY <1>0, <1>5, AliasTyped DEF DeclareAlias, RefuseAlias, Aliasing
  <2>3. /\ aliasedTo' = aliasedTo \/ aliasedTo' = [aliasedTo EXCEPT ![From] = To]
        /\ token' = token \/ token' = [token EXCEPT ![From] = token[To]]
        /\ marked' \subseteq marked \cup Walk
    BY <1>5 DEF DeclareAlias, RefuseAlias, Unmarked
  <2>4. /\ aliasedTo' \in [Types -> Types \cup {Nil}]
        /\ token' \in [Types -> Types]
    BY <2>2, <2>3 DEF TablesTyped
  <2>5. marked' \subseteq Types
    BY <2>2, <2>3 DEF TablesTyped, Walk, Chain, Followed, Linked
  <2> QED BY <2>1, <2>2, <2>4, <2>5 DEF TablesTyped
<1>6. CASE UNCHANGED vars
  BY <1>6 DEF vars, tables, aliases, results, TablesTyped
<1> QED BY <1>1, <1>2, <1>3, <1>4, <1>5, <1>6 DEF Next, Compile, Stopped

\* Every table of the compiler holds what it is meant to hold: the modules'
\* files, the declared types, what aliases stand for (each a type, never the
\* answer "not found" of get_type), and the bottom of the stack is the
\* program's file.
THEOREM TablesHoldTheirTypes == Spec => []TypeOK
<1>1. IInv /\ TablesTyped => TypeOK
  BY DEF IInv, Typed, Bottom, TablesTyped, TypeOK, Statuses, Colors, Mods, EmittedType
<1> QED BY <1>1, InitIInv, NextIInv, TablesTypedInit, TablesTypedNext, PTL DEF Spec

-----------------------------------------------------------------------------
(***************************************************************************)
(* What a module brings in.                                                *)
(***************************************************************************)
LEMMA ImportedNames ==
    ASSUME Typed, NEW f \in Files
    PROVE  /\ Imported(f) \subseteq Names
           /\ world.imports[f] \in Seq(Names)
           /\ Imported(f) = {world.imports[f][k] : k \in 1 .. Len(world.imports[f])}
<1>1. world.imports[f] \in Seq(Names)
  BY WorldTyped DEF Typed
<1> QED BY <1>1 DEF Imported

LEMMA ImportsOfNames ==
    ASSUME Typed, TablesTyped, NEW n \in Names
    PROVE  ImportsOf(n) \subseteq Names
BY ImportedNames DEF ImportsOf, TablesTyped

\* A module brings in its imports, and the imports of what it brings in.
LEMMA BringsClosed ==
    ASSUME Typed, TablesTyped, NEW n \in Names
    PROVE  /\ Brings(n) \subseteq Names
           /\ ImportsOf(n) \subseteq Brings(n)
           /\ \A m \in Brings(n) : ImportsOf(m) \subseteq Brings(n)
<1>1. ImportsOf(n) \subseteq Brings(n)
  BY ImportsOfNames DEF Brings, ClosedFrom
<1>2. ASSUME NEW m \in Brings(n), NEW x \in ImportsOf(m)
      PROVE  x \in Brings(n)
  <2>1. m \in Names /\ \A set \in SUBSET Names : ClosedFrom(n, set) => m \in set
    BY <1>2 DEF Brings
  <2>2. x \in Names
    BY <1>2, <2>1, ImportsOfNames
  <2>3. ASSUME NEW set \in SUBSET Names, ClosedFrom(n, set)
        PROVE  x \in set
    BY <1>2, <2>1, <2>3 DEF ClosedFrom
  <2> QED BY <2>2, <2>3 DEF Brings
<1> QED BY <1>1, <1>2 DEF Brings

\* The more files are known, the more a module brings in.
LEMMA BringsGrows ==
    ASSUME UNCHANGED world,
           UNCHANGED fileOf \/ \E m \in Names : /\ fileOf[m] = Nil /\ TablesTyped
                                                /\ \E file : fileOf' = [fileOf EXCEPT ![m] = file],
           NEW n \in Names
    PROVE  Brings(n) \subseteq Brings(n)'
<1>1. \A x \in Names : ImportsOf(x) \subseteq ImportsOf(x)'
  BY DEF ImportsOf, Imported, TablesTyped
<1>2. ASSUME NEW set \in SUBSET Names, ClosedFrom(n, set)'
      PROVE  ClosedFrom(n, set)
  BY <1>1, <1>2 DEF ClosedFrom
<1> QED BY <1>2 DEF Brings

LEMMA BringsSame ==
    ASSUME UNCHANGED <<world, fileOf>>, NEW n
    PROVE  Brings(n)' = Brings(n)
BY DEF Brings, ClosedFrom, ImportsOf, Imported

-----------------------------------------------------------------------------
(***************************************************************************)
(* The imports that are still ahead of a frame.                            *)
(***************************************************************************)
Darker == \A n \in Names : color'[n] = "white" => color[n] = "white"

LEMMA TailElements ==
    ASSUME NEW S, NEW q \in Seq(S), q # <<>>
    PROVE  /\ \A k \in 1 .. Len(Tail(q)) : \E j \in 1 .. Len(q) : Tail(q)[k] = q[j]
           /\ \A j \in 1 .. Len(q) :
                 q[j] = Head(q) \/ \E k \in 1 .. Len(Tail(q)) : Tail(q)[k] = q[j]
<1>1. PICK n : n = Len(q)
  OBVIOUS
<1>2. n \in Nat /\ n # 0 /\ Head(q) = q[1]
  BY <1>1
<1>3. Len(Tail(q)) = n - 1 /\ \A k \in 1 .. n - 1 : Tail(q)[k] = q[k + 1]
  BY <1>1, HeadTailProperties
<1>4. ASSUME NEW k \in 1 .. n - 1
      PROVE  k + 1 \in 1 .. n
  BY <1>2
<1>5. ASSUME NEW j \in 1 .. n, j # 1
      PROVE  j - 1 \in 1 .. n - 1 /\ (j - 1) + 1 = j
  BY <1>2, <1>5
<1>6. \A k \in 1 .. n - 1 : \E j \in 1 .. n : Tail(q)[k] = q[j]
  BY <1>3, <1>4
<1>7. \A j \in 1 .. n : q[j] = Head(q) \/ \E k \in 1 .. n - 1 : Tail(q)[k] = q[j]
  BY <1>2, <1>3, <1>5
<1> QED BY <1>1, <1>3, <1>6, <1>7

\* A frame that stays as it is.
LEMMA HandledStays ==
    ASSUME Typed, NEW f, f.file \in Files, Handled(f), UNCHANGED world, Darker
    PROVE  Handled(f)'
<1>1. Imported(f.file)' = Imported(f.file) /\ Imported(f.file) \subseteq Names
  BY ImportedNames DEF Imported
<1> QED BY <1>1 DEF Handled, Darker

\* A frame that has had its next import.
LEMMA HandledAdvances ==
    ASSUME Typed, NEW f, NEW g, f.file \in Files, f.left \in Seq(Names), f.left # <<>>,
           g.file = f.file, g.left = Tail(f.left), Handled(f), UNCHANGED world, Darker,
           color'[Head(f.left)] # "white"
    PROVE  Handled(g)'
<1>1. Imported(f.file)' = Imported(f.file) /\ Imported(f.file) \subseteq Names
  BY ImportedNames DEF Imported
<1>2. PICK q, r : q = f.left /\ r = Tail(q)
  OBVIOUS
<1>3. /\ \A k \in 1 .. Len(r) : \E j \in 1 .. Len(q) : r[k] = q[j]
      /\ \A j \in 1 .. Len(q) : q[j] = Head(q) \/ \E k \in 1 .. Len(r) : r[k] = q[j]
  BY <1>2, TailElements
<1>4. /\ \A j \in 1 .. Len(q) : q[j] \in Imported(f.file)
      /\ \A n \in Imported(f.file) : color[n] = "white" => \E j \in 1 .. Len(q) : q[j] = n
  BY <1>2 DEF Handled
<1>5. \A k \in 1 .. Len(r) : r[k] \in Imported(f.file)
  BY <1>3, <1>4
<1>6. \A n \in Imported(f.file) : color'[n] = "white" => \E k \in 1 .. Len(r) : r[k] = n
  <2> SUFFICES ASSUME NEW n \in Imported(f.file), color'[n] = "white"
               PROVE  \E k \in 1 .. Len(r) : r[k] = n
    OBVIOUS
  <2>1. color[n] = "white" /\ n # Head(q)
    BY <1>1, <1>2 DEF Darker
  <2> QED BY <1>3, <1>4, <2>1
<1>7. g.left = r /\ Imported(g.file)' = Imported(f.file)
  BY <1>1, <1>2
<1>8. /\ \A k \in 1 .. Len(g.left) : g.left[k] \in Imported(g.file)'
      /\ \A n \in Imported(g.file)' :
            color'[n] = "white" => \E k \in 1 .. Len(g.left) : g.left[k] = n
  BY <1>5, <1>6, <1>7
<1> QED BY <1>8 DEF Handled

LEMMA FrameParts ==
    ASSUME Typed, NEW i \in 1 .. Len(stack)
    PROVE  /\ stack[i] \in FrameType
           /\ stack[i].mod \in Mods /\ stack[i].file \in Files
           /\ stack[i].left \in Seq(Names)
           /\ stack[i].aliases \in Seq([name : Types, to : Types])
<1>1. stack[i] \in FrameType
  BY DEF Typed
<1> QED BY <1>1 DEF FrameType, Mods

\* The frames after an import of the innermost one.
LEMMA AdvancedFrames ==
    ASSUME Typed, stack # <<>>, Top.left # <<>>
    PROVE  /\ Len(stack) \in 1 .. Len(stack)
           /\ \A i \in 1 .. Len(stack) :
                 /\ Advanced[i].mod = stack[i].mod /\ Advanced[i].file = stack[i].file
                 /\ Advanced[i].aliases = stack[i].aliases
                 /\ i # Len(stack) => Advanced[i] = stack[i]
           /\ Advanced[Len(stack)].left = Tail(Top.left)
<1>1. PICK n : n = Len(stack)
  OBVIOUS
<1>2. n \in 1 .. n /\ Top = stack[n] /\ Top \in FrameType
  BY <1>1 DEF Typed, Top
<1>3. PICK t : t = [Top EXCEPT !.left = Tail(@)]
  OBVIOUS
<1>4. /\ t.mod = Top.mod /\ t.file = Top.file /\ t.aliases = Top.aliases
      /\ t.left = Tail(Top.left)
  BY <1>2, <1>3 DEF FrameType
<1>5. Advanced = [stack EXCEPT ![n] = t]
  BY <1>1, <1>2, <1>3 DEF Advanced
<1>6. \A i \in 1 .. n : Advanced[i] = IF i = n THEN t ELSE stack[i]
  BY <1>1, <1>5 DEF Typed
<1> QED BY <1>1, <1>2, <1>4, <1>6

LEMMA OneAliasOnFrames ==
    ASSUME Typed, stack # <<>>, Top.aliases # <<>>
    PROVE  /\ Len(stack) \in 1 .. Len(stack)
           /\ Len(OneAliasOn) = Len(stack)
           /\ \A i \in 1 .. Len(stack) :
                 /\ OneAliasOn[i].mod = stack[i].mod /\ OneAliasOn[i].file = stack[i].file
                 /\ OneAliasOn[i].left = stack[i].left
                 /\ i # Len(stack) => OneAliasOn[i] = stack[i]
           /\ OneAliasOn[Len(stack)].aliases = Tail(Top.aliases)
<1>1. PICK n : n = Len(stack)
  OBVIOUS
<1>2. n \in 1 .. n /\ Top = stack[n] /\ Top \in FrameType
  BY <1>1 DEF Typed, Top
<1>3. PICK t : t = [Top EXCEPT !.aliases = Tail(@)]
  OBVIOUS
<1>4. /\ t.mod = Top.mod /\ t.file = Top.file /\ t.left = Top.left
      /\ t.aliases = Tail(Top.aliases)
  BY <1>2, <1>3 DEF FrameType
<1>5. OneAliasOn = [stack EXCEPT ![n] = t]
  BY <1>1, <1>2, <1>3 DEF OneAliasOn
<1>6. \A i \in 1 .. n : OneAliasOn[i] = IF i = n THEN t ELSE stack[i]
  BY <1>1, <1>5 DEF Typed
<1>7. Len(OneAliasOn) = n
  BY <1>1, FewerAliases
<1> QED BY <1>1, <1>2, <1>4, <1>6, <1>7

-----------------------------------------------------------------------------
(***************************************************************************)
(* The order of the code, action by action.                                *)
(***************************************************************************)
LEMMA InitOrder == Init => OrderInv
<1> SUFFICES ASSUME Init PROVE OrderInv
  OBVIOUS
<1>1. /\ \A n \in Names : color[n] = "white" /\ fileOf[n] = Nil
      /\ Len(stack) = 0 /\ emitted = <<>>
  BY DEF Init
<1>2. DOMAIN emitted = {}
  BY <1>1
<1> QED
  BY <1>1, <1>2 DEF OrderInv, WhiteUnknown, FrameFiles, BlackEmitted, ImportsHandled, BringsAbove,
                AfterItsImports

\* What has been emitted stays after its imports while nothing is emitted.
LEMMA OrderOfEmitted ==
    ASSUME Typed, AfterItsImports, UNCHANGED <<world, emitted>>,
           \A n \in Names : Brings(n) \subseteq Brings(n)'
    PROVE  AfterItsImports'
<1> SUFFICES ASSUME NEW i \in DOMAIN emitted, NEW n \in Imported(emitted[i].file) \ Builtin,
                    ~\E j \in 1 .. i - 1 : emitted[j].mod = n
             PROVE  emitted[i].mod \in Brings(n)'
  BY DEF AfterItsImports, Imported
<1>1. emitted[i] \in EmittedType
  BY DEF Typed
<1>2. n \in Names
  BY <1>1, ImportedNames DEF EmittedType
<1> QED BY <1>2 DEF AfterItsImports

\* A step that keeps every frame's module and file.
LEMMA KeepOrder ==
    ASSUME OrderInv, Typed, UNCHANGED <<world, fileOf, emitted>>, Len(stack') = Len(stack),
           \A i \in 1 .. Len(stack) : stack'[i].mod = stack[i].mod /\ stack'[i].file = stack[i].file,
           Darker, BlackEmitted', ImportsHandled'
    PROVE  OrderInv'
<1>1. WhiteUnknown'
  BY DEF OrderInv, WhiteUnknown, Darker
<1>2. FrameFiles'
  BY DEF OrderInv, FrameFiles
<1>3. \A n : Brings(n)' = Brings(n)
  BY BringsSame
<1>4. BringsAbove'
  <2> SUFFICES ASSUME NEW i \in 1 .. Len(stack), NEW j \in 1 .. Len(stack), 1 < i, i < j
               PROVE  stack'[j].mod \in Brings(stack[i].mod)'
    BY DEF BringsAbove
  <2>1. stack[j].mod \in Brings(stack[i].mod)
    BY DEF OrderInv, BringsAbove
  <2>2. PICK m : m = stack[i].mod
    OBVIOUS
  <2>3. Brings(m)' = Brings(m)
    BY <1>3
  <2>4. stack'[j].mod \in Brings(m)'
    BY <2>1, <2>2, <2>3
  <2>5. stack'[i].mod = m
    BY <2>2
  <2> QED BY <2>4, <2>5
<1>5. AfterItsImports'
  BY <1>3, OrderOfEmitted DEF OrderInv
<1> QED BY <1>1, <1>2, <1>4, <1>5 DEF OrderInv

\* Colours only darken when one module leaves white or turns black.
LEMMA ColorDarkens ==
    ASSUME Typed, NEW m \in Names, NEW c \in {"grey", "black"},
           color' = [color EXCEPT ![m] = c]
    PROVE  Darker /\ color'[m] # "white"
BY DEF Typed, Darker

LEMMA SkipOrder ==
    ASSUME IInv, OrderInv, Importing, stack' = Advanced,
           UNCHANGED <<world, fileOf, emitted>>,
           \/ UNCHANGED color /\ ~Fresh
           \/ Next1 \in Builtin /\ color' = [color EXCEPT ![Next1] = "black"]
    PROVE  OrderInv'
<1>1. Typed /\ stack # <<>> /\ Top.left # <<>>
  BY DEF IInv, Importing
<1>2. Next1 \in Names /\ Len(Advanced) = Len(stack)
  BY <1>1, AdvancedStack
<1>3. Darker /\ color'[Next1] # "white"
  BY <1>1, <1>2, ColorDarkens DEF Darker, Fresh
<1>4. BlackEmitted'
  BY <1>1, <1>2 DEF OrderInv, BlackEmitted, Typed
<1>5. PICK n : n = Len(stack)
  OBVIOUS
<1>6. /\ n \in 1 .. n /\ Len(stack') = n
      /\ \A i \in 1 .. n : /\ stack'[i].mod = stack[i].mod /\ stack'[i].file = stack[i].file
                           /\ i # n => stack'[i] = stack[i]
      /\ stack'[n].left = Tail(Top.left) /\ Top = stack[n] /\ Next1 = Head(Top.left)
  BY <1>1, <1>2, <1>5, AdvancedFrames DEF Top, Next1
<1>7. ImportsHandled'
  <2> SUFFICES ASSUME NEW i \in 1 .. n PROVE Handled(stack[i])'
    BY <1>6 DEF ImportsHandled
  <2>1. PICK f, g : f = stack[i] /\ g = stack'[i]
    OBVIOUS
  <2>2. f.file \in Files /\ f.left \in Seq(Names) /\ Handled(f)
    BY <1>1, <1>5, <2>1, FrameParts DEF OrderInv, ImportsHandled
  <2>3. Handled(g)'
    <3>1. CASE i # n
      BY <1>1, <1>3, <1>6, <2>1, <2>2, <3>1, HandledStays
    <3>2. CASE i = n
      <4>1. g.file = f.file /\ g.left = Tail(f.left) /\ f.left # <<>> /\ Next1 = Head(f.left)
        BY <1>1, <1>6, <2>1, <3>2
      <4> QED BY <1>1, <1>3, <2>2, <4>1, HandledAdvances
    <3> QED BY <3>1, <3>2
  <2> QED BY <2>1, <2>3 DEF Handled, Imported
<1> QED BY <1>1, <1>3, <1>4, <1>5, <1>6, <1>7, KeepOrder

LEMMA AliasOrder == IInv /\ OrderInv /\ DeclareAlias => OrderInv'
<1> SUFFICES ASSUME IInv, OrderInv, DeclareAlias PROVE OrderInv'
  OBVIOUS
<1>1. /\ Typed /\ stack # <<>> /\ Top.aliases # <<>> /\ stack' = OneAliasOn
      /\ UNCHANGED <<world, color, fileOf, emitted>>
  BY DEF IInv, DeclareAlias, Aliasing, results
<1>2. PICK n : n = Len(stack)
  OBVIOUS
<1>3. /\ Len(stack') = n
      /\ \A i \in 1 .. n : /\ stack'[i].mod = stack[i].mod /\ stack'[i].file = stack[i].file
                           /\ stack'[i].left = stack[i].left
  BY <1>1, <1>2, OneAliasOnFrames
<1>4. Darker /\ BlackEmitted'
  BY <1>1 DEF Darker, OrderInv, BlackEmitted
<1>5. ImportsHandled'
  <2> SUFFICES ASSUME NEW i \in 1 .. n PROVE Handled(stack[i])'
    BY <1>3 DEF ImportsHandled
  <2>1. Handled(stack[i])
    BY <1>2 DEF OrderInv, ImportsHandled
  <2>2. stack'[i].file = stack[i].file /\ stack'[i].left = stack[i].left
    BY <1>3
  <2> QED BY <1>1, <2>1, <2>2 DEF Handled, Imported
<1> QED BY <1>1, <1>2, <1>3, <1>4, <1>5, KeepOrder

\* A step that stops the compilation and finds no file.
LEMMA StopOrder ==
    ASSUME IInv, OrderInv, UNCHANGED <<world, fileOf, stack, emitted>>,
           \/ UNCHANGED color
           \/ Next1 \in Names /\ color' = [color EXCEPT ![Next1] = "grey"]
    PROVE  OrderInv'
<1>1. Typed
  BY DEF IInv
<1>2. Darker
  BY <1>1, ColorDarkens DEF Darker
<1>3. BlackEmitted'
  BY <1>1 DEF OrderInv, BlackEmitted, Typed
<1>4. ImportsHandled'
  <2> SUFFICES ASSUME NEW i \in 1 .. Len(stack) PROVE Handled(stack[i])'
    BY DEF ImportsHandled
  <2>1. PICK f : f = stack[i]
    OBVIOUS
  <2>2. f.file \in Files /\ Handled(f)
    BY <1>1, <2>1, FrameParts DEF OrderInv, ImportsHandled
  <2>3. Handled(f)'
    BY <1>1, <1>2, <2>2, HandledStays
  <2> QED BY <2>1, <2>3 DEF Handled, Imported
<1> QED BY <1>1, <1>2, <1>3, <1>4, KeepOrder

LEMMA ParseRootOrder == IInv /\ OrderInv /\ ParseRoot => OrderInv'
<1> SUFFICES ASSUME IInv, OrderInv, ParseRoot PROVE OrderInv'
  OBVIOUS
<1>1. /\ Typed /\ stack = <<>>
      /\ UNCHANGED <<world, color, fileOf, emitted>>
  BY DEF IInv, Started, ParseRoot, results
<1>2. CASE Root \in world.broken
  BY <1>1, <1>2, StopOrder DEF ParseRoot
<1>3. CASE Root \notin world.broken
  <2> DEFINE f == Frame(Nil, Root)
  <2>1. Len(stack') = 1 /\ stack'[1] = f
    BY <1>3 DEF ParseRoot
  <2>2. f.file = Root /\ f.left = world.imports[Root]
    BY DEF Frame
  <2>3. WhiteUnknown' /\ BlackEmitted' /\ FrameFiles' /\ BringsAbove'
    BY <1>1, <2>1, <2>2 DEF OrderInv, WhiteUnknown, BlackEmitted, FrameFiles, BringsAbove
  <2>4. ImportsHandled'
    <3>1. Imported(Root) = {world.imports[Root][k] : k \in 1 .. Len(world.imports[Root])}
      BY <1>1, RootIsFile, ImportedNames
    <3>2. Imported(Root)' = Imported(Root)
      BY <1>1 DEF Imported
    <3>3. stack'[1].file = Root /\ stack'[1].left = world.imports[Root]
      BY <2>1, <2>2
    <3> QED BY <2>1, <3>1, <3>2, <3>3 DEF ImportsHandled, Handled
  <2>5. AfterItsImports'
    <3>1. \A n \in Names : Brings(n) \subseteq Brings(n)'
      BY <1>1, BringsSame
    <3> QED BY <1>1, <3>1, OrderOfEmitted DEF OrderInv
  <2> QED BY <2>3, <2>4, <2>5 DEF OrderInv
<1> QED BY <1>2, <1>3

\* The module on top is one that every module below it brings in, and so is
\* what it imports next.
LEMMA NextBrought ==
    ASSUME IInv, TablesTyped, OrderInv, stack # <<>>, Top.left # <<>>,
           NEW i \in 1 .. Len(stack), 1 < i
    PROVE  Next1 \in Brings(stack[i].mod)
<1>1. Typed
  BY DEF IInv
<1>2. PICK n : n = Len(stack)
  OBVIOUS
<1>3. n \in Nat /\ n \in 1 .. n /\ 1 < n /\ Top = stack[n]
  BY <1>1, <1>2 DEF Typed, Top
<1>4. \A k \in 1 .. n : 1 < k => stack[k].mod \in Names
  BY <1>1, <1>2, FrameParts DEF IInv, Bottom, Mods
<1>5. Next1 \in Imported(Top.file)
  <2>1. PICK q : q = Top.left
    OBVIOUS
  <2>2. q \in Seq(Names) /\ q # <<>>
    BY <1>1, <1>2, <1>3, <2>1, FrameParts
  <2>3. 1 \in 1 .. Len(q) /\ Next1 = q[1]
    BY <2>1, <2>2 DEF Next1
  <2> QED BY <1>2, <1>3, <2>1, <2>3 DEF OrderInv, ImportsHandled, Handled
<1>6. ImportsOf(Top.mod) = Imported(Top.file)
  <2>1. fileOf[Top.mod] = Top.file
    BY <1>2, <1>3 DEF OrderInv, FrameFiles
  <2>2. Top.file # Nil
    BY <1>1, <1>2, <1>3, FrameParts, NamesAssumption
  <2> QED BY <2>1, <2>2 DEF ImportsOf
<1>7. CASE i = n
  BY <1>1, <1>3, <1>4, <1>5, <1>6, <1>7, BringsClosed
<1>8. CASE i # n
  <2>1. i < n
    BY <1>2, <1>3, <1>8
  <2>2. Top.mod \in Brings(stack[i].mod)
    BY <1>2, <1>3, <2>1 DEF OrderInv, BringsAbove
  <2> QED BY <1>1, <1>2, <1>4, <1>5, <1>6, <2>2, BringsClosed
<1> QED BY <1>7, <1>8

\* The file of a white module is found: nothing on the stack is disturbed.
LEMMA FoundOrder ==
    ASSUME IInv, TablesTyped, OrderInv, status = "running", UNCHANGED <<world, emitted>>,
           NEW m \in Names, color[m] = "white", color' = [color EXCEPT ![m] = "grey"],
           NEW file, fileOf' = [fileOf EXCEPT ![m] = file]
    PROVE  /\ WhiteUnknown' /\ BlackEmitted' /\ AfterItsImports' /\ Darker
           /\ \A x \in Names : Brings(x) \subseteq Brings(x)'
           /\ \A i \in 1 .. Len(stack) :
                 i # 1 => /\ stack[i].mod \in Names /\ stack[i].mod # m
                          /\ fileOf'[stack[i].mod] = stack[i].file
<1>1. Typed
  BY DEF IInv
<1>2. fileOf[m] = Nil
  BY DEF OrderInv, WhiteUnknown
<1>3. Darker
  BY <1>1, ColorDarkens
<1>4. WhiteUnknown'
  BY <1>1 DEF OrderInv, WhiteUnknown, TablesTyped, Typed
<1>5. BlackEmitted'
  BY <1>1 DEF OrderInv, BlackEmitted, Typed
<1>6. \A x \in Names : Brings(x) \subseteq Brings(x)'
  BY <1>2, BringsGrows
<1>7. AfterItsImports'
  BY <1>1, <1>6, OrderOfEmitted DEF OrderInv
<1>8. ASSUME NEW i \in 1 .. Len(stack), i # 1
      PROVE  stack[i].mod \in Names /\ stack[i].mod # m /\ fileOf'[stack[i].mod] = stack[i].file
  <2>1. stack[i].mod \in Names
    BY <1>1, <1>8, FrameParts DEF IInv, Bottom, Mods
  <2>2. color[stack[i].mod] = "grey"
    BY <2>1 DEF IInv, Running, GreyOnStack
  <2>3. stack[i].mod # m
    BY <2>2
  <2>4. fileOf[stack[i].mod] = stack[i].file
    BY <1>8 DEF OrderInv, FrameFiles
  <2> QED BY <2>1, <2>3, <2>4 DEF TablesTyped
<1> QED BY <1>3, <1>4, <1>5, <1>6, <1>7, <1>8

LEMMA EnterOrder == IInv /\ TablesTyped /\ OrderInv /\ EnterModule => OrderInv'
<1> SUFFICES ASSUME IInv, TablesTyped, OrderInv, EnterModule PROVE OrderInv'
  OBVIOUS
<1>1. Typed /\ status = "running" /\ stack # <<>> /\ Top.left # <<>> /\ Fresh
  BY DEF IInv, EnterModule, NeedsFile, Importing
<1>2. PICK m, file, n : m = Next1 /\ file = FindFile(Next1, Top.file) /\ n = Len(stack)
  OBVIOUS
<1>3. m \in Names /\ color[m] = "white" /\ Len(Advanced) = n /\ Advanced \in Seq(FrameType)
  BY <1>1, <1>2, AdvancedStack DEF Fresh
<1>4. n \in Nat /\ n \in 1 .. n /\ Top = stack[n]
  BY <1>1, <1>2 DEF Typed, Top
<1>5. file \in Files
  <2>1. Top.file \in Files
    BY <1>1, <1>2, <1>4, FrameParts
  <2> QED BY <1>2, <1>3, <2>1, FoundFile DEF EnterModule
<1>6. /\ UNCHANGED <<world, emitted>> /\ color' = [color EXCEPT ![m] = "grey"]
      /\ fileOf' = [fileOf EXCEPT ![m] = file]
  BY <1>2 DEF EnterModule, results
<1>7. /\ WhiteUnknown' /\ BlackEmitted' /\ AfterItsImports' /\ Darker
      /\ \A x \in Names : Brings(x) \subseteq Brings(x)'
      /\ \A i \in 1 .. n :
            i # 1 => /\ stack[i].mod \in Names /\ stack[i].mod # m
                     /\ fileOf'[stack[i].mod] = stack[i].file
  BY <1>1, <1>2, <1>3, <1>6, FoundOrder
<1>8. \A i \in 1 .. n : stack[i].file \in Files /\ Handled(stack[i]) /\ stack[i].left \in Seq(Names)
  BY <1>1, <1>2, FrameParts DEF OrderInv, ImportsHandled
<1>9. \A i \in 1 .. n : i = 1 => stack[i].file = Root
  BY <1>2 DEF OrderInv, FrameFiles
<1>10. CASE file \in world.broken
  <2>1. UNCHANGED stack
    BY <1>2, <1>10 DEF EnterModule
  <2>2. FrameFiles'
    BY <1>2, <1>7, <1>9, <2>1 DEF FrameFiles
  <2>3. ImportsHandled'
    <3> SUFFICES ASSUME NEW i \in 1 .. n PROVE Handled(stack[i])'
      BY <1>2, <2>1 DEF ImportsHandled
    <3>1. PICK f : f = stack[i]
      OBVIOUS
    <3>2. Handled(f)'
      BY <1>1, <1>6, <1>7, <1>8, <3>1, HandledStays
    <3> QED BY <2>1, <3>1, <3>2 DEF Handled, Imported
  <2>4. BringsAbove'
    <3> SUFFICES ASSUME NEW i \in 1 .. n, NEW j \in 1 .. n, 1 < i, i < j
                 PROVE  stack'[j].mod \in Brings(stack[i].mod)'
      BY <1>2, <2>1 DEF BringsAbove
    <3>1. PICK x : x = stack[i].mod
      OBVIOUS
    <3>2. stack[j].mod \in Brings(x) /\ x \in Names
      BY <1>2, <1>7, <3>1 DEF OrderInv, BringsAbove
    <3>3. stack'[j].mod \in Brings(x)' /\ stack'[i].mod = x
      BY <1>7, <2>1, <3>1, <3>2
    <3> QED BY <3>3
  <2> QED BY <1>7, <2>2, <2>3, <2>4 DEF OrderInv
<1>11. CASE file \notin world.broken
  <2> DEFINE g == Frame(m, file)
  <2>1. stack' = Append(Advanced, g)
    BY <1>2, <1>11 DEF EnterModule
  <2>2. g.mod = m /\ g.file = file /\ g.left = world.imports[file] /\ g \in FrameType
    BY <1>1, <1>3, <1>5, WorldTyped DEF Frame, Typed, FrameType, Mods
  <2>3. /\ Len(stack') = n + 1 /\ stack'[n + 1] = g
        /\ \A i \in 1 .. n : stack'[i] = Advanced[i]
    BY <1>3, <1>4, <2>1, <2>2
  <2>4. /\ \A i \in 1 .. n : /\ stack'[i].mod = stack[i].mod /\ stack'[i].file = stack[i].file
                             /\ i # n => stack'[i] = stack[i]
        /\ stack'[n].left = Tail(Top.left)
    BY <1>1, <1>2, <1>4, <2>3, AdvancedFrames
  <2>5. \A i \in 1 .. n + 1 : i \in 1 .. n \/ (i = n + 1 /\ i # 1)
    BY <1>4
  <2>6. FrameFiles'
    <3>1. fileOf'[m] = file
      BY <1>3, <1>6 DEF TablesTyped
    <3> SUFFICES ASSUME NEW i \in 1 .. n + 1
                 PROVE  IF i = 1 THEN stack'[i].file = Root
                        ELSE stack'[i].file = fileOf'[stack'[i].mod]
      BY <2>3 DEF FrameFiles
    <3>2. CASE i \in 1 .. n
      BY <1>7, <1>9, <2>4, <3>2
    <3>3. CASE i = n + 1 /\ i # 1
      BY <2>2, <2>3, <3>1, <3>3
    <3> QED BY <2>5, <3>2, <3>3
  <2>7. ImportsHandled'
    <3> SUFFICES ASSUME NEW i \in 1 .. n + 1 PROVE Handled(stack[i])'
      BY <2>3 DEF ImportsHandled
    <3>1. PICK h : h = stack'[i]
      OBVIOUS
    <3>2. CASE i \in 1 .. n
      <4>1. PICK f : f = stack[i]
        OBVIOUS
      <4>2. Handled(f) /\ f.file \in Files /\ f.left \in Seq(Names)
        BY <1>8, <3>2, <4>1
      <4>3. Handled(h)'
        <5>1. CASE i # n
          BY <1>1, <1>6, <1>7, <2>4, <3>1, <3>2, <4>1, <4>2, <5>1, HandledStays
        <5>2. CASE i = n
          <6>1. /\ h.file = f.file /\ h.left = Tail(f.left) /\ f.left # <<>>
                /\ m = Head(f.left)
            BY <1>1, <1>2, <1>4, <2>4, <3>1, <4>1, <5>2 DEF Next1
          <6>2. color'[m] # "white"
            BY <1>1, <1>3, <1>6 DEF Typed
          <6> QED BY <1>1, <1>6, <1>7, <4>2, <6>1, <6>2, HandledAdvances
        <5> QED BY <5>1, <5>2
      <4> QED BY <3>1, <4>3 DEF Handled, Imported
    <3>3. CASE i = n + 1
      <4>1. Imported(file) = {world.imports[file][k] : k \in 1 .. Len(world.imports[file])}
        BY <1>1, <1>5, ImportedNames
      <4>2. Imported(file)' = Imported(file)
        BY <1>6 DEF Imported
      <4>3. stack'[i].file = file /\ stack'[i].left = world.imports[file]
        BY <2>2, <2>3, <3>3
      <4> QED BY <4>1, <4>2, <4>3 DEF Handled
    <3> QED BY <2>5, <3>2, <3>3
  <2>8. BringsAbove'
    <3> SUFFICES ASSUME NEW i \in 1 .. n + 1, NEW j \in 1 .. n + 1, 1 < i, i < j
                 PROVE  stack'[j].mod \in Brings(stack[i].mod)'
      BY <2>3 DEF BringsAbove
    <3>1. i \in 1 .. n
      BY <1>4
    <3>2. PICK x : x = stack[i].mod
      OBVIOUS
    <3>3. x \in Names /\ stack'[i].mod = x
      BY <1>7, <2>4, <3>1, <3>2
    <3>4. stack'[j].mod \in Brings(x)
      <4>1. CASE j \in 1 .. n
        BY <1>2, <2>4, <3>1, <3>2, <4>1 DEF OrderInv, BringsAbove
      <4>2. CASE j = n + 1
        BY <1>1, <1>2, <2>2, <2>3, <3>1, <3>2, <4>2, NextBrought
      <4> QED BY <2>5, <4>1, <4>2
    <3>5. stack'[j].mod \in Brings(x)'
      BY <1>7, <3>3, <3>4
    <3> QED BY <3>3, <3>5
  <2> QED BY <1>7, <2>6, <2>7, <2>8 DEF OrderInv
<1> QED BY <1>10, <1>11

\* The code of the top frame is emitted: its imports are black, so their code
\* is there, or they are on the stack and bring in the top module.
LEMMA GiveOrder ==
    ASSUME IInv, TablesTyped, OrderInv, Converting, Give, UNCHANGED <<world, fileOf>>
    PROVE  /\ AfterItsImports'
           /\ \A j \in 1 .. Len(emitted) :
                 j \in 1 .. Len(emitted') /\ emitted'[j].mod = emitted[j].mod
           /\ \E j \in 1 .. Len(emitted') : emitted'[j].mod = Top.mod
<1>1. Typed /\ stack # <<>> /\ status = "running" /\ Top.left = <<>>
  BY DEF IInv, Converting
<1>2. PICK n, k : n = Len(stack) /\ k = Len(emitted)
  OBVIOUS
<1>3. n \in Nat /\ n \in 1 .. n /\ Top = stack[n] /\ k \in Nat
  BY <1>1, <1>2 DEF Typed, Top
<1>4. Top.file \in Files /\ Top.mod \in Mods
  BY <1>1, <1>2, <1>3, FrameParts
<1> DEFINE e == [mod |-> Top.mod, file |-> Top.file, scope |-> locality]
<1>5. e \in EmittedType /\ e.mod = Top.mod /\ e.file = Top.file
  BY <1>1, <1>4 DEF EmittedType, Typed
<1>6. /\ Len(emitted') = k + 1 /\ emitted'[k + 1] = e /\ DOMAIN emitted' = 1 .. k + 1
      /\ \A i \in 1 .. k : emitted'[i] = emitted[i]
  BY <1>1, <1>2, <1>3, <1>5 DEF Give, Typed
<1>7. \A i \in 1 .. k + 1 : i \in 1 .. k \/ i = k + 1
  BY <1>3
<1>8. 1 .. k \subseteq 1 .. k + 1 /\ k + 1 \in 1 .. k + 1 /\ (k + 1) - 1 = k
  BY <1>3
<1>9. ASSUME NEW x \in Imported(Top.file) \ Builtin
      PROVE  (\E j \in 1 .. k : emitted[j].mod = x) \/ Top.mod \in Brings(x)
  <2>1. x \in Names
    BY <1>1, <1>4, ImportedNames
  <2>2. color[x] # "white"
    <3>1. Handled(stack[n]) /\ stack[n].left = <<>>
      BY <1>1, <1>2, <1>3 DEF OrderInv, ImportsHandled
    <3>2. Len(stack[n].left) = 0
      BY <3>1
    <3> QED BY <1>3, <3>1, <3>2 DEF Handled
  <2>3. CASE color[x] = "black"
    BY <1>2, <2>1, <2>3 DEF OrderInv, BlackEmitted
  <2>4. CASE color[x] = "grey"
    <3>1. PICK i \in 1 .. n : stack[i].mod = x
      BY <1>1, <1>2, <2>1, <2>4 DEF IInv, Running, GreyOnStack
    <3>2. 1 < i
      <4>1. x # Nil
        BY <2>1, NamesAssumption
      <4>2. i # 1
        BY <1>2, <3>1, <4>1 DEF IInv, Bottom
      <4> QED BY <1>3, <4>2
    <3>3. CASE i = n
      <4>1. fileOf[x] = Top.file
        BY <1>2, <1>3, <3>1, <3>2, <3>3 DEF OrderInv, FrameFiles
      <4>2. Top.file # Nil
        BY <1>4, NamesAssumption
      <4>3. x \in ImportsOf(x)
        BY <1>9, <4>1, <4>2 DEF ImportsOf
      <4> QED BY <1>1, <1>3, <2>1, <3>1, <3>3, <4>3, BringsClosed
    <3>4. CASE i # n
      <4>1. i < n
        BY <1>3, <3>4
      <4> QED BY <1>2, <1>3, <3>1, <3>2, <4>1 DEF OrderInv, BringsAbove
    <3> QED BY <3>3, <3>4
  <2> QED BY <1>1, <2>1, <2>2, <2>3, <2>4 DEF Typed, Colors
<1>10. \A x : Brings(x)' = Brings(x)
  BY BringsSame
<1>11. AfterItsImports'
  <2> SUFFICES ASSUME NEW i \in 1 .. k + 1, NEW x \in Imported(emitted[i].file)' \ Builtin
               PROVE  \/ \E j \in 1 .. i - 1 : emitted'[j].mod = x
                      \/ emitted'[i].mod \in Brings(x)'
    BY <1>6 DEF AfterItsImports
  <2>0. x \in Imported(emitted'[i].file)
    BY <1>1 DEF Imported
  <2>1. CASE i \in 1 .. k
    <3>1. emitted'[i] = emitted[i] /\ x \in Imported(emitted[i].file) \ Builtin
      BY <1>6, <2>0, <2>1
    <3>2. DOMAIN emitted = 1 .. k
      BY <1>1, <1>2 DEF Typed
    <3>3. \/ \E j \in 1 .. i - 1 : emitted[j].mod = x
          \/ emitted[i].mod \in Brings(x)
      BY <2>1, <3>1, <3>2 DEF OrderInv, AfterItsImports
    <3>4. \A j \in 1 .. i - 1 : j \in 1 .. k
      BY <1>3, <2>1
    <3> QED BY <1>6, <1>10, <3>1, <3>3, <3>4
  <2>2. CASE i = k + 1
    <3>1. x \in Imported(Top.file) \ Builtin /\ emitted'[i].mod = Top.mod
      BY <1>5, <1>6, <2>0, <2>2
    <3>2. (\E j \in 1 .. k : emitted[j].mod = x) \/ Top.mod \in Brings(x)
      BY <1>9, <3>1
    <3>3. i - 1 = k
      BY <1>8, <2>2
    <3> QED BY <1>6, <1>10, <3>1, <3>2, <3>3
  <2> QED BY <1>7, <2>1, <2>2
<1> QED BY <1>2, <1>5, <1>6, <1>8, <1>11

\* The frames that remain when the innermost import ends.
LEMMA BelowOrder ==
    ASSUME IInv, OrderInv, stack # <<>>, stack' = Below, UNCHANGED <<world, fileOf>>, Darker
    PROVE  FrameFiles' /\ ImportsHandled' /\ BringsAbove'
<1>1. Typed
  BY DEF IInv
<1>2. PICK n : n = Len(stack)
  OBVIOUS
<1>3. /\ n \in Nat /\ Len(stack') = n - 1
      /\ \A i \in 1 .. n - 1 : stack'[i] = stack[i] /\ i \in 1 .. n
  BY <1>1, <1>2, BelowStack DEF Typed
<1>4. FrameFiles'
  BY SMTT(30), <1>2, <1>3 DEF OrderInv, FrameFiles
<1>5. ImportsHandled'
  <2> SUFFICES ASSUME NEW i \in 1 .. n - 1 PROVE Handled(stack[i])'
    BY <1>3 DEF ImportsHandled
  <2>1. PICK f : f = stack[i]
    OBVIOUS
  <2>2. Handled(f) /\ f.file \in Files
    BY <1>1, <1>2, <1>3, <2>1, FrameParts DEF OrderInv, ImportsHandled
  <2>3. Handled(f)' /\ f = stack'[i]
    BY <1>1, <1>3, <2>1, <2>2, HandledStays
  <2> QED BY <2>3 DEF Handled, Imported
<1>6. BringsAbove'
  <2> SUFFICES ASSUME NEW i \in 1 .. n - 1, NEW j \in 1 .. n - 1, 1 < i, i < j
               PROVE  stack'[j].mod \in Brings(stack[i].mod)'
    BY <1>3 DEF BringsAbove
  <2>1. PICK x : x = stack[i].mod
    OBVIOUS
  <2>2. stack[j].mod \in Brings(x)
    BY <1>2, <1>3, <2>1 DEF OrderInv, BringsAbove
  <2>3. Brings(x)' = Brings(x)
    BY BringsSame
  <2>4. stack'[j].mod \in Brings(x)' /\ stack'[i].mod = x
    BY <1>3, <2>1, <2>2, <2>3
  <2> QED BY <2>4
<1> QED BY <1>4, <1>5, <1>6

LEMMA ConvertOrder == IInv /\ TablesTyped /\ OrderInv /\ (ConvertModule \/ ConvertRoot) => OrderInv'
<1> SUFFICES ASSUME IInv, TablesTyped, OrderInv, ConvertModule \/ ConvertRoot PROVE OrderInv'
  OBVIOUS
<1>1. /\ Typed /\ Converting /\ Give /\ stack # <<>> /\ stack' = Below
      /\ UNCHANGED <<world, fileOf>>
  BY DEF IInv, ConvertModule, ConvertRoot, Converting
<1>2. /\ AfterItsImports'
      /\ \A j \in 1 .. Len(emitted) :
            j \in 1 .. Len(emitted') /\ emitted'[j].mod = emitted[j].mod
      /\ \E j \in 1 .. Len(emitted') : emitted'[j].mod = Top.mod
  BY <1>1, GiveOrder
<1>3. UNCHANGED color \/ (Top.mod # Nil /\ color' = [color EXCEPT ![Top.mod] = "black"])
  BY DEF ConvertModule, ConvertRoot
<1>4. Top.mod \in Mods
  <2>1. Top = stack[Len(stack)] /\ Len(stack) \in 1 .. Len(stack)
    BY <1>1 DEF Top, Typed
  <2> QED BY <1>1, <2>1, FrameParts
<1>5. Darker
  BY <1>1, <1>3, <1>4, ColorDarkens DEF Darker, Mods
<1>6. WhiteUnknown'
  BY <1>1, <1>5 DEF OrderInv, WhiteUnknown, Darker
<1>7. BlackEmitted'
  <2> SUFFICES ASSUME NEW x \in Names \ Builtin, color'[x] = "black"
               PROVE  \E j \in 1 .. Len(emitted') : emitted'[j].mod = x
    BY DEF BlackEmitted
  <2>1. CASE color[x] = "black"
    BY <1>2, <2>1 DEF OrderInv, BlackEmitted
  <2>2. CASE color[x] # "black"
    <3>1. x = Top.mod
      BY <1>1, <1>3, <2>2 DEF Typed
    <3> QED BY <1>2, <3>1
  <2> QED BY <2>1, <2>2
<1>8. FrameFiles' /\ ImportsHandled' /\ BringsAbove'
  BY <1>1, <1>5, BelowOrder
<1> QED BY <1>2, <1>6, <1>7, <1>8 DEF OrderInv

LEMMA NextOrder == IInv /\ TablesTyped /\ OrderInv /\ [Next]_vars => OrderInv'
<1> SUFFICES ASSUME IInv, TablesTyped, OrderInv, [Next]_vars PROVE OrderInv'
  OBVIOUS
<1>1. CASE ParseRoot
  BY <1>1, ParseRootOrder
<1>2. CASE ImportAgain \/ ImportBuiltin
  BY <1>2, SkipOrder DEF ImportAgain, ImportBuiltin, results
<1>3. CASE EnterModule
  BY <1>3, EnterOrder
<1>4. CASE FileNotFound
  <2>1. Next1 \in Names
    BY <1>4, AdvancedStack DEF FileNotFound, NeedsFile, Importing, IInv
  <2> QED BY <1>4, <2>1, StopOrder DEF FileNotFound, results
<1>5. CASE ConvertModule \/ ConvertRoot
  BY <1>5, ConvertOrder
<1>6. CASE UnknownType \/ RefuseAlias
  BY <1>6, StopOrder DEF UnknownType, RefuseAlias, results
<1>7. CASE DeclareAlias
  BY <1>7, AliasOrder
<1>8. CASE UNCHANGED vars
  BY <1>8, StopOrder DEF vars, results
<1> QED
  BY <1>1, <1>2, <1>3, <1>4, <1>5, <1>6, <1>7, <1>8 DEF Next, Compile, Stopped

\* Whatever the import graph, the code of a file comes after the code of each
\* of its imports, unless the two are on a cycle: visit(Import_Node) returns
\* only when the import is black, or grey and further out.
THEOREM CodeAfterImports == Spec => []AfterItsImports
<1>1. OrderInv => AfterItsImports
  BY DEF OrderInv
<1> QED
  BY <1>1, InitIInv, NextIInv, TablesTypedInit, TablesTypedNext, InitOrder, NextOrder, PTL DEF Spec

-----------------------------------------------------------------------------
(***************************************************************************)
(* What the names of types stand for.                                      *)
(***************************************************************************)
\* In a module every name has a qualifier.
LEMMA QualifiedLong ==
    ASSUME NEW m \in Names, NEW name \in Types
    PROVE  Len(Qualified(m, name)) = 2
<1>1. CASE Len(name) = 1
  <2>1. PICK u \in TypeNames : name = <<u>>
    BY <1>1, NameShape
  <2>2. Qualified(m, <<u>>) = <<m, u>>
    BY BareName
  <2> QED BY <2>1, <2>2, QualifiedName
<1>2. CASE Len(name) # 1
  <2>1. PICK x \in Names, u \in TypeNames : name = <<x, u>>
    BY <1>2, NameShape
  <2>2. Qualified(m, <<x, u>>) = <<x, u>> /\ Len(<<x, u>>) = 2
    BY QualifiedName
  <2> QED BY <2>1, <2>2
<1> QED BY <1>1, <1>2

\* A module's file never declares a bare name that is not declared yet.
LEMMA BareOnlyDeclared ==
    ASSUME NEW decl, NEW m \in Names, NEW name \in Types, NEW t \in TypeNames,
           GetOrDeclare(decl, m, name) = <<t>>
    PROVE  <<t>> \in decl
<1>1. Len(Qualified(m, name)) = 2
  BY QualifiedLong
<1>2. Qualified(m, name) # <<t>>
  BY <1>1, BareName
<1> QED BY <1>2, GetOrDeclareIs

LEMMA ParseBare ==
    ASSUME Typed, NEW m \in Names, NEW file \in Files, Parse(m, file),
           NEW t \in TypeNames, <<t>> \in declared'
    PROVE  <<t>> \in declared
<1>1. \A name \in {<<u>> : u \in world.types[file]} \cup world.uses[file] : name \in Types
  <2>1. \A u \in TypeNames : <<u>> \in Types
    BY BareName
  <2>2. Names \X TypeNames \subseteq Types
    BY DEF Types
  <2> QED BY <2>1, <2>2, WorldMentions DEF Typed
<1>2. ASSUME NEW name \in {<<u>> : u \in world.types[file]} \cup world.uses[file],
             <<t>> = GetOrDeclare(declared, m, name)
      PROVE  <<t>> \in declared
  BY <1>1, <1>2, BareOnlyDeclared
<1> QED BY <1>2 DEF Parse

\* While a file is parsed it declares what it defines and what it uses.
LEMMA ParseMentions ==
    ASSUME Typed, NEW mod \in Mods, NEW file \in Files, Parse(mod, file)
    PROVE  /\ declared \subseteq declared'
           /\ \A t \in world.types[file] :
                 <<t>> \in declared' \/ Qualified(mod, <<t>>) \in declared'
           /\ world.uses[file] \subseteq declared'
<1>1. \A t \in world.types[file] : GetOrDeclare(declared, mod, <<t>>) \in declared'
  BY DEF Parse
<1>2. \A name \in world.uses[file] : GetOrDeclare(declared, mod, name) \in declared'
  BY DEF Parse
<1>3. \A name \in world.uses[file] : Qualified(mod, name) = name
  <2>1. world.uses[file] \subseteq Names \X TypeNames
    BY WorldMentions DEF Typed
  <2>2. \A x \in Names, t \in TypeNames : Qualified(mod, <<x, t>>) = <<x, t>>
    BY QualifiedName
  <2> QED BY <2>1, <2>2
<1>4. \A name \in world.uses[file] : GetOrDeclare(declared, mod, name) = name
  BY <1>3, GetOrDeclareIs
<1>5. \A t \in world.types[file] :
          GetOrDeclare(declared, mod, <<t>>) \in {<<t>>, Qualified(mod, <<t>>)}
  BY GetOrDeclareIs
<1> QED BY <1>1, <1>2, <1>4, <1>5 DEF Parse

\* The aliases that a frame has still to declare are the last of its file's.
LEMMA TailAhead ==
    ASSUME NEW S, NEW all \in Seq(S), NEW q \in Seq(S), q # <<>>, Len(q) <= Len(all),
           \A k \in 1 .. Len(q) : q[k] = all[(Len(all) - Len(q)) + k]
    PROVE  /\ Head(q) = all[(Len(all) - Len(q)) + 1]
           /\ (Len(all) - Len(q)) + 1 \in 1 .. Len(all)
           /\ Len(Tail(q)) <= Len(all)
           /\ Len(all) - Len(Tail(q)) = (Len(all) - Len(q)) + 1
           /\ \A k \in 1 .. Len(Tail(q)) : Tail(q)[k] = all[(Len(all) - Len(Tail(q))) + k]
<1>1. PICK n, m : n = Len(q) /\ m = Len(all)
  OBVIOUS
<1>2. n \in Nat \ {0} /\ m \in Nat /\ n <= m
  BY <1>1
<1>3. Len(Tail(q)) = n - 1 /\ \A k \in 1 .. n - 1 : Tail(q)[k] = q[k + 1]
  BY <1>1, HeadTailProperties
<1>4. 1 \in 1 .. n /\ Head(q) = q[1]
  BY <1>1, <1>2
<1>5. ASSUME NEW k \in 1 .. n - 1
      PROVE  Tail(q)[k] = all[(m - (n - 1)) + k]
  <2>1. k + 1 \in 1 .. n /\ (m - n) + (k + 1) = (m - (n - 1)) + k
    BY <1>2
  <2>2. q[k + 1] = all[(m - n) + (k + 1)]
    BY <1>1, <2>1
  <2> QED BY <1>3, <2>1, <2>2
<1>6. (m - n) + 1 \in 1 .. m /\ n - 1 <= m /\ m - (n - 1) = (m - n) + 1
  BY <1>2
<1> QED BY <1>1, <1>3, <1>4, <1>5, <1>6

\* A frame whose file has just been parsed.
LEMMA AllAhead ==
    ASSUME Typed, NEW f, f.file \in Files, f.aliases = world.aliases[f.file], UNCHANGED world
    PROVE  Ahead(f)' /\ Done(f)' = 0
<1>1. PICK all : all = world.aliases[f.file]
  OBVIOUS
<1>2. Len(all) \in Nat
  <2> DEFINE A == [name : Types, to : Types]
  <2>1. all \in Seq(A)
    BY <1>1, WorldTyped DEF Typed
  <2> HIDE DEF A
  <2> QED BY <2>1
<1>3. \A k \in 1 .. Len(all) : Len(all) - Len(all) + k = k
  BY <1>2
<1> QED BY <1>1, <1>2, <1>3 DEF Ahead, Done

LEMMA NextAlias ==
    ASSUME IInv, AliasesAhead, stack # <<>>, Top.aliases # <<>>
    PROVE  /\ Done(Top) + 1 \in DOMAIN world.aliases[Top.file]
           /\ Head(Top.aliases) = world.aliases[Top.file][Done(Top) + 1]
           /\ Len(Tail(Top.aliases)) <= Len(world.aliases[Top.file])
           /\ Len(world.aliases[Top.file]) - Len(Tail(Top.aliases)) = Done(Top) + 1
           /\ \A k \in 1 .. Len(Tail(Top.aliases)) :
                 Tail(Top.aliases)[k] =
                     world.aliases[Top.file][Len(world.aliases[Top.file]) - Len(Tail(Top.aliases)) + k]
<1>1. Typed
  BY DEF IInv
<1>2. PICK n, q, all : n = Len(stack) /\ q = Top.aliases /\ all = world.aliases[Top.file]
  OBVIOUS
<1>3. n \in 1 .. n /\ Top = stack[n]
  BY <1>1, <1>2 DEF Typed, Top
<1>4. /\ Len(q) <= Len(all) /\ \A k \in 1 .. Len(q) : q[k] = all[(Len(all) - Len(q)) + k]
      /\ Done(Top) = Len(all) - Len(q)
  BY <1>2, <1>3 DEF AliasesAhead, Ahead, Done
<1> DEFINE A == [name : Types, to : Types]
<1>5. all \in Seq(A) /\ q \in Seq(A) /\ q # <<>>
  BY <1>1, <1>2, <1>3, FrameParts, WorldTyped DEF Typed
<1> HIDE DEF A
<1>6. DOMAIN all = 1 .. Len(all)
  BY <1>5
<1>7. /\ Head(q) = all[(Len(all) - Len(q)) + 1]
      /\ (Len(all) - Len(q)) + 1 \in 1 .. Len(all)
      /\ Len(Tail(q)) <= Len(all)
      /\ Len(all) - Len(Tail(q)) = (Len(all) - Len(q)) + 1
      /\ \A k \in 1 .. Len(Tail(q)) : Tail(q)[k] = all[(Len(all) - Len(Tail(q))) + k]
  BY <1>4, <1>5, TailAhead
<1> QED BY <1>2, <1>4, <1>6, <1>7

\* The program's own frame.
LEMMA RootFrame ==
    ASSUME IInv, OrderInv, stack # <<>>
    PROVE  /\ Top.mod = Nil => Top.file = Root
           /\ Top.mod # Nil => /\ Top.mod \in Names /\ fileOf[Top.mod] = Top.file
                               /\ Top.file # Nil
<1>1. Typed
  BY DEF IInv
<1>2. PICK n : n = Len(stack)
  OBVIOUS
<1>3. n \in 1 .. n /\ Top = stack[n]
  BY <1>1, <1>2 DEF Typed, Top
<1>4. Top.mod \in Mods /\ Top.file \in Files
  BY <1>1, <1>2, <1>3, FrameParts
<1>5. (Top.mod = Nil) <=> n = 1
  BY <1>2, <1>3 DEF IInv, Bottom
<1> QED BY <1>2, <1>3, <1>4, <1>5, NamesAssumption DEF Mods, OrderInv, FrameFiles

\* An alias declares a bare name only in the program's own file.
LEMMA AliasBare ==
    ASSUME IInv, AliasesAhead, OrderInv, BareIsRoots, Aliasing,
           NEW t \in TypeNames, <<t>> \in {To, From}
    PROVE  t \in RootTypes
<1>1. /\ Typed /\ stack # <<>> /\ Top.aliases # <<>>
      /\ status = "running" /\ module = Top.mod
  BY DEF IInv, Aliasing, Running, OwnModule
<1>2. PICK a : a = Head(Top.aliases)
  OBVIOUS
<1>3. a.name \in Types /\ a.to \in Types
  BY <1>1, <1>2, AliasTyped
<1>4. To = GetOrDeclare(declared, module, a.to)
  BY <1>2 DEF To
<1>5. From = GetOrDeclare(declared \cup {To}, module, a.name)
  BY <1>2 DEF From
<1>6. CASE module = Nil
  <2>1. PICK j \in DOMAIN world.aliases[Root] : a = world.aliases[Root][j]
    BY <1>1, <1>2, <1>6, NextAlias, RootFrame
  <2>2. Qualified(module, a.to) = a.to /\ Qualified(module, a.name) = a.name
    BY <1>6 DEF Qualified
  <2>3. /\ To \in {a.to, Qualified(module, a.to)}
        /\ From \in {a.name, Qualified(module, a.name)}
    BY <1>4, <1>5, GetOrDeclareIs
  <2>4. <<t>> \in {a.name, a.to}
    BY <2>2, <2>3
  <2> QED BY <2>1, <2>4 DEF RootTypes, BareTypes
<1>7. CASE module # Nil
  <2>1. module \in Names
    BY <1>1, <1>7 DEF Typed, Mods
  <2>2. \A u \in TypeNames : <<u>> = To => <<u>> \in declared
    BY <1>3, <1>4, <2>1, BareOnlyDeclared
  <2>3. <<t>> = From => <<t>> \in declared \cup {To}
    BY <1>3, <1>5, <2>1, BareOnlyDeclared
  <2> QED BY <2>2, <2>3 DEF BareIsRoots
<1> QED BY <1>6, <1>7

LEMMA RootTypesSame ==
    ASSUME UNCHANGED world
    PROVE  RootTypes' = RootTypes
BY DEF RootTypes, BareTypes

\* Frames that stay keep what they mention and what is ahead of them.
LEMMA KeepFrames ==
    ASSUME UNCHANGED world, declared \subseteq declared',
           \A i \in 1 .. Len(stack') :
               i \in 1 .. Len(stack) /\ stack'[i].mod = stack[i].mod /\ stack'[i].file = stack[i].file
    PROVE  /\ Mentioned => Mentioned'
           /\ AliasesAhead /\ (\A i \in 1 .. Len(stack') : stack'[i].aliases = stack[i].aliases)
                 => AliasesAhead'
<1>1. ASSUME Mentioned
      PROVE  Mentioned'
  <2> SUFFICES ASSUME NEW i \in 1 .. Len(stack') PROVE MentionedBy(stack[i])'
    BY DEF Mentioned
  <2>1. MentionedBy(stack[i])
    BY <1>1 DEF Mentioned
  <2>2. stack'[i].mod = stack[i].mod /\ stack'[i].file = stack[i].file
    OBVIOUS
  <2> QED BY <2>1, <2>2 DEF MentionedBy
<1>2. ASSUME AliasesAhead, \A i \in 1 .. Len(stack') : stack'[i].aliases = stack[i].aliases
      PROVE  AliasesAhead'
  <2> SUFFICES ASSUME NEW i \in 1 .. Len(stack') PROVE Ahead(stack[i])'
    BY DEF AliasesAhead
  <2>1. stack'[i].file = stack[i].file /\ stack'[i].aliases = stack[i].aliases
    BY <1>2
  <2>2. Ahead(stack[i])
    BY <1>2 DEF AliasesAhead
  <2> QED BY <2>1, <2>2 DEF Ahead, Done
<1> QED BY <1>1, <1>2

\* The parts of a link.
LEMMA LinkParts ==
    ASSUME TablesTyped, NEW l \in links
    PROVE  /\ l.mod \in Mods /\ l.type \in Types
           /\ \/ Len(l.name) = 1 /\ l.name[1] \in TypeNames
              \/ Len(l.name) = 2 /\ l.name[1] \in Names /\ l.name[2] \in TypeNames
<1>1. l \in [file : Files, mod : Mods, name : Types, type : Types]
  BY DEF TablesTyped
<1> QED BY <1>1, NameShape

\* What a name has come to mean it goes on meaning.
LEMMA MeaningStays ==
    ASSUME TablesTyped, NEW l \in links, MeansItsType(l), UNCHANGED world,
           \A n \in Names : fileOf[n] # Nil => fileOf'[n] = fileOf[n],
           \A t \in Types : definers[t] \subseteq definers'[t],
           DefinedByOwner'
    PROVE  MeansItsType(l)'
<1> DEFINE from == IF Len(l.name) = 1 THEN l.mod ELSE l.name[1]
           base == l.name[Len(l.name)]
<1>1. from \in Mods /\ base \in TypeNames /\ l.type \in Types
  BY LinkParts DEF Mods
<1>2. RootTypes' = RootTypes
  BY RootTypesSame
<1>3. \/ from = Nil /\ l.type = <<base>>
      \/ from # Nil /\ base \notin RootTypes
           /\ l.type = <<from, base>> /\ definers[l.type] = {fileOf[from]}
      \/ from # Nil /\ base \in RootTypes
  BY DEF MeansItsType
<1>4. ASSUME from # Nil, l.type = <<from, base>>, definers[l.type] = {fileOf[from]}
      PROVE  definers'[l.type] = {fileOf'[from]}
  <2>1. from \in Names
    BY <1>1, <1>4 DEF Mods
  <2>2. fileOf[from] \in Files
    BY <1>1, <1>4 DEF TablesTyped
  <2>3. fileOf'[from] = fileOf[from]
    BY <2>1, <2>2, NamesAssumption
  <2>4. definers'[<<from, base>>] \subseteq {fileOf'[from]}
    BY <1>1, <2>1 DEF DefinedByOwner
  <2>5. definers[l.type] \subseteq definers'[l.type]
    BY <1>1
  <2> QED BY <1>4, <2>3, <2>4, <2>5
<1>5. \/ from = Nil /\ l.type = <<base>>
      \/ from # Nil /\ base \notin RootTypes'
           /\ l.type = <<from, base>> /\ definers'[l.type] = {fileOf'[from]}
      \/ from # Nil /\ base \in RootTypes'
  BY <1>2, <1>3, <1>4
<1> QED BY <1>5 DEF MeansItsType

\* A definition is made by the file of the module it is qualified with.
LEMMA ConvertOwner ==
    ASSUME IInv, TablesTyped, OrderInv, DefinedByOwner, stack # <<>>, status = "running",
           ConvertDefinitions, UNCHANGED <<world, fileOf>>
    PROVE  /\ DefinedByOwner'
           /\ \A t \in Types : definers[t] \subseteq definers'[t]
<1>1. Typed /\ module = Top.mod
  BY DEF IInv, Running, OwnModule
<1>2. PICK n : n = Len(stack)
  OBVIOUS
<1>3. n \in Nat /\ n \in 1 .. n /\ Top = stack[n]
  BY <1>1, <1>2 DEF Typed, Top
<1>4. Top.mod \in Mods /\ Top.file \in Files
  BY <1>1, <1>2, <1>3, FrameParts
<1>5. \A t \in Types : definers'[t] = IF t \in Defined THEN definers[t] \cup {Top.file}
                                      ELSE definers[t]
  BY DEF ConvertDefinitions, TablesTyped
<1>6. ASSUME NEW m \in Names, NEW t \in TypeNames, <<m, t>> \in Defined
      PROVE  Top.file = fileOf[m]
  <2>1. PICK u \in world.types[Top.file] : <<m, t>> = GetOrDeclare(declared, module, <<u>>)
    BY <1>6 DEF Defined
  <2>2. u \in TypeNames
    BY <1>1, <1>4, WorldMentions DEF Typed
  <2>3. <<m, t>> \in {<<u>>, Qualified(module, <<u>>)}
    BY <2>1, GetOrDeclareIs
  <2>4. <<m, t>> # <<u>>
    BY <2>2, BareName, QualifiedName
  <2>5. module # Nil
    BY <2>2, <2>3, <2>4, BareName
  <2>6. module \in Names
    BY <1>1, <1>4, <2>5 DEF Mods
  <2>7. Qualified(module, <<u>>) = <<module, u>>
    BY <2>2, <2>6, BareName
  <2>8. m = module
    BY <2>3, <2>4, <2>7
  <2>9. n # 1
    BY <1>1, <1>2, <1>3, <2>5 DEF IInv, Bottom
  <2> QED BY <1>1, <1>2, <1>3, <2>8, <2>9 DEF OrderInv, FrameFiles
<1>7. DefinedByOwner'
  <2> SUFFICES ASSUME NEW m \in Names, NEW t \in TypeNames
               PROVE  definers'[<<m, t>>] \subseteq {fileOf[m]}
    BY DEF DefinedByOwner
  <2>1. <<m, t>> \in Types
    BY QualifiedName
  <2>2. definers[<<m, t>>] \subseteq {fileOf[m]}
    BY DEF DefinedByOwner
  <2> QED BY <1>5, <1>6, <2>1, <2>2
<1>8. \A t \in Types : definers[t] \subseteq definers'[t]
  BY <1>5
<1> QED BY <1>7, <1>8

\* The links of the top file, made when its code is generated.
LEMMA GiveNames ==
    ASSUME IInv, TablesTyped, OrderInv, NamesInv, Converting, ConvertDefinitions, Give,
           \A name \in Named : Known(name), UNCHANGED <<world, fileOf>>
    PROVE  NamesMeanTheirTypes'
<1>1. Typed /\ stack # <<>> /\ status = "running" /\ module = Top.mod
  BY DEF IInv, Converting, Running, OwnModule
<1>2. Top.mod \in Mods /\ Top.file \in Files
  <2>1. Top = stack[Len(stack)] /\ Len(stack) \in 1 .. Len(stack)
    BY <1>1 DEF Top, Typed
  <2> QED BY <1>1, <2>1, FrameParts
<1>3. DefinedByOwner' /\ \A t \in Types : definers[t] \subseteq definers'[t]
  BY <1>1, ConvertOwner DEF NamesInv
<1>4. \A t \in Types : definers'[t] = IF t \in Defined THEN definers[t] \cup {Top.file}
                                      ELSE definers[t]
  BY DEF ConvertDefinitions, TablesTyped
<1>5. RootTypes' = RootTypes
  BY RootTypesSame
<1>6. ASSUME NEW m \in Names, NEW t \in TypeNames, definers'[<<m, t>>] # {}
      PROVE  definers'[<<m, t>>] = {fileOf'[m]}
  BY <1>3, <1>6 DEF DefinedByOwner
<1>7. ASSUME NEW t \in world.types[Top.file], NEW l, l.name = <<t>>, l.mod = Top.mod,
             l.type = TypeFor(declared, module, <<t>>)
      PROVE  MeansItsType(l)'
  <2>1. t \in TypeNames
    BY <1>1, <1>2, WorldMentions DEF Typed
  <2>2. Len(l.name) = 1 /\ l.name[1] = t
    BY <1>7, <2>1, BareName
  <2>3. l.type # Nil
    BY <1>7 DEF Named, Known
  <2>4. l.type \in declared /\ l.type \in {<<t>>, Qualified(module, <<t>>)}
    <3>1. TypeFor(declared, module, <<t>>) # Nil
      BY <1>7, <2>3
    <3>2. /\ TypeFor(declared, module, <<t>>) \in declared
          /\ TypeFor(declared, module, <<t>>) \in {<<t>>, Qualified(module, <<t>>)}
      BY <3>1, TypeForIs
    <3> QED BY <1>7, <3>2
  <2>5. CASE module = Nil
    <3>1. l.type = <<t>>
      BY <2>1, <2>4, <2>5, BareName
    <3> QED BY <1>1, <1>7, <2>2, <2>5, <3>1 DEF MeansItsType
  <2>6. CASE module # Nil /\ t \in RootTypes
    BY <1>1, <1>5, <1>7, <2>2, <2>6 DEF MeansItsType
  <2>7. CASE module # Nil /\ t \notin RootTypes
    <3>1. module \in Names
      BY <1>1, <1>2, <2>7 DEF Mods
    <3>2. l.type # <<t>>
      BY <2>1, <2>4, <2>7 DEF NamesInv, BareIsRoots
    <3>3. l.type = <<module, t>> /\ l.type \in Types
      BY <2>1, <2>4, <3>1, <3>2, BareName
    <3>4. l.type \in Defined
      <4>1. GetOrDeclare(declared, module, <<t>>) = l.type
        BY <1>7, <2>3 DEF GetOrDeclare
      <4> QED BY <4>1 DEF Defined
    <3>5. definers'[l.type] = {fileOf'[module]}
      BY <1>4, <1>6, <2>1, <3>1, <3>3, <3>4
    <3> QED BY <1>1, <1>5, <1>7, <2>2, <2>7, <3>3, <3>5 DEF MeansItsType
  <2> QED BY <2>5, <2>6, <2>7
<1>8. ASSUME NEW x \in Names, NEW t \in TypeNames, <<x, t>> \in world.uses[Top.file],
             NEW l, l.name = <<x, t>>, l.type = TypeFor(declared, module, <<x, t>>)
      PROVE  MeansItsType(l)'
  <2>1. Len(l.name) = 2 /\ l.name[1] = x /\ l.name[2] = t /\ x # Nil
    BY <1>8, QualifiedName, NamesAssumption
  <2>2. Known(<<x, t>>)
    BY <1>8 DEF Named
  <2>3. l.type # Nil
    BY <1>8, <2>2 DEF Known
  <2>4. l.type = <<x, t>> /\ l.type \in Types
    <3>1. TypeFor(declared, module, <<x, t>>) # Nil
      BY <1>8, <2>3
    <3>2. TypeFor(declared, module, <<x, t>>) \in {<<x, t>>, Qualified(module, <<x, t>>)}
      BY <3>1, TypeForIs
    <3> QED BY <1>8, <3>2, QualifiedName
  <2>5. definers'[<<x, t>>] = {fileOf'[x]}
    <3>1. l.type \in Defined \/ definers[l.type] # {}
      BY <1>8, <2>2 DEF Known
    <3> QED BY <1>4, <1>6, <2>4, <3>1
  <2> QED BY <1>5, <2>1, <2>4, <2>5 DEF MeansItsType
<1>9. ASSUME NEW name \in Named, NEW l,
             l = [file |-> Top.file, mod |-> Top.mod, name |-> name,
                  type |-> TypeFor(declared, module, name)]
      PROVE  MeansItsType(l)'
  <2>1. l.name = name /\ l.mod = Top.mod /\ l.type = TypeFor(declared, module, name)
    BY <1>9
  <2>2. CASE name \in {<<t>> : t \in world.types[Top.file]}
    BY <1>7, <2>1, <2>2
  <2>3. CASE name \in world.uses[Top.file]
    <3>1. PICK x \in Names, t \in TypeNames : name = <<x, t>>
      BY <1>1, <1>2, <2>3, WorldMentions DEF Typed
    <3> QED BY <1>8, <2>1, <2>3, <3>1
  <2> QED BY <2>2, <2>3 DEF Named
<1>10. ASSUME NEW l \in links
       PROVE  MeansItsType(l)'
  <2>1. MeansItsType(l)
    BY DEF NamesInv, NamesMeanTheirTypes
  <2> QED BY <1>3, <2>1, MeaningStays
<1>11. ASSUME NEW l \in links'
       PROVE  MeansItsType(l)'
  BY <1>9, <1>10, <1>11 DEF Give
<1> QED BY <1>11 DEF NamesMeanTheirTypes

LEMMA InitNames == Init => NamesInv
<1> SUFFICES ASSUME Init PROVE NamesInv
  OBVIOUS
<1>1. /\ Len(stack) = 0 /\ declared = {} /\ links = {} /\ definers = [t \in Types |-> {}]
  BY DEF Init
<1>2. \A m \in Names, t \in TypeNames : <<m, t>> \in Types
  BY QualifiedName
<1> QED
  BY <1>1, <1>2 DEF NamesInv, AliasesAhead, BareIsRoots, Mentioned, DefinedByOwner,
                    NamesMeanTheirTypes

\* A step that disturbs no frame and no type.
LEMMA KeepNames ==
    ASSUME NamesInv, TablesTyped, UNCHANGED <<world, declared, definers, fileOf, links>>,
           \A i \in 1 .. Len(stack') :
               /\ i \in 1 .. Len(stack)
               /\ stack'[i].mod = stack[i].mod /\ stack'[i].file = stack[i].file
               /\ stack'[i].aliases = stack[i].aliases
    PROVE  NamesInv'
<1>1. Mentioned' /\ AliasesAhead'
  BY KeepFrames DEF NamesInv
<1>2. BareIsRoots'
  BY RootTypesSame DEF NamesInv, BareIsRoots
<1>3. DefinedByOwner'
  BY DEF NamesInv, DefinedByOwner
<1>4. ASSUME NEW l \in links
      PROVE  MeansItsType(l)'
  <2>1. MeansItsType(l)
    BY DEF NamesInv, NamesMeanTheirTypes
  <2> QED BY <1>3, <2>1, MeaningStays
<1>5. NamesMeanTheirTypes'
  BY <1>4 DEF NamesMeanTheirTypes
<1> QED BY <1>1, <1>2, <1>3, <1>5 DEF NamesInv

LEMMA ParseRootNames == IInv /\ TablesTyped /\ NamesInv /\ ParseRoot => NamesInv'
<1> SUFFICES ASSUME IInv, TablesTyped, NamesInv, ParseRoot PROVE NamesInv'
  OBVIOUS
<1>1. /\ Typed /\ stack = <<>> /\ UNCHANGED <<world, definers, fileOf, links>>
  BY DEF IInv, Started, ParseRoot, results
<1>2. CASE Root \in world.broken
  BY <1>1, <1>2, KeepNames DEF ParseRoot
<1>3. CASE Root \notin world.broken
  <2> DEFINE f == Frame(Nil, Root)
  <2>1. Len(stack') = 1 /\ stack'[1] = f /\ Parse(Nil, Root)
    BY <1>3 DEF ParseRoot
  <2>2. f.mod = Nil /\ f.file = Root /\ f.aliases = world.aliases[Root]
    BY DEF Frame
  <2>3. AliasesAhead'
    <3>1. PICK h : h = f
      OBVIOUS
    <3>2. h.file \in Files /\ h.aliases = world.aliases[h.file] /\ stack'[1] = h
      BY <2>1, <2>2, <3>1, RootIsFile
    <3>3. Ahead(h)'
      BY <1>1, <3>2, AllAhead
    <3>4. Ahead(stack[1])'
      BY <3>2, <3>3 DEF Ahead, Done
    <3> QED BY <2>1, <3>4 DEF AliasesAhead
  <2>4. Mentioned'
    <3>1. /\ \A t \in world.types[Root] :
                <<t>> \in declared' \/ Qualified(Nil, <<t>>) \in declared'
          /\ world.uses[Root] \subseteq declared'
      BY <1>1, <2>1, ParseMentions, RootIsFile DEF Mods
    <3>2. stack'[1].mod = Nil /\ stack'[1].file = Root
      BY <2>1, <2>2
    <3> QED BY <1>1, <2>1, <3>1, <3>2 DEF Mentioned, MentionedBy
  <2>5. BareIsRoots'
    <3> SUFFICES ASSUME NEW t \in TypeNames, <<t>> \in declared'
                 PROVE  t \in RootTypes
      BY <1>1, RootTypesSame DEF BareIsRoots
    <3>1. CASE <<t>> \in declared
      BY <3>1 DEF NamesInv, BareIsRoots
    <3>2. CASE <<t>> \notin declared
      <4>1. PICK name \in {<<u>> : u \in world.types[Root]} \cup world.uses[Root] :
                <<t>> = GetOrDeclare(declared, Nil, name)
        BY <2>1, <3>2 DEF Parse
      <4>2. GetOrDeclare(declared, Nil, name) \in {name, Qualified(Nil, name)}
        BY GetOrDeclareIs
      <4>3. <<t>> = name
        BY <4>1, <4>2 DEF Qualified
      <4>4. name \notin world.uses[Root]
        <5>1. world.uses[Root] \subseteq Names \X TypeNames
          BY <1>1, RootIsFile, WorldMentions DEF Typed
        <5>2. \A x \in Names, u \in TypeNames : Len(<<x, u>>) = 2 /\ Len(<<t>>) = 1
          OBVIOUS
        <5> QED BY <4>3, <5>1, <5>2
      <4>5. t \in world.types[Root]
        BY <4>1, <4>3, <4>4
      <4> QED BY <4>5 DEF RootTypes, BareTypes
    <3> QED BY <3>1, <3>2
  <2>6. DefinedByOwner'
    BY <1>1 DEF NamesInv, DefinedByOwner
  <2>7. NamesMeanTheirTypes'
    <3>1. ASSUME NEW l \in links
          PROVE  MeansItsType(l)'
      <4>1. MeansItsType(l)
        BY DEF NamesInv, NamesMeanTheirTypes
      <4> QED BY <1>1, <2>6, <4>1, MeaningStays
    <3> QED BY <1>1, <3>1 DEF NamesMeanTheirTypes
  <2> QED BY <2>3, <2>4, <2>5, <2>6, <2>7 DEF NamesInv
<1> QED BY <1>2, <1>3

LEMMA AliasNames ==
    IInv /\ TablesTyped /\ OrderInv /\ NamesInv /\ (DeclareAlias \/ RefuseAlias) => NamesInv'
<1> SUFFICES ASSUME IInv, TablesTyped, OrderInv, NamesInv, DeclareAlias \/ RefuseAlias
             PROVE  NamesInv'
  OBVIOUS
<1>1. /\ Typed /\ Aliasing /\ stack # <<>> /\ Top.aliases # <<>>
      /\ declared' = declared \cup {From, To} /\ UNCHANGED <<world, definers, fileOf, links>>
  BY DEF IInv, DeclareAlias, RefuseAlias, Aliasing, results
<1>2. BareIsRoots'
  <2>1. \A t \in TypeNames : <<t>> \in {To, From} => t \in RootTypes
    BY <1>1, AliasBare DEF NamesInv
  <2> QED BY <1>1, <2>1, RootTypesSame DEF NamesInv, BareIsRoots
<1>3. DefinedByOwner'
  BY <1>1 DEF NamesInv, DefinedByOwner
<1>4. NamesMeanTheirTypes'
  <2>1. ASSUME NEW l \in links
        PROVE  MeansItsType(l)'
    <3>1. MeansItsType(l)
      BY DEF NamesInv, NamesMeanTheirTypes
    <3> QED BY <1>1, <1>3, <3>1, MeaningStays
  <2> QED BY <1>1, <2>1 DEF NamesMeanTheirTypes
<1>5. CASE UNCHANGED stack
  <2>1. Mentioned' /\ AliasesAhead'
    BY <1>1, <1>5, KeepFrames DEF NamesInv
  <2> QED BY <1>2, <1>3, <1>4, <2>1 DEF NamesInv
<1>6. CASE stack' = OneAliasOn
  <2>1. PICK n, q : n = Len(stack) /\ q = Top.aliases
    OBVIOUS
  <2>2. /\ n \in 1 .. n /\ Len(stack') = n /\ Top = stack[n]
        /\ \A i \in 1 .. n : /\ stack'[i].mod = stack[i].mod /\ stack'[i].file = stack[i].file
                             /\ i # n => stack'[i] = stack[i]
        /\ stack'[n].aliases = Tail(q)
    BY <1>1, <1>6, <2>1, OneAliasOnFrames DEF Top
  <2>3. Mentioned'
    BY <1>1, <2>1, <2>2, KeepFrames DEF NamesInv
  <2>5. AliasesAhead'
    <3> SUFFICES ASSUME NEW i \in 1 .. n PROVE Ahead(stack[i])'
      BY <2>2 DEF AliasesAhead
    <3>1. CASE i # n
      <4>1. Ahead(stack[i])
        BY <2>1 DEF NamesInv, AliasesAhead
      <4>2. stack'[i] = stack[i]
        BY <2>2, <3>1
      <4> QED BY <1>1, <4>1, <4>2 DEF Ahead, Done
    <3>2. CASE i = n
      <4>1. stack'[i].aliases = Tail(q) /\ stack'[i].file = Top.file
        BY <2>1, <2>2, <3>2
      <4>2. AliasesAhead
        BY DEF NamesInv
      <4> QED BY <1>1, <2>1, <4>1, <4>2, NextAlias DEF Ahead, Done
    <3> QED BY <3>1, <3>2
  <2> QED BY <1>2, <1>3, <1>4, <2>3, <2>5 DEF NamesInv
<1> QED BY <1>5, <1>6 DEF DeclareAlias, RefuseAlias

LEMMA EnterNames ==
    IInv /\ TablesTyped /\ OrderInv /\ NamesInv /\ EnterModule => NamesInv'
<1> SUFFICES ASSUME IInv, TablesTyped, OrderInv, NamesInv, EnterModule PROVE NamesInv'
  OBVIOUS
<1>1. Typed /\ status = "running" /\ stack # <<>> /\ Top.left # <<>> /\ Fresh
  BY DEF IInv, EnterModule, NeedsFile, Importing
<1>2. PICK m, file, n : m = Next1 /\ file = FindFile(Next1, Top.file) /\ n = Len(stack)
  OBVIOUS
<1>3. m \in Names /\ color[m] = "white" /\ Len(Advanced) = n /\ Advanced \in Seq(FrameType)
  BY <1>1, <1>2, AdvancedStack DEF Fresh
<1>4. n \in Nat /\ n \in 1 .. n /\ Top = stack[n]
  BY <1>1, <1>2 DEF Typed, Top
<1>5. file \in Files
  <2>1. Top.file \in Files
    BY <1>1, <1>2, <1>4, FrameParts
  <2> QED BY <1>2, <1>3, <2>1, FoundFile DEF EnterModule
<1>6. UNCHANGED <<world, definers, links>> /\ fileOf' = [fileOf EXCEPT ![m] = file]
  BY <1>2 DEF EnterModule, results
<1>7. fileOf[m] = Nil
  BY <1>3 DEF OrderInv, WhiteUnknown
<1>8. DefinedByOwner'
  <2> SUFFICES ASSUME NEW x \in Names, NEW t \in TypeNames
               PROVE  definers[<<x, t>>] \subseteq {fileOf'[x]}
    BY <1>6 DEF DefinedByOwner
  <2>1. definers[<<x, t>>] \subseteq {fileOf[x]}
    BY DEF NamesInv, DefinedByOwner
  <2>2. CASE x # m
    BY <1>6, <2>1, <2>2 DEF TablesTyped
  <2>3. CASE x = m
    <3>1. definers[<<x, t>>] \subseteq Files /\ Nil \notin Files
      BY QualifiedName, NamesAssumption DEF TablesTyped
    <3> QED BY <1>7, <2>1, <2>3, <3>1
  <2> QED BY <2>2, <2>3
<1>9. NamesMeanTheirTypes'
  <2>1. \A x \in Names : fileOf[x] # Nil => fileOf'[x] = fileOf[x]
    BY <1>3, <1>6, <1>7 DEF TablesTyped
  <2>2. ASSUME NEW l \in links
        PROVE  MeansItsType(l)'
    <3>1. MeansItsType(l)
      BY DEF NamesInv, NamesMeanTheirTypes
    <3> QED BY <1>6, <1>8, <2>1, <3>1, MeaningStays
  <2> QED BY <1>6, <2>2 DEF NamesMeanTheirTypes
<1>10. CASE file \in world.broken
  <2>1. UNCHANGED <<stack, declared>>
    BY <1>2, <1>10 DEF EnterModule
  <2>2. Mentioned' /\ AliasesAhead'
    BY <1>6, <2>1, KeepFrames DEF NamesInv
  <2>3. BareIsRoots'
    BY <1>6, <2>1, RootTypesSame DEF NamesInv, BareIsRoots
  <2> QED BY <1>8, <1>9, <2>2, <2>3 DEF NamesInv
<1>11. CASE file \notin world.broken
  <2> DEFINE g == Frame(m, file)
  <2>1. stack' = Append(Advanced, g) /\ Parse(m, file)
    BY <1>2, <1>11 DEF EnterModule
  <2>2. g.mod = m /\ g.file = file /\ g.aliases = world.aliases[file] /\ g \in FrameType
    BY <1>1, <1>3, <1>5, WorldTyped DEF Frame, Typed, FrameType, Mods
  <2>3. /\ Len(stack') = n + 1 /\ stack'[n + 1] = g
        /\ \A i \in 1 .. n : stack'[i] = Advanced[i]
    BY <1>3, <1>4, <2>1, <2>2
  <2>4. \A i \in 1 .. n : /\ stack'[i].mod = stack[i].mod /\ stack'[i].file = stack[i].file
                          /\ stack'[i].aliases = stack[i].aliases
    BY <1>1, <1>2, <1>4, <2>3, AdvancedFrames
  <2>5. \A i \in 1 .. n + 1 : i \in 1 .. n \/ i = n + 1
    BY <1>4
  <2>6. /\ declared \subseteq declared'
        /\ \A t \in world.types[file] :
              <<t>> \in declared' \/ Qualified(m, <<t>>) \in declared'
        /\ world.uses[file] \subseteq declared'
    BY <1>1, <1>3, <1>5, <2>1, ParseMentions DEF Mods
  <2>7. Mentioned'
    <3> SUFFICES ASSUME NEW i \in 1 .. n + 1 PROVE MentionedBy(stack[i])'
      BY <2>3 DEF Mentioned
    <3>1. CASE i \in 1 .. n
      <4>1. MentionedBy(stack[i])
        BY <1>2, <3>1 DEF NamesInv, Mentioned
      <4>2. stack'[i].mod = stack[i].mod /\ stack'[i].file = stack[i].file
        BY <2>4, <3>1
      <4> QED BY <1>6, <2>6, <4>1, <4>2 DEF MentionedBy
    <3>2. CASE i = n + 1
      <4>1. stack'[i].mod = m /\ stack'[i].file = file
        BY <2>2, <2>3, <3>2
      <4> QED BY <1>6, <2>6, <4>1 DEF MentionedBy
    <3> QED BY <2>5, <3>1, <3>2
  <2>8. AliasesAhead'
    <3> SUFFICES ASSUME NEW i \in 1 .. n + 1 PROVE Ahead(stack[i])'
      BY <2>3 DEF AliasesAhead
    <3>1. CASE i \in 1 .. n
      <4>1. stack'[i].file = stack[i].file /\ stack'[i].aliases = stack[i].aliases
        BY <2>4, <3>1
      <4>2. Ahead(stack[i])
        BY <1>2, <3>1 DEF NamesInv, AliasesAhead
      <4> QED BY <1>6, <4>1, <4>2 DEF Ahead, Done
    <3>2. CASE i = n + 1
      <4>1. PICK h : h = g
        OBVIOUS
      <4>2. h.file \in Files /\ h.aliases = world.aliases[h.file] /\ stack'[i] = h
        BY <1>5, <2>2, <2>3, <3>2, <4>1
      <4>3. Ahead(h)'
        BY <1>1, <1>6, <4>2, AllAhead
      <4> QED BY <4>2, <4>3 DEF Ahead, Done
    <3> QED BY <2>5, <3>1, <3>2
  <2>9. BareIsRoots'
    <3>1. \A t \in TypeNames : <<t>> \in declared' => <<t>> \in declared
      BY <1>1, <1>3, <1>5, <2>1, ParseBare
    <3> QED BY <1>6, <3>1, RootTypesSame DEF NamesInv, BareIsRoots
  <2> QED BY <1>8, <1>9, <2>7, <2>8, <2>9 DEF NamesInv
<1> QED BY <1>10, <1>11

LEMMA ConvertNames ==
    IInv /\ TablesTyped /\ OrderInv /\ NamesInv /\ (ConvertModule \/ ConvertRoot \/ UnknownType)
       => NamesInv'
<1> SUFFICES ASSUME IInv, TablesTyped, OrderInv, NamesInv,
                    ConvertModule \/ ConvertRoot \/ UnknownType
             PROVE  NamesInv'
  OBVIOUS
<1>1. /\ Typed /\ Converting /\ stack # <<>> /\ status = "running" /\ ConvertDefinitions
      /\ UNCHANGED <<world, fileOf, declared>>
  BY DEF IInv, ConvertModule, ConvertRoot, UnknownType, Converting
<1>2. DefinedByOwner' /\ \A t \in Types : definers[t] \subseteq definers'[t]
  BY <1>1, ConvertOwner DEF NamesInv
<1>3. BareIsRoots'
  BY <1>1, RootTypesSame DEF NamesInv, BareIsRoots
<1>4. Mentioned' /\ AliasesAhead'
  <2>1. UNCHANGED stack \/ stack' = Below
    BY DEF ConvertModule, ConvertRoot, UnknownType
  <2>2. \A i \in 1 .. Len(stack') :
            /\ i \in 1 .. Len(stack)
            /\ stack'[i].mod = stack[i].mod /\ stack'[i].file = stack[i].file
            /\ stack'[i].aliases = stack[i].aliases
    <3>1. CASE UNCHANGED stack
      BY <3>1
    <3>2. CASE stack' = Below
      <4>1. Len(stack) \in Nat
        BY <1>1 DEF Typed
      <4> QED BY <1>1, <3>2, <4>1, BelowStack
    <3> QED BY <2>1, <3>1, <3>2
  <2> QED BY <1>1, <2>2, KeepFrames DEF NamesInv
<1>5. NamesMeanTheirTypes'
  <2>1. CASE ConvertModule \/ ConvertRoot
    <3>1. Give /\ \A name \in Named : Known(name)
      BY <2>1 DEF ConvertModule, ConvertRoot
    <3> QED BY <1>1, <3>1, GiveNames
  <2>2. CASE UnknownType
    <3>1. UNCHANGED links
      BY <2>2 DEF UnknownType, results
    <3>2. ASSUME NEW l \in links
          PROVE  MeansItsType(l)'
      <4>1. MeansItsType(l)
        BY DEF NamesInv, NamesMeanTheirTypes
      <4> QED BY <1>1, <1>2, <4>1, MeaningStays
    <3> QED BY <3>1, <3>2 DEF NamesMeanTheirTypes
  <2> QED BY <2>1, <2>2
<1> QED BY <1>2, <1>3, <1>4, <1>5 DEF NamesInv

LEMMA NextNames == IInv /\ TablesTyped /\ OrderInv /\ NamesInv /\ [Next]_vars => NamesInv'
<1> SUFFICES ASSUME IInv, TablesTyped, OrderInv, NamesInv, [Next]_vars PROVE NamesInv'
  OBVIOUS
<1>1. CASE ParseRoot
  BY <1>1, ParseRootNames
<1>2. CASE ImportAgain \/ ImportBuiltin
  <2>1. Typed /\ stack # <<>> /\ Top.left # <<>> /\ stack' = Advanced
    BY <1>2 DEF ImportAgain, ImportBuiltin, Importing, IInv
  <2>2. Len(stack') = Len(stack)
    BY <2>1, AdvancedStack
  <2>3. UNCHANGED <<world, declared, definers, fileOf, links>>
    BY <1>2 DEF ImportAgain, ImportBuiltin, tables, results
  <2> QED BY <2>1, <2>2, <2>3, AdvancedFrames, KeepNames
<1>3. CASE EnterModule
  BY <1>3, EnterNames
<1>4. CASE FileNotFound \/ UNCHANGED vars
  BY <1>4, KeepNames DEF FileNotFound, vars, tables, results
<1>5. CASE ConvertModule \/ ConvertRoot \/ UnknownType
  BY <1>5, ConvertNames
<1>6. CASE DeclareAlias \/ RefuseAlias
  BY <1>6, AliasNames
<1> QED BY <1>1, <1>2, <1>3, <1>4, <1>5, <1>6 DEF Next, Compile, Stopped

\* A type named in code that has been generated is the one it reads as: the
\* file's own, or the qualifying module's and nobody else's.  Only a type the
\* program's file mentions by its bare name takes over a module's, because
\* get_type looks for the bare name first (type_map.cpp:188-208).
THEOREM NamesKeepTheirMeaning == Spec => []NamesMeanTheirTypes
<1>1. NamesInv => NamesMeanTheirTypes
  BY DEF NamesInv
<1> QED
  BY <1>1, InitIInv, NextIInv, TablesTypedInit, TablesTypedNext, InitOrder, NextOrder,
     InitNames, NextNames, PTL DEF Spec

-----------------------------------------------------------------------------
(***************************************************************************)
(* Following aliases.                                                      *)
(***************************************************************************)
AliasTable == [Types -> Types \cup {Nil}]

\* A chain holds its type and what each of its types is an alias to, and is
\* within every set that does.
LEMMA ChainClosed ==
    ASSUME NEW to \in AliasTable, NEW type \in Types
    PROVE  /\ type \in Chain(to, type) /\ Chain(to, type) \subseteq Types
           /\ \A t \in Chain(to, type) : to[t] # Nil => to[t] \in Chain(to, type)
<1>1. \A t \in Followed(to, type) : t \in Types /\ to[t] # Nil /\ to[t] \in Types
  BY DEF Followed, Linked, AliasTable
<1>2. type \in Linked(to) => type \in Followed(to, type)
  BY DEF Followed
<1>3. ASSUME NEW t \in Followed(to, type), to[t] \in Linked(to)
      PROVE  to[t] \in Followed(to, type)
  BY <1>3 DEF Followed
<1>4. ASSUME NEW t \in Chain(to, type), to[t] # Nil
      PROVE  to[t] \in Chain(to, type)
  <2>1. t \in Types
    BY <1>1 DEF Chain
  <2>2. t \in Linked(to)
    BY <1>4, <2>1 DEF Linked
  <2>3. t \in Followed(to, type)
    BY <1>2, <1>3, <2>2 DEF Chain
  <2> QED BY <2>3 DEF Chain
<1> QED BY <1>1, <1>4 DEF Chain

LEMMA ChainLeast ==
    ASSUME NEW to \in AliasTable, NEW type \in Types, NEW set,
           type \in set, \A t \in set \cap Types : to[t] # Nil => to[t] \in set
    PROVE  Chain(to, type) \subseteq set
<1> DEFINE L == set \cap Linked(to)
<1>1. /\ L \in SUBSET Linked(to) /\ type \in Linked(to) => type \in L
      /\ \A t \in L : to[t] \in Linked(to) => to[t] \in L
  BY DEF Linked, AliasTable
<1>2. Followed(to, type) \subseteq L
  BY <1>1 DEF Followed
<1>3. \A t \in L : to[t] \in set
  BY DEF Linked, AliasTable
<1> QED BY <1>2, <1>3 DEF Chain

\* The chain of an alias is the alias and the chain of its target.
LEMMA ChainUnfolds ==
    ASSUME NEW to \in AliasTable, NEW type \in Types
    PROVE  /\ to[type] = Nil => Chain(to, type) = {type}
           /\ to[type] # Nil => /\ to[type] \in Types
                                /\ Chain(to, type) = {type} \cup Chain(to, to[type])
<1>1. CASE to[type] = Nil
  <2>1. Chain(to, type) \subseteq {type}
    BY <1>1, ChainLeast
  <2> QED BY <1>1, <2>1, ChainClosed
<1>2. CASE to[type] # Nil
  <2>1. PICK u \in Types : u = to[type]
    BY <1>2 DEF AliasTable
  <2>2. /\ u \in Chain(to, u) /\ Chain(to, u) \subseteq Types
        /\ \A t \in Chain(to, u) : to[t] # Nil => to[t] \in Chain(to, u)
    BY ChainClosed
  <2>3. Chain(to, type) \subseteq {type} \cup Chain(to, u)
    <3> DEFINE set == {type} \cup Chain(to, u)
    <3>1. type \in set /\ \A t \in set \cap Types : to[t] # Nil => to[t] \in set
      BY <2>1, <2>2
    <3> HIDE DEF set
    <3>2. Chain(to, type) \subseteq set
      BY <3>1, ChainLeast
    <3> QED BY <3>2 DEF set
  <2>4. /\ type \in Chain(to, type) /\ u \in Chain(to, type)
        /\ \A t \in Chain(to, type) : to[t] # Nil => to[t] \in Chain(to, type)
    BY <1>2, <2>1, ChainClosed
  <2>5. Chain(to, u) \subseteq Chain(to, type)
    BY <2>1, <2>4, ChainLeast
  <2> QED BY <1>2, <2>1, <2>3, <2>4, <2>5
<1> QED BY <1>1, <1>2

\* Where no aliases go round, a chain has an end, and only one: it is the end
\* of every type on it.
LEMMA ChainEnds ==
    ASSUME NEW to \in AliasTable, Acyclic(to), NEW type \in Types
    PROVE  /\ EndOf(to, type) \in Chain(to, type) /\ to[EndOf(to, type)] = Nil
           /\ \A t \in Chain(to, type) : to[t] = Nil => t = EndOf(to, type)
<1>1. /\ type \in Chain(to, type) /\ Chain(to, type) \subseteq Types
      /\ \A t \in Chain(to, type) : to[t] # Nil => to[t] \in Chain(to, type)
  BY ChainClosed
<1>2. \E t \in Chain(to, type) : to[t] = Nil
  <2> SUFFICES ASSUME \A t \in Chain(to, type) : to[t] # Nil
               PROVE  FALSE
    OBVIOUS
  <2>1. Chain(to, type) \subseteq Linked(to)
    BY <1>1 DEF Linked
  <2> QED BY <1>1, <2>1 DEF Acyclic
<1>3. PICK e : e = EndOf(to, type)
  OBVIOUS
<1>4. e \in Chain(to, type) /\ to[e] = Nil
  BY <1>2, <1>3 DEF EndOf
<1>5. Chain(to, type) \subseteq {v \in Chain(to, type) : e \in Chain(to, v)}
  <2> DEFINE set == {v \in Chain(to, type) : e \in Chain(to, v)}
  <2>1. ASSUME NEW v \in set \cap Types, to[v] # Nil
        PROVE  to[v] \in set
    <3>1. Chain(to, v) = {v} \cup Chain(to, to[v])
      BY <2>1, ChainUnfolds
    <3>2. e # v
      BY <1>4, <2>1
    <3> QED BY <1>1, <2>1, <3>1, <3>2
  <2>2. type \in set
    BY <1>1, <1>4
  <2> HIDE DEF set
  <2>3. Chain(to, type) \subseteq set
    BY <2>1, <2>2, ChainLeast
  <2> QED BY <2>3 DEF set
<1>6. ASSUME NEW t \in Chain(to, type), to[t] = Nil
      PROVE  t = e
  <2>1. e \in Chain(to, t) /\ t \in Types
    BY <1>1, <1>5, <1>6
  <2> QED BY <1>6, <2>1, ChainUnfolds
<1> QED BY <1>3, <1>4, <1>6

Linking(to, from, target) == [to EXCEPT ![from] = target]

\* A new alias whose chain does not come back to it goes round no more than
\* the old ones, and leads where its target leads.
LEMMA LinkMade ==
    ASSUME NEW to \in AliasTable, Acyclic(to), NEW from \in Types, NEW target \in Types,
           to[from] = Nil, from \notin Chain(to, target),
           NEW new, new = Linking(to, from, target)
    PROVE  /\ new \in AliasTable /\ Acyclic(new)
           /\ EndOf(new, from) = EndOf(to, target)
           /\ \A s, t \in Types : EndOf(to, s) = EndOf(to, t) => EndOf(new, s) = EndOf(new, t)
           /\ EndOf(new, target) = EndOf(to, target)
<1>1. new \in AliasTable /\ new[from] = target /\ \A t \in Types : t # from => new[t] = to[t]
  BY DEF AliasTable, Linking
<1>2. target # Nil
  BY NamesAssumption
<1>3. PICK e : e = EndOf(to, target)
  OBVIOUS
<1>4. e \in Chain(to, target) /\ to[e] = Nil /\ e \in Types /\ e # from
  BY <1>3, ChainEnds, ChainClosed
<1>5. new[e] = Nil
  BY <1>1, <1>4
<1>6. ASSUME NEW set, NEW t \in Types, t \in set,
             \A v \in set : new[v] # Nil => new[v] \in set
      PROVE  Chain(to, t) \subseteq set
  <2>1. \A v \in set \cap Types : to[v] # Nil => to[v] \in set
    BY <1>1, <1>6
  <2> QED BY <1>6, <2>1, ChainLeast
<1>7. Acyclic(new)
  <2> SUFFICES ASSUME NEW set \in SUBSET Linked(new), set # {}, \A t \in set : new[t] \in set
               PROVE  FALSE
    BY DEF Acyclic
  <2>1. \A t \in set : t \in Types /\ new[t] # Nil
    BY DEF Linked
  <2>2. CASE from \notin set
    <3>1. \A t \in set : to[t] = new[t]
      BY <1>1, <2>1, <2>2
    <3>2. set \in SUBSET Linked(to)
      BY <2>1, <3>1 DEF Linked
    <3> QED BY <3>1, <3>2 DEF Acyclic
  <2>3. CASE from \in set
    <3>1. target \in set
      BY <1>1, <2>3
    <3>2. Chain(to, target) \subseteq set
      BY <1>6, <3>1
    <3> QED BY <1>4, <1>5, <2>1, <3>2
  <2> QED BY <2>2, <2>3
<1>8. ASSUME NEW t \in Types
      PROVE  EndOf(new, t) = IF EndOf(to, t) = from THEN e ELSE EndOf(to, t)
  <2>1. PICK set : set = Chain(new, t)
    OBVIOUS
  <2>2. /\ t \in set /\ set \subseteq Types
        /\ \A v \in set : new[v] # Nil => new[v] \in set
    <3>1. new \in AliasTable
      BY <1>1
    <3>2. /\ t \in Chain(new, t) /\ Chain(new, t) \subseteq Types
          /\ \A v \in Chain(new, t) : new[v] # Nil => new[v] \in Chain(new, t)
      BY <3>1, ChainClosed
    <3> QED BY <2>1, <3>2
  <2>3. \A v \in set : new[v] = Nil => v = EndOf(new, t)
    BY <1>1, <1>7, <2>1, ChainEnds
  <2>4. Chain(to, t) \subseteq set
    BY <1>6, <2>2
  <2>5. EndOf(to, t) \in set /\ to[EndOf(to, t)] = Nil
    BY <2>4, ChainEnds
  <2>6. CASE EndOf(to, t) = from
    <3>1. target \in set
      BY <1>1, <1>2, <2>2, <2>5, <2>6
    <3>2. Chain(to, target) \subseteq set
      BY <1>6, <2>2, <3>1
    <3> QED BY <1>4, <1>5, <2>3, <2>6, <3>2
  <2>7. CASE EndOf(to, t) # from
    <3>1. new[EndOf(to, t)] = Nil
      BY <1>1, <2>2, <2>5, <2>7
    <3> QED BY <2>3, <2>5, <2>7, <3>1
  <2> QED BY <2>6, <2>7
<1>9. EndOf(to, from) = from
  <2>1. Chain(to, from) = {from}
    BY ChainUnfolds
  <2> QED BY <2>1, ChainEnds
<1>10. EndOf(new, from) = e /\ EndOf(new, target) = e
  BY <1>3, <1>4, <1>8, <1>9
<1>11. \A s, t \in Types : EndOf(to, s) = EndOf(to, t) => EndOf(new, s) = EndOf(new, t)
  BY <1>8
<1> QED BY <1>1, <1>3, <1>7, <1>10, <1>11

LEMMA InitAliases == Init => AliasInv
<1> SUFFICES ASSUME Init PROVE AliasInv
  OBVIOUS
<1>1. /\ aliasedTo = [t \in Types |-> Nil] /\ token = [t \in Types |-> t]
  BY DEF Init
<1>2. Linked(aliasedTo) = {}
  BY <1>1 DEF Linked
<1>3. Acyclic(aliasedTo)
  BY <1>2 DEF Acyclic
<1>4. \A t \in Types : token[t] = t
  BY <1>1
<1> QED BY <1>3, <1>4 DEF AliasInv

LEMMA NextAliases == IInv /\ TablesTyped /\ AliasInv /\ [Next]_vars => AliasInv'
<1> SUFFICES ASSUME IInv, TablesTyped, AliasInv, [Next]_vars, status' # "aborted"
             PROVE  AliasInv'
  BY DEF AliasInv
<1>1. CASE DeclareAlias
  <2>1. PICK from, target, to, new :
            from = From /\ target = To /\ to = aliasedTo /\ new = aliasedTo'
    OBVIOUS
  <2>2. from \in Types /\ target \in Types
    BY <1>1, <2>1, AliasTyped DEF DeclareAlias, Aliasing, IInv
  <2>3. to \in AliasTable /\ Acyclic(to)
    BY <1>1, <2>1 DEF TablesTyped, AliasTable, AliasInv, DeclareAlias, Aliasing
  <2>4. to[from] = Nil /\ from \notin Chain(to, target) /\ new = Linking(to, from, target)
    BY <1>1, <2>1 DEF DeclareAlias, Cyclic, Walk, Linking
  <2>8. token' = [token EXCEPT ![from] = token[target]]
    BY <1>1, <2>1 DEF DeclareAlias
  <2>5. \A t \in Types : token[t] \in Types /\ EndOf(to, token[t]) = EndOf(to, t)
    BY <1>1, <2>1 DEF TablesTyped, AliasInv, DeclareAlias, Aliasing
  <2>6. /\ Acyclic(new)
        /\ EndOf(new, from) = EndOf(to, target)
        /\ \A s, t \in Types : EndOf(to, s) = EndOf(to, t) => EndOf(new, s) = EndOf(new, t)
        /\ EndOf(new, target) = EndOf(to, target)
    BY <2>2, <2>3, <2>4, LinkMade
  <2>7. ASSUME NEW t \in Types
        PROVE  EndOf(new, token'[t]) = EndOf(new, t)
    <3>1. token'[t] = IF t = from THEN token[target] ELSE token[t]
      BY <2>2, <2>8 DEF TablesTyped
    <3>2. CASE t # from
      BY <2>5, <2>6, <3>1, <3>2
    <3>3. CASE t = from
      <4>1. EndOf(new, token[target]) = EndOf(new, target)
        BY <2>2, <2>5, <2>6
      <4> QED BY <2>6, <3>1, <3>3, <4>1
    <3> QED BY <3>2, <3>3
  <2> QED BY <2>1, <2>6, <2>7 DEF AliasInv
<1>2. CASE ~DeclareAlias
  <2>1. UNCHANGED <<aliasedTo, token>> /\ status # "aborted"
    BY <1>2 DEF Next, Compile, Stopped, ParseRoot, ImportAgain, ImportBuiltin, EnterModule,
          FileNotFound, ConvertModule, ConvertRoot, UnknownType, RefuseAlias, Importing, NeedsFile,
          Converting, vars, tables, aliases
  <2> QED BY <2>1 DEF AliasInv
<1> QED BY <1>1, <1>2

\* Whatever is made an alias to whatever, in whichever order files are parsed,
\* following aliases comes to an end, the same for a type and for the type its
\* token leads to (aliased_to_top and the copied m_type_token).
THEOREM AliasesLeadSomewhere == Spec => []AliasesResolve
<1>1. TablesTyped /\ AliasInv => AliasesResolve
  <2> SUFFICES ASSUME TablesTyped, AliasInv, status # "aborted", NEW t \in Types
               PROVE  \E u \in Chain(aliasedTo, t) : aliasedTo[u] = Nil
    BY DEF AliasesResolve, AliasInv
  <2>1. aliasedTo \in AliasTable /\ Acyclic(aliasedTo)
    BY DEF TablesTyped, AliasTable, AliasInv
  <2>2. /\ EndOf(aliasedTo, t) \in Chain(aliasedTo, t)
        /\ aliasedTo[EndOf(aliasedTo, t)] = Nil
    BY <2>1, ChainEnds
  <2> QED BY <2>2
<1> QED
  BY <1>1, InitIInv, NextIInv, TablesTypedInit, TablesTypedNext, InitAliases, NextAliases,
     PTL DEF Spec

-----------------------------------------------------------------------------
(***************************************************************************)
(* Why a compilation is given up.                                          *)
(***************************************************************************)
\* The more files are known, the more is hidden and the more is wanted.
LEMMA WantedGrows ==
    ASSUME TablesTyped, UNCHANGED world,
           UNCHANGED fileOf \/ \E m \in Names : /\ fileOf[m] = Nil
                                                /\ \E file : fileOf' = [fileOf EXCEPT ![m] = file]
    PROVE  /\ RootHides => RootHides'
           /\ Wanted \subseteq Wanted'
<1>1. \A x \in Names : fileOf[x] # Nil => fileOf'[x] = fileOf[x]
  BY DEF TablesTyped
<1>2. RootHides => RootHides'
  BY <1>1, RootTypesSame DEF RootHides, BareTypes
<1>3. \A mod, file : AliasesOf(mod, file)' = AliasesOf(mod, file)
  BY DEF AliasesOf
<1>4. ASSUME NEW x \in Names, fileOf[x] # Nil
      PROVE  AliasesOf(x, fileOf[x]) \subseteq AliasesOf(x, fileOf[x])'
  <2>1. PICK f : f = fileOf[x]
    OBVIOUS
  <2>2. fileOf'[x] = f /\ AliasesOf(x, f)' = AliasesOf(x, f)
    BY <1>1, <1>3, <1>4, <2>1
  <2> QED BY <2>1, <2>2 DEF AliasesOf
<1>5. AliasesOf(Nil, Root) \subseteq AliasesOf(Nil, Root)'
  BY DEF AliasesOf
<1>6. \A x \in Names : fileOf[x] # Nil => fileOf'[x] # Nil
  BY <1>1
<1>7. ASSUME NEW p \in Wanted
      PROVE  p \in Wanted'
  <2>1. CASE p \in AliasesOf(Nil, Root)
    BY <1>5, <2>1 DEF Wanted
  <2>2. CASE \E x \in Names : fileOf[x] # Nil /\ p \in AliasesOf(x, fileOf[x])
    BY <1>4, <1>6, <2>2 DEF Wanted
  <2> QED BY <1>7, <2>1, <2>2 DEF Wanted
<1> QED BY <1>2, <1>7

\* Unless the program's file hides a type, an alias is made between the names
\* its own file means.
LEMMA AliasResolved ==
    ASSUME IInv, TablesTyped, OrderInv, NamesInv, Aliasing, ~RootHides
    PROVE  <<From, To, Top.mod, Done(Top) + 1>> \in Wanted
<1>1. /\ Typed /\ stack # <<>> /\ Top.aliases # <<>>
      /\ status = "running" /\ module = Top.mod
  BY DEF IInv, Aliasing, Running, OwnModule
<1>2. PICK a, j : a = Head(Top.aliases) /\ j = Done(Top) + 1
  OBVIOUS
<1>3. a.name \in Types /\ a.to \in Types
  BY <1>1, <1>2, AliasTyped
<1>4. j \in DOMAIN world.aliases[Top.file] /\ a = world.aliases[Top.file][j]
  BY <1>1, <1>2, NextAlias DEF NamesInv
<1>5. To = GetOrDeclare(declared, module, a.to)
  BY <1>2 DEF To
<1>6. From = GetOrDeclare(declared \cup {To}, module, a.name)
  BY <1>2 DEF From
<1>7. CASE module = Nil
  <2>1. Qualified(module, a.to) = a.to /\ Qualified(module, a.name) = a.name
    BY <1>7 DEF Qualified
  <2>2. To = a.to /\ From = a.name
    <3>1. /\ To \in {a.to, Qualified(module, a.to)}
          /\ From \in {a.name, Qualified(module, a.name)}
      BY <1>5, <1>6, GetOrDeclareIs
    <3> QED BY <2>1, <3>1
  <2>3. Top.file = Root
    BY <1>1, <1>7, RootFrame
  <2> QED BY <1>1, <1>2, <1>4, <1>7, <2>1, <2>2, <2>3 DEF Wanted, AliasesOf
<1>8. CASE module # Nil
  <2>1. module \in Names /\ fileOf[module] = Top.file /\ fileOf[module] # Nil
    BY <1>1, <1>8, RootFrame
  <2>2. ASSUME NEW name \in {a.name, a.to}, name \in declared
        PROVE  Qualified(module, name) = name
    <3>1. name \in Types
      BY <1>3
    <3>2. CASE Len(name) = 1
      <4>1. PICK t \in TypeNames : name = <<t>>
        BY <3>1, <3>2, NameShape
      <4>2. t \in RootTypes
        BY <2>2, <4>1 DEF NamesInv, BareIsRoots
      <4>3. t \in BareTypes(Top.file)
        BY <1>4, <2>2, <4>1 DEF BareTypes
      <4> QED BY <2>1, <4>2, <4>3 DEF RootHides
    <3>3. CASE Len(name) # 1
      <4>1. PICK x \in Names, t \in TypeNames : name = <<x, t>>
        BY <3>1, <3>3, NameShape
      <4>2. Qualified(module, <<x, t>>) = <<x, t>>
        BY QualifiedName
      <4> QED BY <4>1, <4>2
    <3> QED BY <3>2, <3>3
  <2>3. To = Qualified(module, a.to)
    <3>1. /\ To \in {a.to, Qualified(module, a.to)}
          /\ To = a.to => a.to \in declared \/ To = Qualified(module, a.to)
      BY <1>5, GetOrDeclareIs
    <3> QED BY <2>2, <3>1
  <2>4. ASSUME NEW name \in Types, To = name
        PROVE  Qualified(module, name) = name
    <3>1. \A t \in TypeNames : To # <<t>>
      <4>1. SUFFICES ASSUME NEW t \in TypeNames, To = <<t>> PROVE FALSE
        OBVIOUS
      <4>2. <<t>> \in declared
        BY <1>3, <1>5, <2>1, <4>1, BareOnlyDeclared
      <4>3. CASE a.to = <<t>>
        <5>1. Qualified(module, a.to) = a.to
          BY <2>2, <4>2, <4>3
        <5>2. Qualified(module, <<t>>) = <<module, t>> /\ <<module, t>> # <<t>>
          BY <2>1, BareName, QualifiedName
        <5> QED BY <4>3, <5>1, <5>2
      <4>4. CASE a.to # <<t>>
        <5>1. Qualified(module, a.to) = <<t>>
          BY <2>3, <4>1
        <5>2. Len(Qualified(module, a.to)) = 2
          BY <1>3, <2>1, QualifiedLong
        <5> QED BY <5>1, <5>2, BareName
      <4> QED BY <4>3, <4>4
    <3>2. Len(name) # 1
      BY <2>4, <3>1, NameShape
    <3>3. PICK x \in Names, t \in TypeNames : name = <<x, t>>
      BY <3>2, NameShape
    <3>4. Qualified(module, <<x, t>>) = <<x, t>>
      BY QualifiedName
    <3> QED BY <3>3, <3>4
  <2>5. From = Qualified(module, a.name)
    <3>1. /\ From \in {a.name, Qualified(module, a.name)}
          /\ From = a.name => a.name \in declared \cup {To} \/ From = Qualified(module, a.name)
      BY <1>6, GetOrDeclareIs
    <3>2. a.name \in declared \cup {To} => Qualified(module, a.name) = a.name
      BY <1>3, <2>2, <2>4
    <3> QED BY <3>1, <3>2
  <2>6. <<From, To, module, j>> \in AliasesOf(module, fileOf[module])
    BY <1>4, <2>1, <2>3, <2>5 DEF AliasesOf
  <2> QED BY <1>1, <1>2, <2>1, <2>6 DEF Wanted
<1> QED BY <1>7, <1>8

LEMMA WantedParts ==
    ASSUME Typed, TablesTyped, NEW p \in Wanted
    PROVE  /\ p[1] \in Types /\ p[2] \in Types /\ p[4] \in Nat
           /\ p[3] # Nil => p[3] \in Names /\ fileOf[p[3]] # Nil
<1>1. ASSUME NEW mod \in Mods, NEW file \in Files, p \in AliasesOf(mod, file)
      PROVE  p[1] \in Types /\ p[2] \in Types /\ p[4] \in Nat /\ p[3] = mod
  <2>1. PICK all : all = world.aliases[file]
    OBVIOUS
  <2>2. all \in Seq([name : Types, to : Types])
    BY <2>1, WorldTyped DEF Typed
  <2>3. PICK i \in DOMAIN all :
            p = <<Qualified(mod, all[i].name), Qualified(mod, all[i].to), mod, i>>
    BY <1>1, <2>1 DEF AliasesOf
  <2>4. i \in Nat /\ all[i].name \in Types /\ all[i].to \in Types
    <3> DEFINE A == [name : Types, to : Types]
    <3>1. \A a \in A : a.name \in Types /\ a.to \in Types
      OBVIOUS
    <3>2. all \in Seq(A)
      BY <2>2
    <3> HIDE DEF A
    <3>3. i \in Nat /\ all[i] \in A
      BY <3>2
    <3> QED BY <3>1, <3>3
  <2>5. Qualified(mod, all[i].name) \in Types /\ Qualified(mod, all[i].to) \in Types
    BY <2>4, QualifiedTyped
  <2> QED BY <2>3, <2>4, <2>5
<1>2. CASE p \in AliasesOf(Nil, Root)
  BY <1>1, <1>2, RootIsFile DEF Mods
<1>3. CASE \E x \in Names : fileOf[x] # Nil /\ p \in AliasesOf(x, fileOf[x])
  <2>1. PICK x \in Names : fileOf[x] # Nil /\ p \in AliasesOf(x, fileOf[x])
    BY <1>3
  <2>2. fileOf[x] \in Files /\ x \in Mods
    BY <2>1 DEF TablesTyped, Mods
  <2> QED BY <1>1, <2>1, <2>2
<1> QED BY <1>2, <1>3 DEF Wanted

LEMMA DoneTyped ==
    ASSUME Typed, NEW i \in 1 .. Len(stack)
    PROVE  Done(stack[i]) \in Int
<1>1. stack[i].file \in Files /\ stack[i].aliases \in Seq([name : Types, to : Types])
  BY FrameParts
<1>2. world.aliases[stack[i].file] \in Seq([name : Types, to : Types])
  BY <1>1, WorldTyped DEF Typed
<1>3. Len(world.aliases[stack[i].file]) \in Nat /\ Len(stack[i].aliases) \in Nat
  BY <1>1, <1>2
<1> QED BY <1>3 DEF Done

\* What has been made stays wanted while frames keep their aliases, and a new
\* frame is that of a module that had no file.
LEMMA KeepMade ==
    ASSUME AliasMade, Typed, TablesTyped, status # "aborted", status' # "start",
           UNCHANGED <<world, aliasedTo>>, RootHides => RootHides', Wanted \subseteq Wanted',
           \A i \in 1 .. Len(stack') :
               \/ stack'[i].mod # Nil /\ fileOf[stack'[i].mod] = Nil
               \/ \E j \in 1 .. Len(stack) : /\ stack'[i].mod = stack[j].mod
                                             /\ stack'[i].file = stack[j].file
                                             /\ stack'[i].aliases = stack[j].aliases
    PROVE  AliasMade'
<1>1. ASSUME ~RootHides', NEW t \in Types, aliasedTo[t] # Nil
      PROVE  \E p \in Wanted' :
                 /\ p[1] = t /\ p[2] = aliasedTo[t]
                 /\ \A i \in 1 .. Len(stack') :
                       stack'[i].mod = p[3] =>
                           p[4] <= Len(world.aliases[stack'[i].file]) - Len(stack'[i].aliases)
  <2>1. PICK p \in Wanted :
            /\ p[1] = t /\ p[2] = aliasedTo[t]
            /\ \A i \in 1 .. Len(stack) : stack[i].mod = p[3] => p[4] <= Done(stack[i])
    BY <1>1 DEF AliasMade
  <2>2. p[3] # Nil => fileOf[p[3]] # Nil
    BY WantedParts
  <2>3. ASSUME NEW i \in 1 .. Len(stack'), stack'[i].mod = p[3]
        PROVE  p[4] <= Len(world.aliases[stack'[i].file]) - Len(stack'[i].aliases)
    <3>1. PICK j \in 1 .. Len(stack) : /\ stack'[i].mod = stack[j].mod
                                       /\ stack'[i].file = stack[j].file
                                       /\ stack'[i].aliases = stack[j].aliases
      BY <2>2, <2>3
    <3>2. p[4] <= Done(stack[j])
      BY <2>1, <2>3, <3>1
    <3> QED BY <3>1, <3>2 DEF Done
  <2>4. p \in Wanted'
    OBVIOUS
  <2> QED BY <2>1, <2>3, <2>4
<1> QED BY <1>1 DEF AliasMade, Done

LEMMA DeclareMade ==
    IInv /\ TablesTyped /\ OrderInv /\ NamesInv /\ AliasMade /\ DeclareAlias => AliasMade'
<1> SUFFICES ASSUME IInv, TablesTyped, OrderInv, NamesInv, AliasMade, DeclareAlias
             PROVE  AliasMade'
  OBVIOUS
<1>1. /\ Typed /\ Aliasing /\ stack # <<>> /\ Top.aliases # <<>> /\ status = "running"
      /\ status' = "running" /\ stack' = OneAliasOn /\ world' = world /\ fileOf' = fileOf
      /\ aliasedTo' = [aliasedTo EXCEPT ![From] = To]
  BY DEF IInv, DeclareAlias, Aliasing
<1>2. (RootHides => RootHides') /\ Wanted \subseteq Wanted'
  BY <1>1, WantedGrows
<1>3. PICK from, target, top, done :
          from = From /\ target = To /\ top = Top /\ done = Done(Top)
  OBVIOUS
<1>4. /\ Len(stack) \in 1 .. Len(stack) /\ Len(stack') = Len(stack)
      /\ \A i \in 1 .. Len(stack) :
            /\ stack'[i].mod = stack[i].mod /\ stack'[i].file = stack[i].file
            /\ i # Len(stack) => stack'[i] = stack[i]
      /\ stack'[Len(stack)].aliases = Tail(top.aliases)
  BY <1>1, <1>3, OneAliasOnFrames
<1>5. top = stack[Len(stack)]
  BY <1>3 DEF Top
<1>6. Len(world.aliases[top.file]) - Len(Tail(top.aliases)) = done + 1 /\ done \in Int
  BY <1>1, <1>3, <1>4, <1>5, NextAlias, DoneTyped DEF NamesInv
<1>7. ASSUME NEW i \in 1 .. Len(stack)
      PROVE  /\ Len(world.aliases[stack'[i].file]) - Len(stack'[i].aliases) =
                    IF i = Len(stack) THEN done + 1 ELSE Done(stack[i])
             /\ Done(stack[i]) \in Int
             /\ i = Len(stack) => Done(stack[i]) = done
  <2>1. Done(stack[i]) \in Int
    BY <1>1, DoneTyped
  <2>2. i = Len(stack) => Done(stack[i]) = done
    BY <1>3, <1>5
  <2>3. CASE i = Len(stack)
    BY <1>4, <1>5, <1>6, <2>1, <2>2, <2>3
  <2>4. CASE i # Len(stack)
    BY <1>4, <2>1, <2>4 DEF Done
  <2> QED BY <2>1, <2>2, <2>3, <2>4
<1>8. ASSUME ~RootHides', NEW t \in Types, aliasedTo'[t] # Nil
      PROVE  \E p \in Wanted' :
                 /\ p[1] = t /\ p[2] = aliasedTo'[t]
                 /\ \A i \in 1 .. Len(stack') :
                       stack'[i].mod = p[3] =>
                           p[4] <= Len(world.aliases[stack'[i].file]) - Len(stack'[i].aliases)
  <2>1. ~RootHides
    BY <1>2, <1>8
  <2>2. CASE t = from
    <3>1. PICK p : p = <<from, target, top.mod, done + 1>>
      OBVIOUS
    <3>2. p \in Wanted'
      BY <1>1, <1>2, <1>3, <2>1, <3>1, AliasResolved
    <3>3. aliasedTo'[t] = target
      BY <1>1, <1>3, <2>2 DEF TablesTyped
    <3>4. ASSUME NEW i \in 1 .. Len(stack'), stack'[i].mod = p[3]
          PROVE  p[4] <= Len(world.aliases[stack'[i].file]) - Len(stack'[i].aliases)
      <4>1. stack[i].mod = stack[Len(stack)].mod
        BY <1>4, <1>5, <3>1, <3>4
      <4>2. i = Len(stack)
        BY <1>4, <4>1 DEF IInv, OnceOnStack
      <4>3. i \in 1 .. Len(stack)
        BY <1>4
      <4>4. Len(world.aliases[stack'[i].file]) - Len(stack'[i].aliases) = done + 1
        BY <1>7, <4>2, <4>3
      <4>5. p[4] = done + 1
        BY <3>1
      <4>6. PICK e : e = Len(world.aliases[stack'[i].file]) - Len(stack'[i].aliases)
        OBVIOUS
      <4>7. PICK q : q = p[4]
        OBVIOUS
      <4>8. e = done + 1 /\ q = done + 1
        BY <4>4, <4>5, <4>6, <4>7
      <4>9. q <= e
        BY <1>6, <4>8
      <4> QED BY <4>6, <4>7, <4>9
    <3> QED BY <2>2, <3>1, <3>2, <3>3, <3>4
  <2>3. CASE t # from
    <3>1. aliasedTo'[t] = aliasedTo[t]
      BY <1>1, <1>3, <2>3 DEF TablesTyped
    <3>2. PICK p \in Wanted :
              /\ p[1] = t /\ p[2] = aliasedTo[t]
              /\ \A i \in 1 .. Len(stack) : stack[i].mod = p[3] => p[4] <= Done(stack[i])
      BY <1>1, <1>8, <2>1, <3>1 DEF AliasMade
    <3>3. p[4] \in Nat
      BY <1>1, WantedParts
    <3>4. ASSUME NEW i \in 1 .. Len(stack'), stack'[i].mod = p[3]
          PROVE  p[4] <= Len(world.aliases[stack'[i].file]) - Len(stack'[i].aliases)
      <4>1. p[4] <= Done(stack[i])
        BY <1>4, <3>2, <3>4
      <4>2. i \in 1 .. Len(stack)
        BY <1>4
      <4>3. PICK d : d = Done(stack[i])
        OBVIOUS
      <4>4. PICK e : e = Len(world.aliases[stack'[i].file]) - Len(stack'[i].aliases)
        OBVIOUS
      <4>5. d \in Int /\ (e = d + 1 \/ e = d)
        BY <1>7, <4>2, <4>3, <4>4
      <4>6. p[4] <= d
        BY <4>1, <4>3
      <4>7. PICK q : q = p[4]
        OBVIOUS
      <4>8. q \in Nat /\ q <= d
        BY <3>3, <4>6, <4>7
      <4>9. q <= e
        BY <4>5, <4>8
      <4> QED BY <4>4, <4>7, <4>9
    <3>5. p \in Wanted'
      BY <1>2
    <3> QED BY <3>1, <3>2, <3>4, <3>5
  <2> QED BY <2>2, <2>3
<1> QED BY <1>1, <1>8 DEF AliasMade, Done

LEMMA NextMade ==
    IInv /\ TablesTyped /\ OrderInv /\ NamesInv /\ AliasMade /\ [Next]_vars => AliasMade'
<1> SUFFICES ASSUME IInv, TablesTyped, OrderInv, NamesInv, AliasMade, [Next]_vars
             PROVE  AliasMade'
  OBVIOUS
<1>0. Typed
  BY DEF IInv
<1>1. CASE UNCHANGED vars
  <2>1. UNCHANGED <<world, status, fileOf, stack, aliasedTo>>
    BY <1>1 DEF vars, tables, aliases
  <2>2. CASE status = "aborted"
    BY <2>1, <2>2 DEF AliasMade
  <2>3. CASE status = "start"
    <3>1. \A t \in Types : aliasedTo'[t] = Nil
      BY <2>1, <2>3 DEF AliasMade
    <3> QED BY <3>1 DEF AliasMade
  <2>4. CASE status \notin {"aborted", "start"}
    <3>1. (RootHides => RootHides') /\ Wanted \subseteq Wanted'
      BY <2>1, WantedGrows
    <3> QED BY <1>0, <2>1, <2>4, <3>1, KeepMade
  <2> QED BY <2>2, <2>3, <2>4
<1>2. CASE ParseRoot
  <2>1. \A t \in Types : aliasedTo[t] = Nil
    BY <1>2 DEF ParseRoot, AliasMade
  <2>2. aliasedTo' = aliasedTo
    BY <1>2 DEF ParseRoot, aliases
  <2>3. \A t \in Types : aliasedTo'[t] = Nil
    BY <2>1, <2>2
  <2> QED BY <2>3 DEF AliasMade
<1>3. CASE DeclareAlias
  BY <1>3, DeclareMade
<1>4. CASE ImportAgain \/ ImportBuiltin
  <2>1. /\ stack # <<>> /\ Top.left # <<>> /\ status = "running" /\ status' = "running"
        /\ stack' = Advanced /\ UNCHANGED <<world, fileOf, aliasedTo>>
    BY <1>4 DEF ImportAgain, ImportBuiltin, Importing, tables, aliases
  <2>2. (RootHides => RootHides') /\ Wanted \subseteq Wanted'
    BY <2>1, WantedGrows
  <2>3. Len(stack') = Len(stack)
    BY <1>0, <2>1, AdvancedStack
  <2>4. \A i \in 1 .. Len(stack) : /\ stack'[i].mod = stack[i].mod /\ stack'[i].file = stack[i].file
                                   /\ stack'[i].aliases = stack[i].aliases
    BY <1>0, <2>1, AdvancedFrames
  <2> QED BY <1>0, <2>1, <2>2, <2>3, <2>4, KeepMade
<1>5. CASE EnterModule
  <2> SUFFICES ASSUME status' # "aborted"
               PROVE  AliasMade'
    BY <1>5 DEF AliasMade, EnterModule
  <2>1. PICK file : /\ file = FindFile(Next1, Top.file)
                    /\ fileOf' = [fileOf EXCEPT ![Next1] = file]
                    /\ stack' = Append(Advanced, Frame(Next1, file))
    BY <1>5 DEF EnterModule
  <2>2. /\ stack # <<>> /\ Top.left # <<>> /\ status = "running" /\ status' = "running"
        /\ Fresh /\ UNCHANGED <<world, aliasedTo>>
    BY <1>5 DEF EnterModule, NeedsFile, Importing, aliases
  <2>3. Next1 \in Names /\ fileOf[Next1] = Nil /\ Next1 # Nil
    BY <1>0, <2>2, AdvancedStack, NamesAssumption DEF OrderInv, WhiteUnknown, Fresh
  <2>4. (RootHides => RootHides') /\ Wanted \subseteq Wanted'
    BY <2>1, <2>2, <2>3, WantedGrows
  <2>5. Advanced \in Seq(FrameType) /\ Len(Advanced) = Len(stack)
    BY <1>0, <2>2, AdvancedStack
  <2>6. PICK frame, low : frame = Frame(Next1, file) /\ low = Advanced
    OBVIOUS
  <2>7. frame.mod = Next1
    BY <2>6 DEF Frame
  <2>8. stack' = Append(low, frame)
    BY <2>1, <2>6
  <2>9. ASSUME NEW i \in 1 .. Len(stack')
        PROVE  \/ stack'[i].mod = Next1
               \/ \E j \in 1 .. Len(stack) : stack'[i] = low[j] /\ j = i
    BY <2>5, <2>6, <2>7, <2>8
  <2>10. \A i \in 1 .. Len(stack) : /\ low[i].mod = stack[i].mod /\ low[i].file = stack[i].file
                                    /\ low[i].aliases = stack[i].aliases
    BY <1>0, <2>2, <2>6, AdvancedFrames
  <2>11. \A i \in 1 .. Len(stack') :
               \/ stack'[i].mod # Nil /\ fileOf[stack'[i].mod] = Nil
               \/ \E j \in 1 .. Len(stack) : /\ stack'[i].mod = stack[j].mod
                                             /\ stack'[i].file = stack[j].file
                                             /\ stack'[i].aliases = stack[j].aliases
    BY <2>3, <2>9, <2>10
  <2> QED BY <1>0, <2>2, <2>4, <2>11, KeepMade
<1>6. CASE ConvertModule \/ ConvertRoot
  <2>1. /\ stack # <<>> /\ status = "running" /\ status' # "start"
        /\ stack' = Below /\ UNCHANGED <<world, fileOf, aliasedTo>>
    BY <1>6 DEF ConvertModule, ConvertRoot, Converting, aliases
  <2>2. (RootHides => RootHides') /\ Wanted \subseteq Wanted'
    BY <2>1, WantedGrows
  <2>3. /\ Len(stack') = Len(stack) - 1
        /\ \A i \in 1 .. Len(stack') : stack'[i] = stack[i]
    BY <1>0, <2>1, BelowStack
  <2>4. Len(stack) \in Nat
    BY <1>0 DEF Typed
  <2>5. \A i \in 1 .. Len(stack') : i \in 1 .. Len(stack)
    BY <2>3, <2>4
  <2> QED BY <1>0, <2>1, <2>2, <2>3, <2>5, KeepMade
<1>7. CASE RefuseAlias \/ FileNotFound \/ UnknownType
  BY <1>7 DEF RefuseAlias, FileNotFound, UnknownType, AliasMade
<1> QED BY <1>1, <1>2, <1>3, <1>4, <1>5, <1>6, <1>7 DEF Next, Compile, Stopped

\* What a module's file defines has its definer when the module is black.
LEMMA NextDefined ==
    IInv /\ TablesTyped /\ OrderInv /\ NamesInv /\ DefinedWhenBlack /\ [Next]_vars
       => DefinedWhenBlack'
<1> SUFFICES ASSUME IInv, TablesTyped, OrderInv, NamesInv, DefinedWhenBlack, [Next]_vars,
                    ~RootHides', NEW n \in Names \ Builtin, color'[n] = "black"
             PROVE  /\ fileOf'[n] # Nil
                    /\ \A t \in world'.types[fileOf'[n]] : definers'[<<n, t>>] # {}
  BY DEF DefinedWhenBlack
<1>0. Typed
  BY DEF IInv
<1>1. world' = world
  BY DEF Next, Compile, Stopped, ParseRoot, DeclareAlias, RefuseAlias, ImportAgain, ImportBuiltin,
        EnterModule, FileNotFound, ConvertModule, ConvertRoot, UnknownType, vars
<1>2. \/ fileOf' = fileOf
      \/ \E m \in Names : /\ fileOf[m] = Nil
                          /\ \E file : fileOf' = [fileOf EXCEPT ![m] = file]
  <2>1. CASE EnterModule
    <3>1. /\ stack # <<>> /\ Top.left # <<>> /\ Fresh
          /\ fileOf' = [fileOf EXCEPT ![Next1] = FindFile(Next1, Top.file)]
      BY <2>1 DEF EnterModule, NeedsFile, Importing
    <3>2. Next1 \in Names /\ fileOf[Next1] = Nil
      BY <1>0, <3>1, AdvancedStack DEF OrderInv, WhiteUnknown, Fresh
    <3> QED BY <3>1, <3>2
  <2>2. CASE ~EnterModule
    BY <2>2 DEF Next, Compile, Stopped, ParseRoot, DeclareAlias, RefuseAlias, ImportAgain,
          ImportBuiltin, FileNotFound, ConvertModule, ConvertRoot, UnknownType, vars
  <2> QED BY <2>1, <2>2
<1>3. ~RootHides
  BY <1>1, <1>2, WantedGrows
<1>4. \A t \in Types : definers[t] \subseteq definers'[t]
  <2>1. CASE ConvertModule \/ ConvertRoot \/ UnknownType
    <3>1. ConvertDefinitions /\ stack # <<>> /\ status = "running" /\ UNCHANGED <<world, fileOf>>
      BY <2>1 DEF ConvertModule, ConvertRoot, UnknownType, Converting
    <3> QED BY <3>1, ConvertOwner DEF NamesInv
  <2>2. CASE ~(ConvertModule \/ ConvertRoot \/ UnknownType)
    BY <2>2 DEF Next, Compile, Stopped, ParseRoot, DeclareAlias, RefuseAlias, ImportAgain,
          ImportBuiltin, EnterModule, FileNotFound, vars, tables
  <2> QED BY <2>1, <2>2
<1>5. CASE color[n] = "black"
  <2>1. fileOf[n] # Nil /\ \A t \in world.types[fileOf[n]] : definers[<<n, t>>] # {}
    BY <1>3, <1>5 DEF DefinedWhenBlack
  <2>2. fileOf'[n] = fileOf[n] /\ fileOf[n] \in Files
    BY <1>2, <2>1 DEF TablesTyped
  <2>3. ASSUME NEW t \in world.types[fileOf[n]]
        PROVE  definers'[<<n, t>>] # {}
    <3>1. t \in TypeNames
      BY <1>0, <2>2, WorldMentions DEF Typed
    <3>2. <<n, t>> \in Types
      BY <3>1, QualifiedName
    <3> QED BY <1>4, <2>1, <3>2
  <2> QED BY <1>1, <2>1, <2>2, <2>3
<1>6. CASE color[n] # "black"
  <2>1. ConvertModule /\ n = Top.mod
    <3>1. ASSUME NEW c \in {"grey", "black"}, color' = [color EXCEPT ![Next1] = c],
                 c = "black" => Next1 \in Builtin
          PROVE  FALSE
      BY <1>0, <1>6, <3>1 DEF Typed
    <3>2. CASE ConvertModule
      BY <1>0, <1>6, <3>2 DEF ConvertModule, Typed
    <3>3. CASE EnterModule \/ FileNotFound
      BY <3>1, <3>3 DEF EnterModule, FileNotFound
    <3>4. CASE ImportBuiltin
      BY <3>1, <3>4 DEF ImportBuiltin
    <3>5. CASE ~(ConvertModule \/ EnterModule \/ FileNotFound \/ ImportBuiltin)
      <4>1. color' = color
        BY <3>5 DEF Next, Compile, Stopped, ParseRoot, DeclareAlias, RefuseAlias, ImportAgain,
              ConvertRoot, UnknownType, vars
      <4> QED BY <1>6, <4>1
    <3> QED BY <3>2, <3>3, <3>4, <3>5
  <2>2. /\ stack # <<>> /\ status = "running" /\ fileOf' = fileOf /\ ConvertDefinitions
        /\ module = n
    BY <2>1 DEF ConvertModule, Converting, IInv, Running, OwnModule
  <2>3. fileOf[n] = Top.file /\ Top.file # Nil /\ n # Nil /\ Top.file \in Files
    BY <2>1, <2>2, RootFrame, NamesAssumption DEF TablesTyped
  <2>4. ASSUME NEW t \in world.types[Top.file]
        PROVE  definers'[<<n, t>>] # {}
    <3>1. t \in TypeNames
      BY <1>0, <2>3, WorldMentions DEF Typed
    <3>2. <<t>> \notin declared
      <4> SUFFICES ASSUME <<t>> \in declared PROVE FALSE
        OBVIOUS
      <4>1. t \in RootTypes
        BY <3>1 DEF NamesInv, BareIsRoots
      <4>2. t \in BareTypes(fileOf[n])
        BY <2>3, <2>4, <3>1 DEF BareTypes
      <4> QED BY <1>3, <2>3, <4>1, <4>2 DEF RootHides
    <3>3. Qualified(n, <<t>>) = <<n, t>> /\ <<n, t>> \in Types
      BY <3>1, BareName
    <3>4. GetOrDeclare(declared, module, <<t>>) = <<n, t>>
      <4>1. PICK g : g = GetOrDeclare(declared, module, <<t>>)
        OBVIOUS
      <4>2. g \in {<<t>>, Qualified(n, <<t>>)} /\ (g = <<t>> => <<t>> \in declared \/ <<t>> = Qualified(n, <<t>>))
        BY <2>2, <4>1, GetOrDeclareIs
      <4> QED BY <3>2, <3>3, <4>1, <4>2
    <3>5. <<n, t>> \in Defined
      BY <2>4, <3>4 DEF Defined
    <3>6. DOMAIN definers = Types
      BY DEF TablesTyped
    <3>7. Top.file \in definers'[<<n, t>>]
      BY <2>2, <3>3, <3>5, <3>6 DEF ConvertDefinitions
    <3> QED BY <3>7
  <2> QED BY <1>1, <2>2, <2>3, <2>4
<1> QED BY <1>5, <1>6

\* An alias is refused because the program's file hides a type, because the
\* name has an alias already, or because the aliases wanted go round.
LEMMA RefusedWhy ==
    ASSUME IInv, TablesTyped, OrderInv, NamesInv, AliasMade, NoMarksLeft, RefuseAlias
    PROVE  RootHides \/ AliasesClash
<1> SUFFICES ASSUME ~RootHides, \A p, q \in Wanted : p[1] = q[1] => p = q
             PROVE  AliasesClash
  BY DEF AliasesClash
<1>1. /\ Typed /\ Aliasing /\ stack # <<>> /\ Top.aliases # <<>> /\ status = "running"
      /\ aliasedTo[From] # Nil \/ Cyclic
  BY DEF IInv, RefuseAlias, Aliasing
<1>2. PICK from, target, mod, done :
          from = From /\ target = To /\ mod = Top.mod /\ done = Done(Top)
  OBVIOUS
<1>3. from \in Types /\ target \in Types /\ target # Nil
  BY <1>1, <1>2, AliasTyped, NamesAssumption
<1>4. PICK new : new = <<from, target, mod, done + 1>> /\ new \in Wanted
  BY <1>1, <1>2, AliasResolved
<1>5. Len(stack) \in 1 .. Len(stack) /\ Top = stack[Len(stack)] /\ done \in Int
  BY <1>1, <1>2, OneAliasOnFrames, DoneTyped DEF Top
<1>6. ASSUME NEW t \in Types, aliasedTo[t] # Nil
      PROVE  \E p \in Wanted : /\ p[1] = t /\ p[2] = aliasedTo[t]
                               /\ p[3] = mod => p[4] <= done
  <2>1. PICK p \in Wanted :
            /\ p[1] = t /\ p[2] = aliasedTo[t]
            /\ \A i \in 1 .. Len(stack) : stack[i].mod = p[3] => p[4] <= Done(stack[i])
    BY <1>1, <1>6 DEF AliasMade
  <2> QED BY <1>2, <1>5, <2>1
<1>7. aliasedTo[from] = Nil
  <2> SUFFICES ASSUME aliasedTo[from] # Nil PROVE FALSE
    OBVIOUS
  <2>1. PICK p \in Wanted : p[1] = from /\ (p[3] = mod => p[4] <= done)
    BY <1>3, <1>6
  <2>2. p = new
    BY <1>4, <2>1
  <2>3. p[3] = mod /\ p[4] = done + 1
    BY <1>4, <2>2
  <2> QED BY <1>5, <2>1, <2>3
<1>8. from \in Chain(aliasedTo, target)
  BY <1>1, <1>2, <1>7 DEF Cyclic, Walk, NoMarksLeft
<1>9. PICK wanted : wanted = WantedLinks
  OBVIOUS
<1>10. ASSUME NEW p \in Wanted
       PROVE  p[1] \in Types /\ wanted[p[1]] = p[2]
  <2>1. p[1] \in Types
    BY <1>1, WantedParts
  <2>2. wanted[p[1]] = (CHOOSE q \in Wanted : q[1] = p[1])[2]
    BY <1>9, <2>1 DEF WantedLinks
  <2>3. (CHOOSE q \in Wanted : q[1] = p[1]) = p
    OBVIOUS
  <2> QED BY <2>1, <2>2, <2>3
<1>11. wanted \in AliasTable
  <2>1. ASSUME NEW t \in Types, \E p \in Wanted : p[1] = t
        PROVE  wanted[t] \in Types
    <3>1. PICK p \in Wanted : p[1] = t
      BY <2>1
    <3> QED BY <1>1, <1>10, <3>1, WantedParts
  <2>2. ASSUME NEW t \in Types, ~\E p \in Wanted : p[1] = t
        PROVE  wanted[t] = Nil
    BY <1>9, <2>2 DEF WantedLinks
  <2>3. wanted = [t \in Types |-> wanted[t]]
    BY <1>9 DEF WantedLinks
  <2>4. \A t \in Types : wanted[t] \in Types \cup {Nil}
    BY <2>1, <2>2
  <2> QED BY <2>3, <2>4 DEF AliasTable
<1>12. wanted[from] = target
  BY <1>4, <1>10
<1>13. \A t \in Types : aliasedTo[t] # Nil => wanted[t] = aliasedTo[t]
  BY <1>6, <1>10
<1>14. PICK set : set = Chain(wanted, target)
  OBVIOUS
<1>15. target \in set /\ \A t \in set : wanted[t] # Nil => wanted[t] \in set
  BY <1>3, <1>11, <1>14, ChainClosed
<1>16. \A t \in set \cap Types : aliasedTo[t] # Nil => aliasedTo[t] \in set
  BY <1>13, <1>15
<1>17. aliasedTo \in AliasTable
  BY DEF TablesTyped, AliasTable
<1>18. Chain(aliasedTo, target) \subseteq set
  BY <1>3, <1>15, <1>16, <1>17, ChainLeast
<1>19. wanted[from] # Nil /\ from \in Chain(wanted, wanted[from])
  BY <1>3, <1>8, <1>12, <1>14, <1>18
<1> QED BY <1>3, <1>9, <1>19 DEF AliasesClash

\* A type is unknown only if its module was not imported, does not have it, or
\* is still being loaded further out.
LEMMA UnknownWhy ==
    ASSUME IInv, TablesTyped, OrderInv, NamesInv, DefinedWhenBlack, UnknownType
    PROVE  RootHides \/ TypeMissing \/ ImportCycle
<1> SUFFICES ASSUME ~RootHides, ~TypeMissing
             PROVE  ImportCycle
  OBVIOUS
<1>1. /\ Typed /\ Converting /\ stack # <<>> /\ Top.left = <<>> /\ status = "running"
      /\ GreyOnStack /\ module = Top.mod
  BY DEF IInv, UnknownType, Converting, Running, OwnModule
<1>2. PICK name \in Named : ~Known(name)
  BY DEF UnknownType
<1>3. Len(stack) \in 1 .. Len(stack) /\ Top = stack[Len(stack)]
  BY <1>1 DEF Typed, Top
<1>4. MentionedBy(Top) /\ Handled(Top) /\ Top.file \in Files
  BY <1>1, <1>3, FrameParts DEF NamesInv, Mentioned, OrderInv, ImportsHandled
<1>5. name \in Types /\ name # Nil
  BY <1>1, NamedTyped, NamesAssumption
<1>6. module \in Mods
  BY <1>1 DEF Typed
<1>7. PICK type : type = TypeFor(declared, module, name)
  OBVIOUS
<1>8. ASSUME NEW t \in world.types[Top.file], name = <<t>>
      PROVE  FALSE
  <2>1. t \in TypeNames /\ Len(<<t>>) = 1
    BY <1>1, <1>4, WorldMentions DEF Typed
  <2>2. name \in declared \/ Qualified(module, name) \in declared
    BY <1>1, <1>4, <1>8 DEF MentionedBy
  <2>3. Qualified(module, name) \in Types
    BY <1>5, <1>6, QualifiedTyped
  <2>4. type # Nil
    BY <1>5, <1>7, <2>2, <2>3, NamesAssumption DEF TypeFor
  <2>5. type = GetOrDeclare(declared, module, name)
    BY <1>7, <2>4 DEF GetOrDeclare
  <2>6. type \in Defined
    BY <1>8, <2>5 DEF Defined
  <2> QED BY <1>2, <1>7, <1>8, <2>1, <2>4, <2>6 DEF Known
<1>9. PICK x \in Names, t \in TypeNames : name = <<x, t>> /\ <<x, t>> \in world.uses[Top.file]
  <2>1. name \in world.uses[Top.file]
    BY <1>2, <1>8 DEF Named
  <2>2. world.uses[Top.file] \subseteq Names \X TypeNames
    BY <1>1, <1>4, WorldMentions DEF Typed
  <2> QED BY <2>1, <2>2
<1>10. x \in Imported(Top.file) \ Builtin /\ (fileOf[x] # Nil => t \in world.types[fileOf[x]])
  BY <1>1, <1>9 DEF TypeMissing
<1>11. color[x] # "white"
  <2>1. Len(Top.left) = 0
    BY <1>1
  <2> QED BY <1>4, <1>9, <1>10, <2>1 DEF Handled
<1>12. definers[name] = {}
  <2>1. name \in declared
    BY <1>4, <1>9 DEF MentionedBy
  <2>2. type = name
    BY <1>7, <2>1 DEF TypeFor
  <2>3. name[1] = x
    BY <1>9
  <2> QED BY <1>2, <1>5, <1>7, <1>11, <2>2, <2>3 DEF Known
<1>13. color[x] # "black"
  BY <1>9, <1>10, <1>12 DEF DefinedWhenBlack
<1>14. color[x] = "grey"
  BY <1>1, <1>9, <1>11, <1>13 DEF Typed, Colors
<1>15. PICK i \in 1 .. Len(stack) : stack[i].mod = x
  BY <1>1, <1>14 DEF GreyOnStack
<1>16. x # Nil
  BY NamesAssumption
<1>17. 1 < i /\ i <= Len(stack) /\ Len(stack) \in Nat
  BY <1>1, <1>15, <1>16 DEF IInv, Bottom, Typed
<1>18. Top.mod \in Names /\ fileOf[Top.mod] = Top.file /\ Top.file # Nil
  <2>1. Len(stack) # 1
    BY <1>17
  <2>2. Top.mod # Nil
    BY <1>3, <2>1 DEF IInv, Bottom
  <2> QED BY <1>1, <2>2, RootFrame
<1>19. x \in ImportsOf(Top.mod)
  BY <1>10, <1>18 DEF ImportsOf
<1>20. CASE i = Len(stack)
  <2>1. Top.mod = x
    BY <1>3, <1>15, <1>20
  <2>2. x \in Brings(x)
    BY <1>1, <1>19, <2>1, BringsClosed
  <2> QED BY <2>2 DEF ImportCycle
<1>21. CASE i # Len(stack)
  <2>1. Top.mod \in Brings(x)
    BY <1>3, <1>15, <1>17, <1>21 DEF OrderInv, BringsAbove
  <2>2. x \in Brings(x)
    BY <1>1, <1>19, <2>1, BringsClosed
  <2> QED BY <2>2 DEF ImportCycle
<1> QED BY <1>20, <1>21

\* The file of an import is looked for beside the importer and in the search
\* directories, and it has to parse.
LEMMA FileWhy ==
    ASSUME IInv, TablesTyped, OrderInv, EnterModule \/ FileNotFound, status' = "aborted"
    PROVE  FileFails'
<1>1. /\ Typed /\ stack # <<>> /\ Top.left # <<>> /\ Fresh /\ world' = world
      /\ status = "running" /\ color' = [color EXCEPT ![Next1] = "grey"]
  BY DEF IInv, EnterModule, FileNotFound, NeedsFile, Importing
<1>2. Next1 \in Names /\ fileOf[Next1] = Nil /\ Top.file \in Files
  BY <1>1, AdvancedStack DEF OrderInv, WhiteUnknown, Fresh, FrameType
<1>3. PICK n : n = Next1
  OBVIOUS
<1>4. color'[n] = "grey"
  BY <1>1, <1>2, <1>3 DEF Typed
<1>5. CASE EnterModule
  <2>1. PICK file : file = FindFile(Next1, Top.file)
    OBVIOUS
  <2>2. file \in Files /\ file # Nil
    BY <1>2, <1>5, <2>1, FoundFile, NamesAssumption DEF EnterModule
  <2>3. file \in world.broken /\ fileOf'[n] = file
    BY <1>1, <1>2, <1>3, <1>5, <2>1 DEF EnterModule, TablesTyped
  <2> QED BY <1>1, <1>2, <1>3, <1>4, <2>2, <2>3 DEF FileFails
<1>6. CASE FileNotFound
  <2>1. Hits(n, Top.file) = {} /\ fileOf'[n] = Nil
    BY <1>2, <1>3, <1>6 DEF FileNotFound
  <2>2. ASSUME NEW i \in DOMAIN SearchDirs
        PROVE  <<SearchDirs[i], n>> \notin world.files
    <3>1. Top.file[1] \in Dirs /\ SearchDirs \in Seq(Dirs)
      BY <1>2, NamesAssumption DEF Files
    <3>2. PICK d : d = <<Top.file[1]>>
      OBVIOUS
    <3>3. d \in Seq(Dirs) /\ Len(d) = 1
      BY <3>1, <3>2
    <3>4. Places(Top.file) = d \o SearchDirs
      BY <3>2 DEF Places
    <3>5. /\ Places(Top.file) \in Seq(Dirs)
          /\ Len(Places(Top.file)) = 1 + Len(SearchDirs)
          /\ \A k \in 1 .. Len(Places(Top.file)) :
                Places(Top.file)[k] = IF k <= 1 THEN d[k] ELSE SearchDirs[k - 1]
      <4>1. /\ d \o SearchDirs \in Seq(Dirs)
            /\ Len(d \o SearchDirs) = Len(d) + Len(SearchDirs)
            /\ \A k \in 1 .. Len(d) + Len(SearchDirs) :
                  (d \o SearchDirs)[k] = IF k <= Len(d) THEN d[k] ELSE SearchDirs[k - Len(d)]
        BY <3>1, <3>3, ConcatProperties
      <4> QED BY <3>3, <3>4, <4>1
    <3>6. i \in 1 .. Len(SearchDirs) /\ Len(SearchDirs) \in Nat
      BY <3>1
    <3>7. PICK k : k = i + 1
      OBVIOUS
    <3>8. k \in 1 .. Len(Places(Top.file)) /\ ~(k <= 1) /\ k - 1 = i
      BY <3>5, <3>6, <3>7
    <3>9. Places(Top.file)[k] = SearchDirs[i]
      BY <3>5, <3>8
    <3>10. k \in DOMAIN Places(Top.file)
      BY <3>5, <3>8
    <3> QED BY <2>1, <3>9, <3>10 DEF Hits
  <2> QED BY <1>1, <1>2, <1>3, <1>4, <2>1, <2>2 DEF FileFails
<1> QED BY <1>5, <1>6

\* Looking for a cycle leaves no mark, unless one is found.
LEMMA NextMarks == NoMarksLeft /\ [Next]_vars => NoMarksLeft'
<1> SUFFICES ASSUME NoMarksLeft, [Next]_vars, status' # "aborted" PROVE marked' = {}
  BY DEF NoMarksLeft
<1>1. CASE DeclareAlias
  BY <1>1 DEF DeclareAlias, Aliasing, Unmarked, NoMarksLeft
<1>2. CASE ~DeclareAlias
  <2>1. UNCHANGED marked /\ status # "aborted"
    BY <1>2 DEF Next, Compile, Stopped, ParseRoot, ImportAgain, ImportBuiltin, EnterModule,
          FileNotFound, ConvertModule, ConvertRoot, UnknownType, RefuseAlias, Importing, NeedsFile,
          Converting, vars, tables, aliases
  <2> QED BY <2>1 DEF NoMarksLeft
<1> QED BY <1>1, <1>2

LEMMA InitAbort == Init => AbortInv
<1> SUFFICES ASSUME Init PROVE AbortInv
  OBVIOUS
<1>1. /\ status = "start" /\ \A t \in Types : aliasedTo[t] = Nil
      /\ \A n \in Names : color[n] = "white"
  BY DEF Init
<1>2. marked = {}
  BY DEF Init
<1> QED BY <1>1, <1>2 DEF AbortInv, AliasMade, NoMarksLeft, DefinedWhenBlack, OnlyBrokenWorldsAbort

LEMMA NextAbort ==
    IInv /\ TablesTyped /\ OrderInv /\ NamesInv /\ AbortInv /\ [Next]_vars => AbortInv'
<1> SUFFICES ASSUME IInv, TablesTyped, OrderInv, NamesInv, AbortInv, [Next]_vars
             PROVE  OnlyBrokenWorldsAbort'
  BY NextMade, NextMarks, NextDefined DEF AbortInv
<1> SUFFICES ASSUME status' = "aborted"
             PROVE  (FileFails \/ ImportCycle \/ AliasesClash \/ RootHides \/ TypeMissing)'
  BY DEF OnlyBrokenWorldsAbort
<1>1. ASSUME UNCHANGED <<world, color, fileOf, stack>>
      PROVE  /\ FileFails' = FileFails /\ ImportCycle' = ImportCycle
             /\ AliasesClash' = AliasesClash /\ RootHides' = RootHides
             /\ TypeMissing' = TypeMissing
  <2>1. FileFails' = FileFails
    BY <1>1 DEF FileFails
  <2>2. ImportCycle' = ImportCycle
    BY <1>1, BringsSame DEF ImportCycle
  <2>3. AliasesClash' = AliasesClash
    <3>1. Wanted' = Wanted
      BY <1>1 DEF Wanted, AliasesOf
    <3>2. WantedLinks' = WantedLinks
      BY <3>1 DEF WantedLinks
    <3> QED BY <3>1, <3>2 DEF AliasesClash
  <2>4. RootHides' = RootHides
    BY <1>1 DEF RootHides, RootTypes, BareTypes
  <2>5. TypeMissing' = TypeMissing
    BY <1>1 DEF TypeMissing, Top, Imported
  <2> QED BY <2>1, <2>2, <2>3, <2>4, <2>5
<1>2. CASE RefuseAlias
  <2>1. UNCHANGED <<world, color, fileOf, stack>>
    BY <1>2 DEF RefuseAlias
  <2> QED BY <1>1, <1>2, <2>1, RefusedWhy DEF AbortInv
<1>3. CASE UnknownType
  <2>1. UNCHANGED <<world, color, fileOf, stack>>
    BY <1>3 DEF UnknownType
  <2> QED BY <1>1, <1>3, <2>1, UnknownWhy DEF AbortInv
<1>4. CASE EnterModule \/ FileNotFound
  BY <1>4, FileWhy
<1>5. CASE UNCHANGED vars \/ Stopped
  <2>1. UNCHANGED <<world, status, color, fileOf, stack>>
    BY <1>5 DEF Stopped, vars
  <2> QED BY <1>1, <2>1 DEF AbortInv, OnlyBrokenWorldsAbort
<1>6. CASE ParseRoot \/ DeclareAlias \/ ImportAgain \/ ImportBuiltin \/ ConvertModule \/ ConvertRoot
  BY <1>6 DEF ParseRoot, DeclareAlias, Aliasing, ImportAgain, ImportBuiltin, Importing,
        ConvertModule, ConvertRoot, Converting
<1> QED BY <1>2, <1>3, <1>4, <1>5, <1>6 DEF Next, Compile

\* A program is given up for one of the reasons listed and for no other: a use
\* of a type that its imported module defines is never too early, and an alias
\* is never refused because of the order in which the files were parsed
\* (convert_intern converts the imports first, and a file's definitions before
\* its statements).
THEOREM OnlyBrokenProgramsAbort == Spec => []OnlyBrokenWorldsAbort
<1>1. AbortInv => OnlyBrokenWorldsAbort
  BY DEF AbortInv
<1>2. Init => AbortInv
  BY InitAbort
<1> QED
  BY <1>1, <1>2, InitIInv, NextIInv, TablesTypedInit, TablesTypedNext, InitOrder, NextOrder,
     InitNames, NextNames, NextAbort, PTL DEF Spec
=============================================================================
