-------------------------- MODULE MalangVM_proofs --------------------------
(***************************************************************************)
(* The interpreter, for every program, call depth and stack size: its      *)
(* frames tile the locals array; and, for programs that satisfy the two    *)
(* conditions of MalangVMInv, everything the program holds is alive and    *)
(* the machine implements CallStack.                                       *)
(***************************************************************************)
EXTENDS MalangVMInv, TLAPS, FiniteSetTheorems, SequenceTheorems

-----------------------------------------------------------------------------
(***************************************************************************)
(* Sequences.                                                              *)
(***************************************************************************)
LEMMA PrefixSeq ==
  ASSUME NEW S, NEW s \in Seq(S), NEW n \in Nat, n <= Len(s)
  PROVE  /\ SubSeq(s, 1, n) \in Seq(S) /\ Len(SubSeq(s, 1, n)) = n
         /\ \A i \in 1 .. n : SubSeq(s, 1, n)[i] = s[i]
<1>1. \A i \in 1 .. n : s[i] \in S
  OBVIOUS
<1> QED BY <1>1

LEMMA FrontSeq ==
  ASSUME NEW S, NEW s \in Seq(S), s # <<>>
  PROVE  /\ Front(s) \in Seq(S) /\ Len(Front(s)) = Len(s) - 1
         /\ Len(s) \in Nat \ {0}
         /\ \A i \in 1 .. Len(s) - 1 : Front(s)[i] = s[i]
         /\ Last(s) \in S /\ Last(s) = s[Len(s)]
<1>1. Len(s) \in Nat \ {0}
  BY EmptySeq
<1> DEFINE n == Len(s) - 1
<1>2. n \in Nat /\ n <= Len(s)
  BY <1>1
<1>3. Front(s) = SubSeq(s, 1, n)
  BY DEF Front
<1>4. /\ Front(s) \in Seq(S) /\ Len(Front(s)) = n
      /\ \A i \in 1 .. n : Front(s)[i] = s[i]
  <2> HIDE DEF n
  <2> QED BY <1>2, <1>3, PrefixSeq
<1> QED BY <1>1, <1>4, ElementOfSeq DEF Last

LEMMA ReplaceOne ==
  ASSUME NEW S, NEW q \in Seq(S), NEW e \in S, NEW n \in 1 .. Len(q)
  PROVE  /\ [q EXCEPT ![n] = e] \in Seq(S)
         /\ Len([q EXCEPT ![n] = e]) = Len(q)
         /\ \A i \in 1 .. Len(q) : [q EXCEPT ![n] = e][i] = IF i = n THEN e ELSE q[i]
BY ExceptSeq

\* Two sequences with the same elements between two places.
LEMMA SameCut ==
  ASSUME NEW S, NEW s \in Seq(S), NEW t \in Seq(S), NEW a \in Nat, NEW b \in Nat,
         b <= Len(s), b <= Len(t),
         \A k \in 1 .. b : s[k] = t[k]
  PROVE  SubSeq(s, a + 1, b) = SubSeq(t, a + 1, b)
<1>1. \A k \in a + 1 .. b : s[k] \in S /\ t[k] \in S /\ s[k] = t[k]
  BY ElementOfSeq
<1>2. /\ SubSeq(s, a + 1, b) \in Seq(S) /\ SubSeq(t, a + 1, b) \in Seq(S)
      /\ Len(SubSeq(s, a + 1, b)) = Len(SubSeq(t, a + 1, b))
      /\ \A i \in 1 .. Len(SubSeq(s, a + 1, b)) :
            SubSeq(s, a + 1, b)[i] = SubSeq(t, a + 1, b)[i]
  BY <1>1, SubSeqProperties
<1> QED BY <1>2, SeqEqual

-----------------------------------------------------------------------------
(***************************************************************************)
(* How many of the activations have a frame.                               *)
(***************************************************************************)
Rank(F, i) == Cardinality({j \in F : j <= i})

LEMMA Ranks ==
  ASSUME NEW n \in Nat, NEW F, F \subseteq 1 .. n
  PROVE  /\ IsFiniteSet(F) /\ Cardinality(F) \in Nat
         /\ \A i \in 1 .. n : Rank(F, i) \in 0 .. Cardinality(F)
         /\ \A i \in F : Rank(F, i) >= 1
         /\ \A i \in 1 .. n, j \in F : i < j => Rank(F, i) < Rank(F, j)
         /\ Rank(F, n) = Cardinality(F)
<1>0. \A i \in F : i \in Nat /\ i >= 1 /\ i <= n
  OBVIOUS
<1>1. IsFiniteSet(F) /\ Cardinality(F) \in Nat
  <2>1. IsFiniteSet(1 .. n)
    BY FS_Interval
  <2> QED BY <2>1, FS_Subset, FS_CardinalityType
<1>2. \A i \in 1 .. n : /\ IsFiniteSet({j \in F : j <= i})
                        /\ Cardinality({j \in F : j <= i}) \in Nat
                        /\ Rank(F, i) <= Cardinality(F)
  BY <1>1, FS_Subset, FS_CardinalityType DEF Rank
<1>3. \A i \in F : Rank(F, i) >= 1
  <2> SUFFICES ASSUME NEW i \in F PROVE Rank(F, i) >= 1
    OBVIOUS
  <2>1. i \in {j \in F : j <= i}
    BY <1>0
  <2> QED BY <1>2, <2>1, FS_EmptySet DEF Rank
<1>4. \A i \in 1 .. n, j \in F : i < j => Rank(F, i) < Rank(F, j)
  <2> SUFFICES ASSUME NEW i \in 1 .. n, NEW j \in F, i < j PROVE Rank(F, i) < Rank(F, j)
    OBVIOUS
  <2> DEFINE A == {k \in F : k <= i}
             B == {k \in F : k <= j}
  <2>0. i \in Nat /\ j \in Nat /\ \A k \in F : k \in Nat
    BY <1>0
  <2>1. j \in B /\ j \notin A /\ \A k \in A : k \in B
    BY <2>0
  <2>3. A \in SUBSET B
    BY <2>1
  <2>2. IsFiniteSet(B) /\ Cardinality(A) <= Cardinality(B) /\ Cardinality(A) # Cardinality(B)
    BY <1>2, <2>1, <2>3, FS_Subset
  <2> QED BY <1>2, <2>2 DEF Rank
<1>5. {j \in F : j <= n} = F
  BY <1>0
<1>6. Rank(F, n) = Cardinality(F)
  BY <1>5 DEF Rank
<1>7. \A i \in 1 .. n : Rank(F, i) \in 0 .. Cardinality(F)
  BY <1>1, <1>2 DEF Rank
<1> QED BY <1>1, <1>3, <1>4, <1>6, <1>7

LEMMA Times ==
  ASSUME NEW a \in Nat, NEW b \in Nat, NEW c \in Nat
  PROVE  /\ a * c \in Nat
         /\ (a + 1) * c = a * c + c
         /\ a <= b => a * c <= b * c
<1>1. a * c \in Nat /\ (a + 1) * c = a * c + c
  OBVIOUS
<1>2. ASSUME a <= b PROVE a * c <= b * c
  <2>1. PICK d \in Nat : b = a + d
    <3>1. b - a \in Nat /\ b = a + (b - a)
      BY <1>2
    <3> QED BY <3>1
  <2>2. d * c \in Nat /\ a * c \in Nat /\ b * c = a * c + d * c
    BY <2>1
  <2> QED BY <2>2
<1> QED BY <1>1, <1>2

-----------------------------------------------------------------------------
(***************************************************************************)
(* Functions, activations and their frames.                                *)
(***************************************************************************)
LEMMA FunctionFacts ==
  ASSUME NEW f \in Fn
  PROVE  /\ f # "script"
         /\ source[f].params \in Nat /\ source[f].decls \in Nat
         /\ source[f].literals \in Nat /\ source[f].results \in {0, 1}
         /\ source[f].params <= source[f].decls
         /\ LocalsToAllocate(f) \in Nat /\ source[f].decls <= LocalsToAllocate(f)
         /\ LocalsToAllocate(f) + source[f].literals <= MaxFrame
         /\ SlotsOf(f) \subseteq VarSlot
         /\ Prologue(f) \in Nat
         /\ Leaves(f) => Prologue(f) = source[f].params + 1
         /\ ~Leaves(f) => Prologue(f) = source[f].params /\ source[f].decls = 0
<1>1. /\ f # "script"
      /\ source[f].params \in Nat /\ source[f].decls \in Nat /\ source[f].outer \in Nat
      /\ source[f].literals \in Nat /\ source[f].results \in {0, 1}
      /\ source[f].params <= source[f].decls
      /\ source[f].outer + source[f].decls + source[f].literals <= MaxFrame
  BY VMAssumption DEF Source
<1>2. MaxFrame \in Nat
  BY VMAssumption
<1>3. /\ LocalsToAllocate(f) \in Nat /\ source[f].decls <= LocalsToAllocate(f)
      /\ LocalsToAllocate(f) + source[f].literals <= MaxFrame
  BY <1>1 DEF LocalsToAllocate
<1>4. SlotsOf(f) \subseteq VarSlot
  BY <1>1, <1>2 DEF SlotsOf, VarSlot
<1>5. /\ Prologue(f) \in Nat
      /\ Leaves(f) => Prologue(f) = source[f].params + 1
      /\ ~Leaves(f) => Prologue(f) = source[f].params /\ source[f].decls = 0
  BY <1>1, <1>3 DEF Prologue, Leaves
<1> QED BY <1>1, <1>3, <1>4, <1>5

LEMMA ActFacts ==
  ASSUME TypeOK, CallsAgree
  PROVE  /\ Len(acts) \in Nat /\ Len(acts) >= 1 /\ Len(acts) \in 1 .. Len(acts)
         /\ Len(acts) <= MaxCalls + 1
         /\ \A i \in 1 .. Len(acts) : acts[i] \in Activation
         /\ \A i \in 1 .. Len(acts) : acts[i].fn \in Code /\ acts[i].base \in Nat
         /\ \A i \in 1 .. Len(acts) : i > 1 => acts[i].fn \in Fn /\ acts[i].fn # "script"
         /\ Act \in Activation /\ Act = acts[Len(acts)]
         /\ ip.fn = "script" <=> Len(acts) = 1
         /\ ip.fn # "script" => ip.fn \in Fn /\ Len(acts) >= 2
         /\ Len(data) \in Nat /\ ip.left \in Nat
<1>1. /\ Len(acts) \in Nat /\ Len(acts) >= 1 /\ Len(acts) \in 1 .. Len(acts)
      /\ Len(acts) <= MaxCalls + 1
  BY VMAssumption DEF CallsAgree, TypeOK
<1>2. \A i \in 1 .. Len(acts) : acts[i] \in Activation
  BY ElementOfSeq DEF TypeOK
<1>3. \A i \in 1 .. Len(acts) : acts[i].fn \in Code /\ acts[i].base \in Nat
  BY <1>2 DEF Activation
<1>4. \A i \in 1 .. Len(acts) : i > 1 => acts[i].fn \in Fn /\ acts[i].fn # "script"
  BY <1>3 DEF CallsAgree, Code
<1>5. Act \in Activation /\ Act = acts[Len(acts)]
  BY <1>1, <1>2 DEF Act
<1>6. ip.fn = "script" <=> Len(acts) = 1
  BY <1>1, <1>5 DEF CallsAgree
<1>7. ip.fn # "script" => ip.fn \in Fn /\ Len(acts) >= 2
  <2>1. ip.fn # "script" => ip.fn \in Fn
    BY DEF TypeOK, Code
  <2>2. \A n \in Nat : n >= 1 /\ n # 1 => n >= 2
    OBVIOUS
  <2> QED BY <1>1, <1>6, <2>1, <2>2
<1> QED BY <1>1, <1>2, <1>3, <1>4, <1>5, <1>6, <1>7 DEF TypeOK

LEMMA FramedFacts ==
  ASSUME TypeOK, CallsAgree
  PROVE  /\ Framed \subseteq 1 .. Len(acts) /\ \A i \in Framed : i > 1 /\ acts[i].fn \in Fn
         /\ IsFiniteSet(Framed) /\ Cardinality(Framed) \in 0 .. Len(acts) - 1
         /\ \A i \in 1 .. Len(acts) : FrameNo(i) \in 0 .. Cardinality(Framed)
         /\ \A i \in Framed : FrameNo(i) >= 1
         /\ \A i \in 1 .. Len(acts), j \in Framed : i < j => FrameNo(i) < FrameNo(j)
         /\ FrameNo(Len(acts)) = Cardinality(Framed)
<1>1. Framed \subseteq 1 .. Len(acts)
  BY DEF Framed
<1>2. \A i \in Framed : i > 1 /\ acts[i].fn \in Fn
  <2> SUFFICES ASSUME NEW i \in Framed PROVE i > 1 /\ acts[i].fn \in Fn
    OBVIOUS
  <2>1. i \in 1 .. Len(acts) /\ acts[i].fn # "script"
    BY DEF Framed, Leaves
  <2> QED BY <2>1, ActFacts DEF CallsAgree
<1>3. Len(acts) \in Nat /\ Len(acts) >= 1
  BY ActFacts
<1>4. /\ IsFiniteSet(Framed) /\ Cardinality(Framed) \in Nat
      /\ \A i \in 1 .. Len(acts) : FrameNo(i) \in 0 .. Cardinality(Framed)
      /\ \A i \in Framed : FrameNo(i) >= 1
      /\ \A i \in 1 .. Len(acts), j \in Framed : i < j => FrameNo(i) < FrameNo(j)
      /\ FrameNo(Len(acts)) = Cardinality(Framed)
  <2>1. \A i : FrameNo(i) = Rank(Framed, i)
    BY DEF FrameNo, Rank
  <2> QED BY <1>1, <1>3, <2>1, Ranks
<1>5. Cardinality(Framed) <= Len(acts) - 1
  <2>1. IsFiniteSet(2 .. Len(acts)) /\ Cardinality(2 .. Len(acts)) = Len(acts) - 1
    BY <1>3, FS_Interval
  <2>2. Framed \in SUBSET (2 .. Len(acts))
    BY <1>1, <1>2
  <2> QED BY <2>1, <2>2, FS_Subset
<1> QED BY <1>1, <1>2, <1>3, <1>4, <1>5

-----------------------------------------------------------------------------
(***************************************************************************)
(* One lemma per action: the inductive invariant.                          *)
(***************************************************************************)
LEMMA InitIInv == Init => IInv
<1> SUFFICES ASSUME Init PROVE IInv
  OBVIOUS
<1>1. Len(acts) = 1 /\ acts[1] = [fn |-> "script", base |-> 0, assigned |-> {}] /\ Act = acts[1]
  BY DEF Init, Act
<1>2. NLocals \in Nat
  BY VMAssumption, Times DEF NLocals
<1>3. TypeOK
  <2>1. acts[1] \in Activation
    BY <1>1 DEF Activation, Code
  <2> QED
    BY <1>1, <1>2, <2>1 DEF Init, TypeOK, Slot, Value, Code
<1>4. CallsAgree
  BY <1>1, VMAssumption DEF Init, CallsAgree
<1>5. OperandsNest
  BY <1>1, VMAssumption DEF Init, OperandsNest
<1>6. Framed = {}
  BY <1>1 DEF Framed, Leaves
<1>7. FramesTile /\ FramesApart
  BY <1>1, <1>6, FS_EmptySet DEF Init, FramesTile, FramesApart
<1>8. AssignedOwn
  BY <1>1 DEF AssignedOwn
<1>9. FramesFit
  BY VMAssumption, Times DEF Init, FramesFit
<1> QED BY <1>3, <1>4, <1>5, <1>7, <1>8, <1>9 DEF IInv

\* FramesTile without the return addresses, which CallsAgree repeats.
Tiled ==
  /\ Len(locals_frames) = Cardinality(Framed)
  /\ \A i \in Framed : FrameEnd(i) = NextFrame(i)
  /\ locals_frames # <<>> => locals_frames[1] = 0 /\ fast_locals = Last(locals_frames)

\* A step that leaves the frames to the activations that have them.
LEMMA SameFrames ==
  ASSUME IInv, UNCHANGED frameVars, Framed' = Framed,
         \A i \in Framed : acts'[i].fn = acts[i].fn
  PROVE  Tiled' /\ FramesApart' /\ FramesFit'
<1>1. \A i : FrameNo(i)' = FrameNo(i)
  BY DEF FrameNo
<1>2. \A i \in Framed : FrameEnd(i)' = FrameEnd(i) /\ NextFrame(i)' = NextFrame(i)
  BY <1>1 DEF FrameEnd, NextFrame, frameVars
<1>3. Tiled'
  <2>1. Tiled
    BY DEF IInv, FramesTile, Tiled
  <2>2. \A i \in Framed' : FrameEnd(i)' = NextFrame(i)'
    BY <1>2, <2>1 DEF Tiled
  <2> QED BY <2>1, <2>2 DEF Tiled, frameVars
<1>4. FramesApart'
  <2>1. /\ \A i, j \in Framed : i < j => FrameEnd(i) <= locals_frames[FrameNo(j)]
        /\ \A i \in Framed : FrameEnd(i) <= locals_top
    BY DEF IInv, FramesApart
  <2> QED BY <1>1, <1>2, <2>1 DEF FramesApart, frameVars
<1>5. FramesFit'
  BY DEF IInv, FramesFit, frameVars
<1> QED BY <1>3, <1>4, <1>5

\* A step that neither calls nor returns, and touches no frame.
LEMMA QuietStep ==
  ASSUME IInv, UNCHANGED <<frameVars, call_frames>>,
         Len(acts') = Len(acts),
         \A i \in 1 .. Len(acts) : acts'[i].fn = acts[i].fn,
         ip'.fn = ip.fn,
         ip.fn # "script" =>
            (ip'.left < Prologue(ip.fn) <=> ip.left < Prologue(ip.fn))
  PROVE  /\ Framed' = Framed
         /\ CallsAgree' /\ FramesTile' /\ FramesApart' /\ FramesFit'
<1>1. TypeOK /\ CallsAgree
  BY DEF IInv
<1>2. /\ Len(acts) \in 1 .. Len(acts) /\ Len(acts) \in Nat
      /\ ip.fn = acts[Len(acts)].fn
  BY <1>1, ActFacts DEF CallsAgree
<1>3. Framed' = Framed
  <2>1. \A i \in 1 .. Len(acts) :
           Leaves(acts[i].fn) => (i = Len(acts) => ip.fn # "script")
    BY <1>2 DEF Leaves
  <2> QED BY <1>2, <2>1 DEF Framed
<1>4. CallsAgree'
  BY <1>1, <1>2 DEF CallsAgree, Act
<1>5. \A i \in Framed : acts'[i].fn = acts[i].fn
  BY <1>1, FramedFacts
<1>6. Tiled' /\ FramesApart' /\ FramesFit'
  BY <1>3, <1>5, SameFrames
<1>7. FramesTile'
  BY <1>4, <1>6 DEF Tiled, CallsAgree, FramesTile
<1> QED BY <1>3, <1>4, <1>6, <1>7

\* An instruction that works on the operands of the running activation.
LEMMA OperateIInv ==
  ASSUME IInv, NEW ops \in Seq(Value), Len(ops) <= MaxData, Act.base <= Len(ops), InBody,
         data' = ops,
         UNCHANGED <<ip, frameVars, call_frames, acts>>,
         locals' \in [Slot -> Value], globals' \in [Global -> Value], globals_top' \in Nat,
         alive' \subseteq Obj
  PROVE  IInv' /\ Framed' = Framed
<1>1. TypeOK /\ CallsAgree /\ OperandsNest
  BY DEF IInv
<1>2. Framed' = Framed /\ CallsAgree' /\ FramesTile' /\ FramesApart' /\ FramesFit'
  BY QuietStep
<1>3. TypeOK'
  BY <1>1 DEF TypeOK, frameVars
<1>4. AssignedOwn'
  BY <1>2 DEF IInv, AssignedOwn
<1>5. OperandsNest'
  <2>1. /\ Len(acts) \in 1 .. Len(acts) /\ Act.base = acts[Len(acts)].base /\ Len(acts) \in Nat
        /\ \A i \in 1 .. Len(acts) : acts[i].base \in Nat
    BY <1>1, ActFacts
  <2>2. \A i \in 1 .. Len(acts) : acts[i].base <= Act.base
    BY <1>1, <2>1 DEF OperandsNest
  <2>3. \A i \in 1 .. Len(acts) : acts[i].base <= Len(ops)
    BY <2>1, <2>2
  <2> QED BY <1>1, <2>3 DEF OperandsNest, InBody
<1> QED BY <1>2, <1>3, <1>4, <1>5 DEF IInv

LEMMA SlotBound ==
         /\ MaxCalls \in Nat /\ MaxFrame \in Nat /\ MaxData \in Nat
         /\ MaxCalls * MaxFrame \in Nat
         /\ NLocals = MaxCalls * MaxFrame + MaxData
         /\ \A n \in Nat : n \in Slot <=> n <= NLocals
         /\ Slot \subseteq Nat
<1>1. MaxCalls \in Nat /\ MaxFrame \in Nat /\ MaxData \in Nat
  BY VMAssumption
<1>2. MaxCalls * MaxFrame \in Nat
  BY <1>1, Times
<1>3. NLocals \in Nat
  BY <1>1, <1>2 DEF NLocals
<1> QED BY <1>1, <1>2, <1>3 DEF NLocals, Slot

\* A variable of the running function is in the part of the array the model has.
LEMMA VariableInArray ==
  ASSUME IInv, ip.fn # "script", NEW s \in SlotsOf(ip.fn)
  PROVE  fast_locals + s \in Slot /\ s \in VarSlot /\ s \in Nat /\ fast_locals \in Nat
<1>1. TypeOK /\ CallsAgree /\ FramesTile /\ FramesFit
  BY DEF IInv
<1>2. /\ ip.fn \in Fn /\ Len(acts) >= 2 /\ Len(acts) <= MaxCalls + 1 /\ Len(acts) \in Nat
  BY <1>1, ActFacts
<1>3. s \in Nat /\ s < MaxFrame /\ s \in VarSlot
  <2>1. s \in VarSlot
    BY <1>2, FunctionFacts
  <2> QED BY <2>1, SlotBound DEF VarSlot
<1>4. fast_locals \in Nat
  BY <1>1, SlotBound DEF TypeOK
<1>5. Len(locals_frames) \in Nat /\ Len(locals_frames) <= MaxCalls
  BY <1>1, <1>2, FramedFacts, SlotBound DEF FramesTile
<1>6. CASE locals_frames # <<>>
  <2> DEFINE n == Len(locals_frames) - 1
  <2>1. n \in Nat /\ n + 1 <= MaxCalls /\ n + 1 \in 1 .. Len(locals_frames)
    <3>1. locals_frames \in Seq(Slot)
      BY <1>1 DEF TypeOK
    <3> QED BY <1>5, <1>6, <3>1, SlotBound, EmptySeq
  <2>2. fast_locals <= n * MaxFrame
    BY <1>1, <1>6, <2>1 DEF FramesTile, FramesFit, Last
  <2> HIDE DEF n
  <2>3. n * MaxFrame \in Nat /\ n * MaxFrame + MaxFrame <= MaxCalls * MaxFrame
    BY <2>1, SlotBound, Times
  <2> QED BY <1>3, <1>4, <2>2, <2>3, SlotBound
<1>7. CASE locals_frames = <<>>
  <2>1. fast_locals <= MaxData
    BY <1>1, <1>7 DEF FramesFit
  <2>2. MaxFrame <= MaxCalls * MaxFrame
    <3>1. 1 * MaxFrame <= MaxCalls * MaxFrame
      BY <1>2, SlotBound, Times
    <3> QED BY <3>1, SlotBound
  <2> QED BY <1>3, <1>4, <2>1, <2>2, SlotBound
<1> QED BY <1>3, <1>4, <1>6, <1>7

LEMMA OwnOperands ==
  ASSUME IInv
  PROVE  /\ data \in Seq(Value) /\ Len(data) \in Nat /\ Len(data) <= MaxData
         /\ Act.base \in Nat /\ Own \in Nat /\ Len(data) = Act.base + Own
         /\ Own >= 1 => /\ data # <<>> /\ Last(data) \in Value /\ Last(data) = data[Len(data)]
                        /\ Front(data) \in Seq(Value) /\ Len(Front(data)) = Len(data) - 1
                        /\ \A i \in 1 .. Len(data) - 1 : Front(data)[i] = data[i]
<1>1. /\ data \in Seq(Value) /\ Len(data) \in Nat /\ Len(data) <= MaxData
      /\ Act.base \in Nat /\ Act.base <= Len(data)
  BY ActFacts DEF IInv, TypeOK, OperandsNest
<1>2. Own \in Nat /\ Len(data) = Act.base + Own
  BY <1>1 DEF Own
<1>3. Own >= 1 => data # <<>>
  BY <1>1, <1>2, EmptySeq
<1> QED BY <1>1, <1>2, <1>3, FrontSeq

LEMMA StacksIInv ==
  IInv /\ (Literal \/ Dup_1 \/ Drop_1 \/ Swap_1) => IInv' /\ Framed' = Framed
<1> SUFFICES ASSUME IInv, Literal \/ Dup_1 \/ Drop_1 \/ Swap_1 PROVE IInv' /\ Framed' = Framed
  OBVIOUS
<1>1. /\ data \in Seq(Value) /\ Len(data) \in Nat /\ Len(data) <= MaxData
      /\ Act.base \in Nat /\ Own \in Nat /\ Len(data) = Act.base + Own
  BY OwnOperands
<1>2. /\ locals \in [Slot -> Value] /\ globals \in [Global -> Value] /\ globals_top \in Nat
      /\ alive \subseteq Obj
  BY DEF IInv, TypeOK
<1>3. ASSUME NEW ops, Operate(ops), ops \in Seq(Value), Len(ops) <= MaxData, Act.base <= Len(ops)
      PROVE  IInv' /\ Framed' = Framed
  <2>1. data' = ops /\ InBody /\ UNCHANGED <<ip, frameVars, call_frames, acts>>
    BY <1>3 DEF Operate
  <2>2. /\ locals' \in [Slot -> Value] /\ globals' \in [Global -> Value]
        /\ globals_top' \in Nat /\ alive' \subseteq Obj
    BY <1>2, <1>3 DEF Operate, globalVars
  <2> QED BY <1>3, <2>1, <2>2, OperateIInv
<1>4. MaxData \in Nat /\ Nil \in Value
  BY SlotBound DEF Value
<1>5. CASE Literal
  <2> DEFINE ops == Append(data, Nil)
  <2>1. /\ ops \in Seq(Value) /\ Len(ops) = Len(data) + 1
        /\ Operate(ops) /\ Len(data) < MaxData
    BY <1>1, <1>4, <1>5, AppendProperties DEF Literal, DataBound
  <2> HIDE DEF ops
  <2> QED BY <1>1, <1>3, <1>4, <2>1
<1>6. CASE Dup_1
  <2>1. Last(data) \in Value
    BY <1>6, OwnOperands DEF Dup_1
  <2> DEFINE ops == Append(data, Last(data))
  <2>2. /\ ops \in Seq(Value) /\ Len(ops) = Len(data) + 1
        /\ Operate(ops) /\ Len(data) < MaxData
    BY <1>1, <1>6, <2>1, AppendProperties DEF Dup_1, DataBound
  <2> HIDE DEF ops
  <2> QED BY <1>1, <1>3, <1>4, <2>2
<1>7. CASE Drop_1
  <2> DEFINE ops == Front(data)
  <2>1. /\ ops \in Seq(Value) /\ Len(ops) = Len(data) - 1 /\ Operate(ops) /\ Own >= 1
    BY <1>7, OwnOperands DEF Drop_1
  <2> HIDE DEF ops
  <2> QED BY <1>1, <1>3, <1>4, <2>1
<1>8. CASE Swap_1
  <2> DEFINE n == Len(data)
             one == [data EXCEPT ![n] = data[n - 1]]
             two == [data EXCEPT ![n] = data[n - 1], ![n - 1] = data[n]]
  <2>1. n \in 1 .. n /\ n - 1 \in 1 .. n /\ data[n] \in Value /\ data[n - 1] \in Value
    BY SMTT(30), <1>1, <1>8, ElementOfSeq DEF Swap_1
  <2>2. two \in Seq(Value) /\ Len(two) = n
    <3>1. one \in Seq(Value) /\ Len(one) = n
      BY <1>1, <2>1, ExceptSeq
    <3>2. two = [one EXCEPT ![n - 1] = data[n]]
      OBVIOUS
    <3> HIDE DEF one, two
    <3> QED BY <2>1, <3>1, <3>2, ExceptSeq
  <2>3. Operate(two)
    BY <1>8 DEF Swap_1
  <2> HIDE DEF two
  <2> QED BY <1>1, <1>3, <2>2, <2>3
<1> QED BY <1>5, <1>6, <1>7, <1>8

LEMMA LoadsIInv ==
  ASSUME IInv,
         (\E s \in VarSlot : Load_Local(s)) \/ (\E g \in Global : Load_Global(g))
  PROVE  IInv' /\ Framed' = Framed
<1>1. /\ data \in Seq(Value) /\ Len(data) \in Nat /\ Len(data) <= MaxData
      /\ Act.base \in Nat /\ Own \in Nat /\ Len(data) = Act.base + Own
  BY OwnOperands
<1>2. /\ locals \in [Slot -> Value] /\ globals \in [Global -> Value] /\ globals_top \in Nat
      /\ alive \subseteq Obj /\ MaxData \in Nat
  BY SlotBound DEF IInv, TypeOK
<1>3. ASSUME NEW v \in Value, DataBound, Operate(Append(data, v))
      PROVE  IInv' /\ Framed' = Framed
  <2>1. Append(data, v) \in Seq(Value) /\ Len(Append(data, v)) = Len(data) + 1
    BY <1>1, AppendProperties
  <2>2. data' = Append(data, v) /\ InBody /\ UNCHANGED <<ip, frameVars, call_frames, acts>>
    BY <1>3 DEF Operate
  <2>3. /\ locals' \in [Slot -> Value] /\ globals' \in [Global -> Value]
        /\ globals_top' \in Nat /\ alive' \subseteq Obj
    BY <1>2, <1>3 DEF Operate, globalVars
  <2>4. Len(data) + 1 <= MaxData /\ Act.base <= Len(data) + 1
    BY <1>1, <1>2, <1>3 DEF DataBound
  <2> QED BY <2>1, <2>2, <2>3, <2>4, OperateIInv
<1>4. ASSUME NEW s \in VarSlot, Load_Local(s)
      PROVE  IInv' /\ Framed' = Framed
  <2>1. TypeOK /\ CallsAgree /\ AssignedOwn
    BY DEF IInv
  <2>2. ip.fn = Act.fn /\ Act = acts[Len(acts)] /\ Len(acts) \in 1 .. Len(acts)
    BY <2>1, ActFacts DEF CallsAgree
  <2>3. ip.fn # "script" /\ s \in SlotsOf(ip.fn)
    BY <1>4, <2>1, <2>2 DEF AssignedOwn, Load_Local
  <2>4. locals[fast_locals + s] \in Value
    BY <1>2, <2>3, VariableInArray
  <2> QED BY <1>3, <1>4, <2>4 DEF Load_Local
<1>5. ASSUME NEW g \in Global, Load_Global(g)
      PROVE  IInv' /\ Framed' = Framed
  BY <1>2, <1>3, <1>5 DEF Load_Global
<1> QED BY <1>4, <1>5

LEMMA StoreGlobalIInv ==
  ASSUME IInv, NEW g \in Global, Store_Global(g)
  PROVE  IInv' /\ Framed' = Framed
<1>1. /\ data # <<>> /\ Last(data) \in Value /\ Front(data) \in Seq(Value)
      /\ Len(Front(data)) = Len(data) - 1 /\ Len(data) \in Nat /\ Len(data) <= MaxData
      /\ Act.base \in Nat /\ Own \in Nat /\ Len(data) = Act.base + Own /\ Own >= 1
  BY OwnOperands DEF Store_Global
<1>2. Global \subseteq Nat
  BY VMAssumption DEF Global
<1>3. /\ globals' \in [Global -> Value] /\ globals_top' \in Nat
      /\ locals' \in [Slot -> Value] /\ alive' \subseteq Obj
  BY <1>1, <1>2 DEF Store_Global, IInv, TypeOK
<1> DEFINE ops == Front(data)
<1>4. data' = ops /\ InBody /\ UNCHANGED <<ip, frameVars, call_frames, acts>>
  BY DEF Store_Global
<1>5. ops \in Seq(Value) /\ Len(ops) <= MaxData /\ Act.base <= Len(ops)
  <2>1. ops \in Seq(Value) /\ Len(ops) = Len(data) - 1
    BY <1>1
  <2> HIDE DEF ops
  <2> QED BY <1>1, <2>1, SlotBound
<1> HIDE DEF ops
<1> QED BY <1>3, <1>4, <1>5, OperateIInv

LEMMA CollectIInv == IInv /\ Collect => IInv' /\ Framed' = Framed
<1> SUFFICES ASSUME IInv, Collect PROVE IInv' /\ Framed' = Framed
  OBVIOUS
<1>1. /\ data' = data /\ InBody
      /\ UNCHANGED <<ip, locals, frameVars, call_frames, globals, globals_top, acts>>
      /\ alive' \subseteq alive
  BY DEF Collect, globalVars
<1>2. /\ locals' \in [Slot -> Value] /\ globals' \in [Global -> Value]
      /\ globals_top' \in Nat /\ alive' \subseteq Obj
  BY <1>1 DEF IInv, TypeOK
<1>3. data \in Seq(Value) /\ Len(data) <= MaxData /\ Act.base <= Len(data)
  BY OwnOperands
<1> QED BY <1>1, <1>2, <1>3, OperateIInv

LEMMA NewIInv ==
  ASSUME IInv, NEW o \in Obj, NEW collects \in BOOLEAN, New(o, collects)
  PROVE  IInv' /\ Framed' = Framed
<1> DEFINE ops == Append(data, o)
<1>1. /\ data' = ops /\ InBody /\ Len(data) < MaxData
      /\ UNCHANGED <<ip, locals, frameVars, call_frames, globals, globals_top, acts>>
      /\ alive' \subseteq alive \cup {o}
  BY DEF New, globalVars, DataBound
<1>2. /\ locals' \in [Slot -> Value] /\ globals' \in [Global -> Value]
      /\ globals_top' \in Nat /\ alive' \subseteq Obj
  BY <1>1 DEF IInv, TypeOK
<1>3. /\ data \in Seq(Value) /\ Len(data) \in Nat /\ Act.base \in Nat /\ Act.base <= Len(data)
      /\ MaxData \in Nat
  BY OwnOperands, SlotBound
<1>4. ops \in Seq(Value) /\ Len(ops) = Len(data) + 1
  BY <1>3, AppendProperties DEF Value
<1> HIDE DEF ops
<1>5. Len(ops) <= MaxData /\ Act.base <= Len(ops)
  BY <1>1, <1>3, <1>4
<1> QED BY <1>1, <1>2, <1>4, <1>5, OperateIInv

\* What a store does to the activations.
LEMMA StoredActs ==
  ASSUME IInv, NEW s \in VarSlot,
         acts' = [acts EXCEPT ![Len(acts)].assigned = @ \cup {s}]
  PROVE  /\ acts' \in Seq(Activation) /\ Len(acts') = Len(acts)
         /\ \A i \in 1 .. Len(acts) :
               /\ acts'[i].fn = acts[i].fn /\ acts'[i].base = acts[i].base
               /\ acts'[i].assigned = IF i = Len(acts) THEN acts[i].assigned \cup {s}
                                      ELSE acts[i].assigned
         /\ Act'.base = Act.base
<1>1. TypeOK /\ CallsAgree
  BY DEF IInv
<1>2. /\ Len(acts) \in 1 .. Len(acts) /\ Act \in Activation /\ Act = acts[Len(acts)]
      /\ acts \in Seq(Activation)
  BY <1>1, ActFacts DEF TypeOK
<1> DEFINE a == [Act EXCEPT !.assigned = @ \cup {s}]
<1>3. /\ a \in Activation /\ a.fn = Act.fn /\ a.base = Act.base
      /\ a.assigned = Act.assigned \cup {s}
  BY <1>2 DEF Activation
<1>4. acts' = [acts EXCEPT ![Len(acts)] = a]
  BY <1>2
<1> HIDE DEF a
<1> DEFINE q == [acts EXCEPT ![Len(acts)] = a]
<1>5a. /\ q \in Seq(Activation) /\ Len(q) = Len(acts)
       /\ \A i \in 1 .. Len(acts) : q[i] = IF i = Len(acts) THEN a ELSE acts[i]
  BY <1>2, <1>3, ReplaceOne
<1>5b. acts' = q
  BY <1>4
<1> HIDE DEF q
<1>5. acts' \in Seq(Activation) /\ Len(acts') = Len(acts)
  BY <1>5a, <1>5b
<1>7. \A i \in 1 .. Len(acts) : acts'[i] = IF i = Len(acts) THEN a ELSE acts[i]
  BY <1>5a, <1>5b
<1>6. Act' = a
  BY <1>2, <1>5, <1>7 DEF Act
<1>8. \A i \in 1 .. Len(acts) :
               /\ acts'[i].fn = acts[i].fn /\ acts'[i].base = acts[i].base
               /\ acts'[i].assigned = IF i = Len(acts) THEN acts[i].assigned \cup {s}
                                      ELSE acts[i].assigned
  <2> TAKE i \in 1 .. Len(acts)
  <2>1. CASE i = Len(acts)
    BY <1>2, <1>3, <1>7, <2>1
  <2>2. CASE i # Len(acts)
    BY <1>7, <2>2
  <2> QED BY <2>1, <2>2
<1> QED BY <1>2, <1>3, <1>5, <1>6, <1>8

LEMMA StoreTopIInv ==
  ASSUME IInv, ip.fn # "script", NEW s \in SlotsOf(ip.fn), StoreTop(s), Own >= 1,
         ip' \in [fn : Code, left : Nat], ip'.fn = ip.fn,
         ip'.left < Prologue(ip.fn) <=> ip.left < Prologue(ip.fn),
         Leaves(ip.fn) => ip.left < Prologue(ip.fn),
         ip'.left > 0 => ip'.left <= Prologue(ip.fn) /\ Own - 1 = ArgumentsLeft'
  PROVE  IInv' /\ Framed' = Framed
<1>1. TypeOK /\ CallsAgree /\ OperandsNest /\ AssignedOwn
  BY DEF IInv
<1>2. s \in VarSlot
  BY VariableInArray
<1>3. /\ acts' \in Seq(Activation) /\ Len(acts') = Len(acts)
      /\ \A i \in 1 .. Len(acts) :
               /\ acts'[i].fn = acts[i].fn /\ acts'[i].base = acts[i].base
               /\ acts'[i].assigned = IF i = Len(acts) THEN acts[i].assigned \cup {s}
                                      ELSE acts[i].assigned
      /\ Act'.base = Act.base
  BY <1>2, StoredActs DEF StoreTop
<1>4. /\ Last(data) \in Value /\ data' \in Seq(Value) /\ Len(data') = Len(data) - 1
      /\ Len(data) \in Nat /\ Len(data) <= MaxData /\ Act.base \in Nat
      /\ Len(data) = Act.base + Own /\ Own \in Nat
  BY OwnOperands DEF StoreTop
<1>5. Framed' = Framed /\ CallsAgree' /\ FramesTile' /\ FramesApart' /\ FramesFit'
  <2>1. UNCHANGED <<frameVars, call_frames>>
    BY DEF StoreTop
  <2> QED BY <1>3, <2>1, QuietStep
<1>6. TypeOK'
  <2>1. locals' \in [Slot -> Value]
    BY <1>1, <1>4 DEF StoreTop, TypeOK
  <2> QED BY <1>1, <1>3, <1>4, <2>1 DEF StoreTop, TypeOK, frameVars, globalVars
<1>7. /\ Len(acts) \in 1 .. Len(acts) /\ Act = acts[Len(acts)] /\ Len(acts) \in Nat
      /\ ip.fn = Act.fn
  BY <1>1, ActFacts DEF CallsAgree
<1>8. AssignedOwn'
  <2> SUFFICES ASSUME NEW i \in 1 .. Len(acts)
               PROVE  /\ acts[i].fn = "script" => acts'[i].assigned = {}
                      /\ acts[i].fn # "script" => acts'[i].assigned \subseteq SlotsOf(acts[i].fn)
                      /\ Leaves(acts[i].fn) /\ i \notin Framed => acts'[i].assigned = {}
    BY <1>3, <1>5 DEF AssignedOwn
  <2>1. CASE i # Len(acts)
    BY <1>1, <1>3, <2>1 DEF AssignedOwn
  <2>2. CASE i = Len(acts)
    <3>1. acts[i].fn = ip.fn /\ acts'[i].assigned = acts[i].assigned \cup {s}
      BY <1>3, <1>7, <2>2
    <3>2. Leaves(ip.fn) => i \in Framed
      BY <1>7, <2>2 DEF Framed
    <3> QED BY <1>1, <3>1, <3>2 DEF AssignedOwn
  <2> QED BY <2>1, <2>2
<1>9. OperandsNest'
  <2>1. \A i \in 1 .. Len(acts) : acts[i].base \in Nat /\ acts[i].base <= Act.base
    BY <1>1, <1>7, ActFacts DEF OperandsNest
  <2>2. \A i \in 1 .. Len(acts) : acts[i].base <= Len(data')
    BY <1>4, <2>1
  <2>3. Len(data') <= MaxData
    BY <1>4, SlotBound
  <2>4. Own' = Own - 1
    BY <1>3, <1>4 DEF Own
  <2>5. \A i, j \in 1 .. Len(acts') : i < j => acts'[i].base <= acts'[j].base
    BY <1>1, <1>3 DEF OperandsNest
  <2>6. \A i \in 1 .. Len(acts') : acts'[i].base <= Len(data')
    BY <1>3, <2>2
  <2>7. ip'.fn # "script"
    OBVIOUS
  <2>8. Prologue(ip'.fn) = Prologue(ip.fn)
    OBVIOUS
  <2> QED BY <2>3, <2>4, <2>5, <2>6, <2>7, <2>8 DEF OperandsNest
<1> QED BY <1>5, <1>6, <1>8, <1>9 DEF IInv

LEMMA StoresIInv ==
  ASSUME IInv, (\E s \in VarSlot : Store_Local(s)) \/ StoreArgument
  PROVE  IInv' /\ Framed' = Framed
<1>1. TypeOK /\ CallsAgree /\ OperandsNest
  BY DEF IInv
<1>2. ASSUME NEW s \in VarSlot, Store_Local(s)
      PROVE  IInv' /\ Framed' = Framed
  <2>1. /\ ip.fn # "script" /\ s \in SlotsOf(ip.fn) /\ StoreTop(s) /\ Own >= 1
        /\ ip' = ip /\ ip.left = 0
    BY <1>2 DEF Store_Local, InBody
  <2>2. ip' \in [fn : Code, left : Nat] /\ ip.fn \in Fn
    BY <1>1, <2>1, ActFacts DEF TypeOK
  <2>3. Leaves(ip.fn) => ip.left < Prologue(ip.fn)
    BY <2>1, <2>2, FunctionFacts
  <2> QED BY <2>1, <2>2, <2>3, StoreTopIInv
<1>3. ASSUME StoreArgument
      PROVE  IInv' /\ Framed' = Framed
  <2> DEFINE s == ip.left - 1
             p == source[ip.fn].params
  <2>1. /\ ip.fn # "script" /\ ip.left \in 1 .. p /\ StoreTop(s)
        /\ ip' = [ip EXCEPT !.left = @ - 1]
    BY <1>3 DEF StoreArgument
  <2>2. /\ ip \in [fn : Code, left : Nat] /\ ip.fn \in Fn
    BY <1>1, <2>1, ActFacts DEF TypeOK
  <2>3. /\ p \in Nat /\ source[ip.fn].decls \in Nat /\ p <= source[ip.fn].decls
        /\ source[ip.fn].literals \in Nat
        /\ ip.left \in Nat /\ ip.left >= 1 /\ ip.left <= p
    BY <2>1, <2>2, FunctionFacts
  <2>4. /\ ip' \in [fn : Code, left : Nat] /\ ip'.fn = ip.fn /\ ip'.left = ip.left - 1
    BY <2>1, <2>2, <2>3
  <2>5. s \in SlotsOf(ip.fn)
    BY <2>3 DEF SlotsOf
  <2>6. Leaves(ip.fn) /\ Prologue(ip.fn) = p + 1
    BY <2>2, <2>3, FunctionFacts
  <2>7. Own = ip.left
    BY <1>1, <2>3 DEF OperandsNest, ArgumentsLeft
  <2>8. ip'.left <= Prologue(ip.fn) /\ Own - 1 = ArgumentsLeft'
    <3>1. ArgumentsLeft' = IF ip'.left <= p THEN ip'.left ELSE p
      BY <2>4 DEF ArgumentsLeft
    <3> HIDE DEF p, s
    <3> QED BY <2>3, <2>4, <2>6, <2>7, <3>1
  <2> HIDE DEF p, s
  <2>9. /\ ip'.left < Prologue(ip.fn) /\ ip.left < Prologue(ip.fn) /\ Own >= 1
    BY <2>3, <2>4, <2>6, <2>7
  <2> QED BY <2>1, <2>4, <2>5, <2>8, <2>9, StoreTopIInv
<1> QED BY <1>2, <1>3

\* A call takes the arguments from the caller's operands to the callee's.
LEMMA EnteredActs ==
  ASSUME IInv, NEW f \in Fn, NEW operands \in Seq(Value), Len(operands) <= Len(data),
         Enter(f, operands)
  PROVE  /\ Len(acts') = Len(acts) + 1 /\ acts' \in Seq(Activation)
         /\ \A i \in 1 .. Len(acts) : acts'[i] = acts[i]
         /\ acts'[Len(acts) + 1].fn = f /\ acts'[Len(acts) + 1].assigned = {}
         /\ acts'[Len(acts) + 1].base = Len(operands) - source[f].params
         /\ Len(operands) \in Nat /\ source[f].params \in Nat
         /\ Act.base \in Nat /\ Act.base <= Len(operands) - source[f].params
         /\ Act' = acts'[Len(acts) + 1]
<1> DEFINE b == [fn |-> f, base |-> Len(operands) - source[f].params, assigned |-> {}]
<1>1. acts' = Append(acts, b) /\ acts \in Seq(Activation) /\ Len(acts) \in Nat
  BY ActFacts DEF Enter, IInv, TypeOK
<1>2. /\ Len(operands) \in Nat /\ source[f].params \in Nat /\ Act.base \in Nat
      /\ Own \in Nat /\ Len(data) = Act.base + Own /\ Len(data) \in Nat
      /\ Own >= source[f].params + Len(data) - Len(operands)
  BY OwnOperands, FunctionFacts DEF Enter
<1>3. Act.base <= Len(operands) - source[f].params
  BY <1>2
<1>4. b \in Activation
  <2>1. Len(operands) - source[f].params \in Nat
    BY <1>2, <1>3
  <2> QED BY <2>1 DEF Activation, Code
<1>5. b.fn = f /\ b.assigned = {} /\ b.base = Len(operands) - source[f].params
  OBVIOUS
<1> HIDE DEF b
<1>6. /\ Len(acts') = Len(acts) + 1 /\ acts' \in Seq(Activation)
      /\ \A i \in 1 .. Len(acts) : acts'[i] = acts[i]
      /\ acts'[Len(acts) + 1] = b
  BY <1>1, <1>4, AppendProperties
<1>7. Act' = b
  BY <1>6 DEF Act
<1> QED BY <1>2, <1>3, <1>5, <1>6, <1>7

LEMMA EnterIInv ==
  ASSUME IInv, NEW f \in Fn, NEW operands \in Seq(Value), Len(operands) <= Len(data),
         Enter(f, operands)
  PROVE  IInv' /\ Framed' = Framed
<1> DEFINE n == Len(acts)
<1>1. TypeOK /\ CallsAgree /\ OperandsNest /\ AssignedOwn
  BY DEF IInv
<1>2. /\ n \in Nat /\ n >= 1 /\ n \in 1 .. n /\ Act = acts[n]
      /\ ip.fn = acts[n].fn
  BY <1>1, ActFacts DEF CallsAgree
<1>3. /\ Len(acts') = n + 1 /\ acts' \in Seq(Activation)
      /\ \A i \in 1 .. n : acts'[i] = acts[i]
      /\ acts'[n + 1].fn = f /\ acts'[n + 1].assigned = {}
      /\ acts'[n + 1].base = Len(operands) - source[f].params
      /\ Len(operands) \in Nat /\ source[f].params \in Nat
      /\ Act.base \in Nat /\ Act.base <= Len(operands) - source[f].params
      /\ Act' = acts'[n + 1]
  BY EnteredActs
<1>4. /\ InBody /\ data' = operands /\ call_frames' = Append(call_frames, ip.fn)
      /\ ip' = [fn |-> f, left |-> Prologue(f)]
      /\ UNCHANGED <<locals, frameVars, globalVars, alive>>
      /\ Len(call_frames) < MaxCalls
  BY DEF Enter, CallBound
<1> HIDE DEF n
<1>5. ip'.fn = f /\ ip'.left = Prologue(f) /\ Prologue(f) \in Nat /\ f # "script"
  BY <1>4, FunctionFacts
<1>6. Framed' = Framed
  <2>1. ASSUME NEW i \in 1 .. n
        PROVE  i \in Framed' <=> i \in Framed
    <3>1. i \in Framed' <=> Leaves(acts[i].fn)
      BY <1>2, <1>3 DEF Framed
    <3>2. Leaves(acts[i].fn) => (i = n => ip.left < Prologue(ip.fn))
      <4>1. ip.left = 0
        BY <1>4 DEF InBody
      <4>2. Leaves(ip.fn) => Prologue(ip.fn) \in Nat /\ Prologue(ip.fn) >= 1
        <5>1. Leaves(ip.fn) => ip.fn \in Fn
          BY <1>1, ActFacts DEF Leaves
        <5> QED BY <5>1, FunctionFacts
      <4> QED BY <1>2, <4>1, <4>2
    <3>3. i \in Framed <=> Leaves(acts[i].fn)
      BY <1>2, <3>2 DEF Framed, n
    <3> QED BY <3>1, <3>3
  <2>2. n + 1 \notin Framed'
    BY <1>3, <1>5 DEF Framed
  <2>3. Framed \subseteq 1 .. n /\ Framed' \subseteq 1 .. n + 1
    BY <1>3 DEF Framed, n
  <2>4. \A i : i \in Framed' => i \in 1 .. n
    BY <1>2, <2>2, <2>3
  <2> QED BY <2>1, <2>3, <2>4
<1>7. CallsAgree'
  <2>1. call_frames \in Seq(Code) /\ ip.fn \in Code /\ MaxCalls \in Nat
    BY <1>1, SlotBound DEF TypeOK
  <2>2. Len(call_frames) = n - 1 /\ \A i \in 1 .. n - 1 : call_frames[i] = acts[i].fn
    BY <1>1 DEF CallsAgree, n
  <2>3. /\ Len(call_frames') = n /\ call_frames'[n] = ip.fn
        /\ \A i \in 1 .. n - 1 : call_frames'[i] = call_frames[i]
    BY <1>2, <1>4, <2>1, <2>2, AppendProperties
  <2>4. n + 1 \in 1 .. (MaxCalls + 1)
    BY <1>2, <1>4, <2>1, <2>2
  <2>5. \A i \in 1 .. n : call_frames'[i] = acts'[i].fn
    BY <1>2, <1>3, <2>2, <2>3
  <2>6. \A i \in 1 .. n + 1 : acts'[i].fn = "script" <=> i = 1
    <3>1. \A i \in 1 .. n : acts[i].fn = "script" <=> i = 1
      BY <1>1 DEF CallsAgree, n
    <3> QED BY <1>2, <1>3, <1>5, <3>1
  <2> QED BY <1>2, <1>3, <1>5, <2>3, <2>4, <2>5, <2>6 DEF CallsAgree
<1>8. TypeOK'
  <2>1. call_frames' \in Seq(Code)
    BY <1>1, <1>4, AppendProperties DEF TypeOK
  <2>2. ip' \in [fn : Code, left : Nat]
    BY <1>4, <1>5 DEF Code
  <2> QED BY <1>1, <1>3, <1>4, <2>1, <2>2 DEF TypeOK, frameVars, globalVars
<1>9. Tiled' /\ FramesApart' /\ FramesFit'
  <2>1. \A i \in Framed : acts'[i].fn = acts[i].fn
    BY <1>1, <1>3, FramedFacts DEF n
  <2> QED BY <1>4, <1>6, <2>1, SameFrames
<1>10. FramesTile'
  BY <1>7, <1>9 DEF Tiled, CallsAgree, FramesTile
<1>11. AssignedOwn'
  <2> SUFFICES ASSUME NEW i \in 1 .. n + 1
               PROVE  /\ acts'[i].fn = "script" => acts'[i].assigned = {}
                      /\ acts'[i].fn # "script" => acts'[i].assigned \subseteq SlotsOf(acts'[i].fn)
                      /\ Leaves(acts'[i].fn) /\ i \notin Framed => acts'[i].assigned = {}
    BY <1>3, <1>6 DEF AssignedOwn
  <2>1. CASE i = n + 1
    BY <1>3, <2>1
  <2>2. CASE i \in 1 .. n
    BY <1>1, <1>3, <2>2 DEF AssignedOwn, n
  <2> QED BY <1>2, <2>1, <2>2
<1>12. OperandsNest'
  <2>1. \A i \in 1 .. n : acts[i].base \in Nat /\ acts[i].base <= Act.base
    BY <1>1, <1>2, ActFacts DEF OperandsNest, n
  <2>2. /\ Act.base <= acts'[n + 1].base /\ acts'[n + 1].base <= Len(operands)
        /\ acts'[n + 1].base \in Nat
    BY <1>3
  <2>3. \A i, j \in 1 .. n + 1 : i < j => acts'[i].base <= acts'[j].base
    <3> SUFFICES ASSUME NEW i \in 1 .. n + 1, NEW j \in 1 .. n + 1, i < j
                 PROVE  acts'[i].base <= acts'[j].base
      OBVIOUS
    <3>1. i \in 1 .. n
      BY <1>2
    <3>2. CASE j = n + 1
      BY <1>2, <1>3, <2>1, <2>2, <3>1, <3>2
    <3>3. CASE j \in 1 .. n
      BY <1>1, <1>3, <3>1, <3>3 DEF OperandsNest, n
    <3> QED BY <1>2, <3>2, <3>3
  <2>4. \A i \in 1 .. n + 1 : acts'[i].base <= Len(operands)
    <3> SUFFICES ASSUME NEW i \in 1 .. n + 1 PROVE acts'[i].base <= Len(operands)
      OBVIOUS
    <3>1. CASE i = n + 1
      BY <2>2, <3>1
    <3>2. CASE i \in 1 .. n
      BY <1>3, <2>1, <2>2, <3>2
    <3> QED BY <1>2, <3>1, <3>2
  <2>5. Len(operands) <= MaxData
    BY <1>3, OwnOperands, SlotBound
  <2>6. Own' = source[f].params
    BY <1>3, <1>4 DEF Own
  <2>7. Own' = ArgumentsLeft'
    <3>1. ArgumentsLeft' = IF Prologue(f) <= source[f].params THEN Prologue(f) ELSE source[f].params
      BY <1>5 DEF ArgumentsLeft
    <3>2. Prologue(f) = source[f].params \/ Prologue(f) = source[f].params + 1
      BY FunctionFacts
    <3> QED BY <1>3, <2>6, <3>1, <3>2
  <2> QED BY <1>3, <1>4, <1>5, <2>3, <2>4, <2>5, <2>7 DEF OperandsNest
<1> QED BY <1>6, <1>7, <1>8, <1>9, <1>10, <1>11, <1>12 DEF IInv

LEMMA CallsIInv ==
  ASSUME IInv, NEW f \in Fn, Call(f) \/ Call_Dyn(f)
  PROVE  IInv' /\ Framed' = Framed
<1>1. data \in Seq(Value) /\ Len(data) \in Nat
  BY OwnOperands
<1>2. CASE Call(f)
  BY <1>1, <1>2, EnterIInv DEF Call
<1>3. CASE Call_Dyn(f)
  <2>1. /\ Front(data) \in Seq(Value) /\ Len(Front(data)) = Len(data) - 1
        /\ Enter(f, Front(data))
    BY <1>3, OwnOperands DEF Call_Dyn
  <2>2. Len(Front(data)) <= Len(data)
    BY <1>1, <2>1
  <2> QED BY <2>1, <2>2, EnterIInv
<1> QED BY <1>2, <1>3

LEMMA AllocIInv ==
  ASSUME IInv, Alloc_Locals, NEW n, n = Len(acts)
  PROVE  /\ IInv' /\ Framed' = Framed \cup {n} /\ n \notin Framed
         /\ \A i \in 1 .. n - 1 : FrameNo(i)' = FrameNo(i)
         /\ FrameNo(n)' = Len(locals_frames')
<1>0. PICK f, m, p : f = ip.fn /\ m = Len(locals_frames) /\ p = source[f].params
  OBVIOUS
<1> USE <1>0
<1>1. TypeOK /\ CallsAgree /\ OperandsNest /\ AssignedOwn /\ Tiled /\ FramesApart /\ FramesFit
  BY DEF IInv, FramesTile, Tiled
<1>2. /\ n \in Nat /\ n >= 1 /\ n \in 1 .. n /\ n <= MaxCalls + 1 /\ Act = acts[n]
      /\ f = acts[n].fn
  BY <1>0, <1>1, ActFacts DEF CallsAgree
<1>3. /\ Leaves(f) /\ ip.left = Prologue(f)
      /\ locals_frames' = Append(locals_frames, locals_top)
      /\ locals_top' = locals_top + LocalsToAllocate(f)
      /\ fast_locals' = locals_top
      /\ ip' = [ip EXCEPT !.left = @ - 1]
      /\ UNCHANGED <<data, locals, call_frames, globalVars, alive, acts>>
  BY DEF Alloc_Locals
<1>4. f \in Fn /\ f # "script" /\ n >= 2
  BY <1>1, <1>3, ActFacts DEF Leaves
<1>5. /\ p \in Nat /\ Prologue(f) = p + 1 /\ LocalsToAllocate(f) \in Nat
      /\ LocalsToAllocate(f) <= MaxFrame /\ MaxFrame \in Nat
  <2>1. /\ p \in Nat /\ Prologue(f) = p + 1 /\ LocalsToAllocate(f) \in Nat
        /\ LocalsToAllocate(f) + source[f].literals <= MaxFrame /\ source[f].literals \in Nat
    BY <1>3, <1>4, FunctionFacts
  <2>2. MaxFrame \in Nat
    BY SlotBound
  <2> QED BY <2>1, <2>2
<1>6. /\ ip' \in [fn : Code, left : Nat] /\ ip'.fn = f /\ ip'.left = p /\ ip.left = p + 1
  <2>1. ip \in [fn : Code, left : Nat] /\ ip.left = p + 1
    BY <1>1, <1>3, <1>5 DEF TypeOK
  <2>2. p + 1 - 1 = p
    BY <1>5
  <2> QED BY SMTT(30), <1>3, <1>5, <2>1, <2>2
<1>7. /\ locals_frames \in Seq(Slot) /\ m \in Nat /\ locals_top \in Slot /\ locals_top \in Nat
  BY <1>1, SlotBound DEF TypeOK
<1>8. /\ Len(locals_frames') = m + 1 /\ locals_frames' \in Seq(Slot)
      /\ \A k \in 1 .. m : locals_frames'[k] = locals_frames[k]
      /\ locals_frames'[m + 1] = locals_top
  BY <1>3, <1>7, AppendProperties
<1>9. /\ Framed \subseteq 1 .. n /\ \A i \in Framed : i > 1 /\ acts[i].fn \in Fn
      /\ IsFiniteSet(Framed) /\ Cardinality(Framed) \in Nat
      /\ \A i \in Framed : FrameNo(i) >= 1 /\ FrameNo(i) <= Cardinality(Framed)
      /\ \A i \in Framed : FrameNo(i) \in Nat
  BY <1>1, FramedFacts
<1>10. n \notin Framed
  <2>1. ~(ip.left < Prologue(ip.fn))
    BY <1>3, <1>5
  <2> QED BY <2>1 DEF Framed
<1>11. Framed' = Framed \cup {n}
  <2>1. \A i \in 1 .. n : i # n => (i \in Framed' <=> i \in Framed)
    BY <1>0, <1>2, <1>3 DEF Framed
  <2>2. n \in Framed'
    BY <1>0, <1>2, <1>3, <1>5, <1>6 DEF Framed
  <2>3. Framed' \subseteq 1 .. n
    BY <1>0, <1>3 DEF Framed
  <2> QED BY <1>9, <2>1, <2>2, <2>3
<1>12. Cardinality(Framed') = m + 1 /\ m + 1 <= MaxCalls
  <2>1. Cardinality(Framed') = Cardinality(Framed) + 1
    BY <1>9, <1>10, <1>11, FS_AddElement
  <2>2. IsFiniteSet(2 .. n) /\ Cardinality(2 .. n) = n - 1
    BY <1>2, <1>4, FS_Interval
  <2>3. Framed' \in SUBSET (2 .. n)
    <3>1. \A i \in Framed : i \in 2 .. n
      BY <1>2, <1>9
    <3>2. n \in 2 .. n
      BY <1>2, <1>4
    <3> QED BY <1>11, <3>1, <3>2
  <2>4. Cardinality(Framed') <= n - 1
    <3> DEFINE A == 2 .. n
    <3>1. \A F \in SUBSET A : Cardinality(F) <= Cardinality(A)
      <4> HIDE DEF A
      <4> QED BY <2>2, FS_Subset DEF A
    <3> QED BY <2>2, <2>3, <3>1
  <2>5. Cardinality(Framed) = m
    BY <1>0, <1>1 DEF Tiled
  <2> QED BY <1>2, <1>7, <2>1, <2>4, <2>5, SlotBound
<1>13. \A i \in 1 .. n - 1 : FrameNo(i)' = FrameNo(i)
  <2> SUFFICES ASSUME NEW i \in 1 .. n - 1 PROVE FrameNo(i)' = FrameNo(i)
    OBVIOUS
  <2>1. {j \in Framed' : j <= i} = {j \in Framed : j <= i}
    <3>1. i \in Nat /\ ~(n <= i)
      BY <1>2
    <3> QED BY <1>11, <3>1
  <2> QED BY <2>1 DEF FrameNo
<1>14. FrameNo(n)' = m + 1
  <2>1. {j \in Framed' : j <= n} = Framed'
    <3>1. \A j \in Framed' : j \in Nat /\ j <= n
      BY <1>2, <1>9, <1>11
    <3> QED BY <3>1
  <2> QED BY <1>12, <2>1 DEF FrameNo
<1>15. \A i \in Framed : i \in 1 .. n - 1 /\ FrameNo(i)' = FrameNo(i) /\ FrameNo(i) \in 1 .. m
  <2> TAKE i \in Framed
  <2>1. i \in 1 .. n - 1
    BY <1>2, <1>9, <1>10
  <2>2. Cardinality(Framed) = m
    BY <1>0, <1>1 DEF Tiled
  <2> QED BY <1>7, <1>9, <1>13, <2>1, <2>2
<1>16. \A i \in Framed : /\ FrameEnd(i)' = FrameEnd(i) /\ NextFrame(i)' = NextFrame(i)
                         /\ locals_frames'[FrameNo(i)'] = locals_frames[FrameNo(i)]
  <2> TAKE i \in Framed
  <2>1. FrameNo(i)' = FrameNo(i) /\ FrameNo(i) \in 1 .. m
    BY <1>15
  <2>2. locals_frames'[FrameNo(i)'] = locals_frames[FrameNo(i)]
    BY <1>8, <2>1
  <2>3. FrameEnd(i)' = FrameEnd(i)
    BY <1>3, <2>2 DEF FrameEnd
  <2>4. NextFrame(i)' = NextFrame(i)
    <3>1. CASE FrameNo(i) < m
      <4>1. FrameNo(i) + 1 \in 1 .. m /\ FrameNo(i) < m + 1
        BY <1>7, <2>1, <3>1
      <4> QED BY <1>0, <1>8, <2>1, <3>1, <4>1 DEF NextFrame
    <3>2. CASE FrameNo(i) = m
      <4>1. FrameNo(i) + 1 = m + 1 /\ FrameNo(i) < m + 1 /\ ~(FrameNo(i) < m)
        BY <1>7, <3>2
      <4> QED BY <1>0, <1>8, <2>1, <4>1 DEF NextFrame
    <3> QED BY <1>7, <2>1, <3>1, <3>2
  <2> QED BY <2>2, <2>3, <2>4
<1>17. /\ locals_frames'[FrameNo(n)'] = locals_top
       /\ FrameEnd(n)' = locals_top' /\ NextFrame(n)' = locals_top'
  <2>1. locals_frames'[FrameNo(n)'] = locals_top
    BY <1>8, <1>14
  <2>2. FrameEnd(n)' = locals_top'
    BY <1>0, <1>2, <1>3, <2>1 DEF FrameEnd
  <2>3. ~(m + 1 < m + 1)
    BY <1>7
  <2> QED BY <1>8, <1>14, <2>1, <2>2, <2>3 DEF NextFrame
<1>18. Tiled'
  <2>1. Len(locals_frames') = Cardinality(Framed')
    BY <1>8, <1>12
  <2>2. \A i \in Framed' : FrameEnd(i)' = NextFrame(i)'
    BY <1>1, <1>11, <1>16, <1>17 DEF Tiled
  <2>3. locals_frames'[1] = 0
    <3>1. CASE locals_frames = <<>>
      BY <1>0, <1>1, <1>8, <3>1 DEF FramesFit
    <3>2. CASE locals_frames # <<>>
      <4>1. 1 \in 1 .. m
        BY <1>0, <1>7, <3>2, EmptySeq
      <4> QED BY <1>1, <1>8, <3>2, <4>1 DEF Tiled
    <3> QED BY <3>1, <3>2
  <2>4. fast_locals' = Last(locals_frames')
    BY <1>3, <1>8 DEF Last
  <2> QED BY <2>1, <2>2, <2>3, <2>4 DEF Tiled
<1>19. FramesApart'
  <2>1. \A i \in Framed : FrameEnd(i) <= locals_top /\ FrameEnd(i) \in Nat
    <3> TAKE i \in Framed
    <3>1. locals_frames[FrameNo(i)] \in Nat
      BY <1>0, <1>7, <1>15, ElementOfSeq, SlotBound
    <3>2. LocalsToAllocate(acts[i].fn) \in Nat
      BY <1>9, FunctionFacts
    <3> QED BY <1>1, <3>1, <3>2 DEF FrameEnd, FramesApart
  <2>2. \A i \in Framed : FrameEnd(i)' <= locals_top'
    BY <1>3, <1>5, <1>7, <1>16, <2>1
  <2>3. FrameEnd(n)' <= locals_top'
    BY <1>3, <1>5, <1>7, <1>17
  <2>4. ASSUME NEW i \in Framed', NEW j \in Framed', i < j
        PROVE  FrameEnd(i)' <= locals_frames'[FrameNo(j)']
    <3>1. i \in Framed
      BY <1>2, <1>9, <1>11, <2>4
    <3>2. CASE j = n
      BY <1>16, <1>17, <2>1, <3>1, <3>2
    <3>3. CASE j \in Framed
      BY <1>1, <1>16, <2>4, <3>1, <3>3 DEF FramesApart
    <3> QED BY <1>11, <3>2, <3>3
  <2> QED BY <1>11, <2>2, <2>3, <2>4 DEF FramesApart
<1>20. m * MaxFrame \in Nat /\ (m + 1) * MaxFrame = m * MaxFrame + MaxFrame
       /\ (m + 1) * MaxFrame <= MaxCalls * MaxFrame
  <2>1. MaxCalls \in Nat /\ m + 1 \in Nat
    BY <1>7, SlotBound
  <2> QED BY <1>5, <1>7, <1>12, <2>1, Times
<1>21. locals_top <= m * MaxFrame
  BY <1>0, <1>1 DEF FramesFit
<1>22. locals_top' \in Nat /\ locals_top' <= (m + 1) * MaxFrame
  BY <1>3, <1>5, <1>7, <1>20, <1>21
<1>23. FramesFit'
  <2>1. ASSUME NEW k \in 1 .. m + 1 PROVE locals_frames'[k] <= (k - 1) * MaxFrame
    <3>1. CASE k \in 1 .. m
      BY <1>0, <1>1, <1>8, <3>1 DEF FramesFit
    <3>2. CASE k = m + 1
      <4>1. k - 1 = m
        BY <1>7, <3>2
      <4> QED BY <1>8, <1>21, <3>2, <4>1
    <3> QED BY <1>7, <3>1, <3>2
  <2>2. locals_frames' # <<>>
    BY <1>3, <1>7, AppendProperties
  <2> QED BY <1>8, <1>22, <2>1, <2>2 DEF FramesFit
<1>24. TypeOK'
  <2>1. locals_top' \in Slot
    BY <1>20, <1>22, SlotBound
  <2>2. fast_locals' \in Slot
    BY <1>3, <1>7
  <2> QED BY <1>1, <1>3, <1>6, <1>8, <2>1, <2>2 DEF TypeOK, globalVars
<1>25. CallsAgree'
  BY <1>0, <1>1, <1>3, <1>6 DEF CallsAgree, Act
<1>26. AssignedOwn'
  BY <1>1, <1>3, <1>11 DEF AssignedOwn
<1>27. OperandsNest'
  <2>1. Own = p
    <3>1. ArgumentsLeft = p
      BY <1>0, <1>5, <1>6 DEF ArgumentsLeft
    <3> QED BY <1>1, <1>5, <1>6, <3>1 DEF OperandsNest
  <2>2. Own' = p /\ ArgumentsLeft' = p
    BY <1>0, <1>3, <1>5, <1>6, <2>1 DEF Own, Act, ArgumentsLeft
  <2>3. ip'.left <= Prologue(ip'.fn)
    BY <1>5, <1>6
  <2> QED BY <1>1, <1>3, <1>4, <1>6, <2>2, <2>3 DEF OperandsNest
<1>28. FramesTile'
  BY <1>18, <1>25 DEF Tiled, CallsAgree, FramesTile
<1> QED
  BY <1>8, <1>10, <1>11, <1>13, <1>14, <1>19, <1>23, <1>24, <1>25, <1>26, <1>27, <1>28
     DEF IInv

\* What a return does, whether or not the function has a frame.
LEMMA LeftActs ==
  ASSUME IInv, Leave, NEW n, n = Len(acts)
  PROVE  /\ n \in Nat /\ n >= 2 /\ ip.fn \in Fn /\ ip.fn = acts[n].fn
         /\ Len(acts') = n - 1 /\ \A i \in 1 .. n - 1 : acts'[i] = acts[i]
         /\ acts' \in Seq(Activation) /\ data' = data
         /\ ip' = [fn |-> acts[n - 1].fn, left |-> 0]
         /\ Framed' = Framed \ {n}
         /\ n \in Framed <=> Leaves(ip.fn)
         /\ \A i \in 1 .. n - 1 : FrameNo(i)' = FrameNo(i)
         /\ ip' \in [fn : Code, left : Nat] /\ call_frames' \in Seq(Code)
         /\ CallsAgree' /\ AssignedOwn' /\ OperandsNest'
<1>1. TypeOK /\ CallsAgree /\ OperandsNest /\ AssignedOwn
  BY DEF IInv
<1>2. /\ ip.left = 0 /\ ip.fn # "script"
      /\ ip' = [fn |-> Last(call_frames), left |-> 0]
      /\ call_frames' = Front(call_frames) /\ acts' = Front(acts)
      /\ UNCHANGED <<data, locals, globalVars, alive>>
  BY DEF Leave, InBody
<1>3. /\ n \in Nat /\ n >= 2 /\ ip.fn \in Fn /\ ip.fn = acts[n].fn /\ Act = acts[n]
      /\ n <= MaxCalls + 1 /\ n \in 1 .. n /\ n - 1 \in 1 .. n - 1
  BY <1>1, <1>2, ActFacts DEF CallsAgree
<1>4. /\ Len(acts') = n - 1 /\ \A i \in 1 .. n - 1 : acts'[i] = acts[i]
      /\ acts' \in Seq(Activation)
  <2>1. acts \in Seq(Activation) /\ acts # <<>>
    BY <1>1, <1>3, EmptySeq DEF TypeOK
  <2> QED BY <1>2, <2>1, FrontSeq
<1>5. call_frames \in Seq(Code) /\ Len(call_frames) = n - 1 /\ call_frames # <<>>
  <2>1. call_frames \in Seq(Code) /\ Len(call_frames) = n - 1
    BY <1>1 DEF TypeOK, CallsAgree
  <2> QED BY <1>3, <2>1, EmptySeq
<1>6. /\ call_frames' \in Seq(Code) /\ Len(call_frames') = n - 2
      /\ \A i \in 1 .. n - 2 : call_frames'[i] = call_frames[i]
      /\ Last(call_frames) \in Code /\ Last(call_frames) = call_frames[n - 1]
  <2> DEFINE q == Front(call_frames)
  <2>1. /\ q \in Seq(Code) /\ Len(q) = Len(call_frames) - 1
        /\ \A i \in 1 .. Len(call_frames) - 1 : q[i] = call_frames[i]
        /\ Last(call_frames) \in Code /\ Last(call_frames) = call_frames[Len(call_frames)]
    BY <1>5, FrontSeq
  <2>2. call_frames' = q
    BY <1>2
  <2>3. n - 1 - 1 = n - 2
    BY <1>3
  <2> HIDE DEF q
  <2> QED BY <1>5, <2>1, <2>2, <2>3
<1>7. /\ ip' = [fn |-> acts[n - 1].fn, left |-> 0] /\ acts[n - 1].fn \in Code
      /\ ip' \in [fn : Code, left : Nat] /\ ip'.fn = acts[n - 1].fn /\ ip'.left = 0
  <2>1. Last(call_frames) = acts[n - 1].fn
    BY <1>1, <1>3, <1>5, <1>6 DEF CallsAgree
  <2> QED BY <1>2, <1>6, <2>1
<1>8. Leaves(ip'.fn) => ip'.fn \in Fn /\ 0 < Prologue(ip'.fn)
  <2>1. Leaves(ip'.fn) => ip'.fn \in Fn
    BY <1>7 DEF Leaves, Code
  <2> QED BY <2>1, FunctionFacts
<1>9. n \in Framed <=> Leaves(ip.fn)
  <2>1. Leaves(ip.fn) => ip.left < Prologue(ip.fn)
    BY <1>2, <1>3, FunctionFacts
  <2> QED BY <1>3, <2>1 DEF Framed
<1>10. \A i \in 1 .. n - 1 : /\ i \in Framed <=> Leaves(acts[i].fn)
                             /\ i \in Framed' <=> Leaves(acts[i].fn)
  <2> TAKE i \in 1 .. n - 1
  <2>1. i \in 1 .. n /\ i # n
    BY <1>3
  <2>2. i \in Framed <=> Leaves(acts[i].fn)
    BY <2>1 DEF Framed
  <2>3. i = n - 1 => acts[i].fn = ip'.fn
    BY <1>7
  <2>4. i \in Framed' <=> Leaves(acts[i].fn)
    BY <1>4, <1>7, <1>8, <2>3 DEF Framed
  <2> QED BY <2>2, <2>4
<1>11. Framed' = Framed \ {n}
  <2>1. Framed \subseteq 1 .. n /\ Framed' \subseteq 1 .. n - 1
    BY <1>4 DEF Framed
  <2>2. \A i \in 1 .. n : i # n <=> i \in 1 .. n - 1
    BY <1>3
  <2>3. n \notin 1 .. n - 1
    BY <1>3
  <2> QED BY <1>10, <2>1, <2>2, <2>3
<1>12. \A i \in 1 .. n - 1 : FrameNo(i)' = FrameNo(i)
  <2> TAKE i \in 1 .. n - 1
  <2>1. {j \in Framed' : j <= i} = {j \in Framed : j <= i}
    <3>1. ~(n <= i)
      BY <1>3
    <3> QED BY <1>11, <3>1
  <2> QED BY <2>1 DEF FrameNo
<1>13. CallsAgree'
  <2>1. n - 1 \in 1 .. (MaxCalls + 1)
    BY <1>3, SlotBound
  <2>2. n - 2 = n - 1 - 1
    BY <1>3
  <2>3. \A i \in 1 .. n - 2 : i \in 1 .. n - 1
    BY <1>3
  <2>4. \A i \in 1 .. n - 2 : call_frames'[i] = acts'[i].fn
    BY <1>1, <1>4, <1>5, <1>6, <2>3 DEF CallsAgree
  <2>5. \A i \in 1 .. n - 1 : acts'[i].fn = "script" <=> i = 1
    <3>1. \A i \in 1 .. n - 1 : i \in 1 .. n
      BY <1>3
    <3> QED BY <1>1, <1>4, <3>1 DEF CallsAgree
  <2>6. ip'.fn = Act'.fn
    BY <1>3, <1>4, <1>7 DEF Act
  <2> QED BY <1>4, <1>6, <2>1, <2>2, <2>4, <2>5, <2>6 DEF CallsAgree
<1>14. \A i \in 1 .. n - 1 : i \in 1 .. n /\ (i \notin Framed' => i \notin Framed)
  BY <1>3, <1>10
<1>15. AssignedOwn'
  BY <1>1, <1>4, <1>14 DEF AssignedOwn
<1>16. OperandsNest'
  BY SMTT(30), <1>1, <1>2, <1>4, <1>7, <1>14 DEF OperandsNest
<1> QED
  BY <1>2, <1>3, <1>4, <1>6, <1>7, <1>9, <1>11, <1>12, <1>13, <1>15, <1>16

LEMMA ReturnIInv ==
  ASSUME IInv, Return, NEW n, n = Len(acts)
  PROVE  /\ IInv'
         /\ \A i \in Framed' : /\ FrameNo(i) \in 1 .. Len(locals_frames) - 1
                               /\ locals_frames'[FrameNo(i)] = locals_frames[FrameNo(i)]
<1>0. PICK m : m = Len(locals_frames)
  OBVIOUS
<1> USE <1>0
<1>1. TypeOK /\ CallsAgree /\ Tiled /\ FramesApart /\ FramesFit
  BY DEF IInv, FramesTile, Tiled
<1>2. /\ Leaves(ip.fn) /\ Leave /\ locals_top' = Last(locals_frames)
      /\ locals_frames' = Front(locals_frames)
      /\ fast_locals' = IF locals_frames' = <<>> THEN Len(data) ELSE Last(locals_frames')
      /\ UNCHANGED <<data, locals, globalVars, alive>>
  BY DEF Return, Leave, CurrentLocals
<1>3. /\ n \in Nat /\ n >= 2 /\ Framed' = Framed \ {n} /\ n \in Framed
      /\ \A i \in 1 .. n - 1 : FrameNo(i)' = FrameNo(i) /\ acts'[i] = acts[i]
      /\ acts' \in Seq(Activation)
      /\ ip' \in [fn : Code, left : Nat] /\ call_frames' \in Seq(Code)
      /\ CallsAgree' /\ AssignedOwn' /\ OperandsNest'
  BY <1>2, LeftActs
<1>4. /\ Framed \subseteq 1 .. n /\ IsFiniteSet(Framed)
      /\ FrameNo(n) = m /\ m = Cardinality(Framed) /\ m \in Nat /\ m >= 1
      /\ \A i \in Framed : FrameNo(i) \in Nat /\ FrameNo(i) >= 1
      /\ \A i \in Framed : i < n => FrameNo(i) < m
  <2>1. FrameNo(n) = m /\ m = Cardinality(Framed) /\ m \in Nat /\ m >= 1
    BY <1>1, <1>3, FramedFacts DEF Tiled
  <2>2. \A i \in Framed : i \in 1 .. n
    BY <1>1, FramedFacts
  <2> QED BY <1>1, <1>3, <2>1, <2>2, FramedFacts
<1>5. \A i \in Framed' : /\ i \in Framed /\ i < n /\ i \in 1 .. n - 1
                         /\ FrameNo(i)' = FrameNo(i) /\ FrameNo(i) \in 1 .. m - 1
                         /\ FrameNo(i) \in Nat
  <2> TAKE i \in Framed'
  <2>1. i \in Framed /\ i # n
    BY <1>3
  <2>2. i < n /\ i \in 1 .. n - 1
    BY <1>3, <1>4, <2>1
  <2>3. FrameNo(i) \in 1 .. m - 1
    BY <1>4, <2>1, <2>2
  <2> QED BY <1>3, <1>4, <2>1, <2>2, <2>3
<1>6. locals_frames \in Seq(Slot) /\ locals_frames # <<>>
  <2>1. locals_frames = <<>> => m = 0
    BY EmptySeq
  <2> QED BY <1>1, <1>4, <2>1 DEF TypeOK
<1>7. /\ Len(locals_frames') = m - 1 /\ locals_frames' \in Seq(Slot)
      /\ \A k \in 1 .. m - 1 : locals_frames'[k] = locals_frames[k]
      /\ locals_top' = locals_frames[m] /\ locals_top' \in Slot
  BY <1>2, <1>6, FrontSeq
<1>8. m - 1 \in Nat /\ m \in 1 .. m /\ 1 \in 1 .. m
  BY <1>4
<1>9. \A i \in Framed' : /\ FrameEnd(i)' = FrameEnd(i) /\ NextFrame(i)' = NextFrame(i)
                         /\ locals_frames'[FrameNo(i)'] = locals_frames[FrameNo(i)]
                         /\ FrameEnd(i)' <= locals_top'
  <2> TAKE i \in Framed'
  <2>1. FrameNo(i)' = FrameNo(i) /\ FrameNo(i) \in 1 .. m - 1 /\ acts'[i] = acts[i]
    BY <1>3, <1>5
  <2>2. locals_frames'[FrameNo(i)'] = locals_frames[FrameNo(i)]
    BY <1>7, <2>1
  <2>3. FrameEnd(i)' = FrameEnd(i)
    BY <2>1, <2>2 DEF FrameEnd
  <2>4. NextFrame(i)' = NextFrame(i)
    <3>0. FrameNo(i) < m
      BY <1>4, <2>1
    <3>1. CASE FrameNo(i) < m - 1
      <4>1. FrameNo(i) + 1 \in 1 .. m - 1
        BY <1>8, <2>1, <3>1
      <4> QED BY <1>7, <2>1, <3>0, <3>1, <4>1 DEF NextFrame
    <3>2. CASE FrameNo(i) = m - 1
      <4>1. FrameNo(i) + 1 = m /\ ~(FrameNo(i) < m - 1)
        BY <1>8, <3>2
      <4> QED BY <1>7, <2>1, <3>0, <4>1 DEF NextFrame
    <3> QED BY <1>8, <2>1, <3>1, <3>2
  <2>5. FrameEnd(i) <= locals_frames[FrameNo(n)]
    BY <1>1, <1>3, <1>5 DEF FramesApart
  <2> QED BY <1>4, <1>7, <2>2, <2>3, <2>4, <2>5
<1>10. Tiled'
  <2>1. Len(locals_frames') = Cardinality(Framed')
    <3>1. Cardinality(Framed \ {n}) = IF n \in Framed THEN m - 1 ELSE m
      BY <1>4, FS_RemoveElement
    <3>2. n \in Framed /\ Framed' = Framed \ {n}
      BY <1>3
    <3> QED BY <1>7, <3>1, <3>2
  <2>2. \A i \in Framed' : FrameEnd(i)' = NextFrame(i)'
    BY <1>1, <1>5, <1>9 DEF Tiled
  <2>3. locals_frames' # <<>> => locals_frames'[1] = 0 /\ fast_locals' = Last(locals_frames')
    <3>1. locals_frames' # <<>> => 1 \in 1 .. m - 1
      BY <1>7, <1>8, EmptySeq
    <3> QED BY <1>1, <1>2, <1>6, <1>7, <3>1 DEF Tiled
  <2> QED BY <2>1, <2>2, <2>3 DEF Tiled
<1>11. FramesApart'
  <2>1. \A i, j \in Framed' : i < j => FrameEnd(i)' <= locals_frames'[FrameNo(j)']
    BY <1>1, <1>5, <1>9 DEF FramesApart
  <2> QED BY <1>9, <2>1 DEF FramesApart
<1>12. FramesFit'
  <2>1. \A k \in 1 .. m - 1 : locals_frames'[k] <= (k - 1) * MaxFrame
    <3>1. \A k \in 1 .. m - 1 : k \in 1 .. m
      BY <1>4
    <3> QED BY <1>1, <1>7, <3>1 DEF FramesFit
  <2>2. locals_top' <= (m - 1) * MaxFrame
    BY <1>1, <1>7, <1>8 DEF FramesFit
  <2>3. locals_frames' = <<>> => locals_top' = 0 /\ fast_locals' <= MaxData
    <3>0. locals_frames' = <<>> => Len(locals_frames') = 0
      BY EmptySeq
    <3>1. locals_frames' = <<>> => m = 1
      BY <1>4, <1>7, <3>0
    <3>2. Len(data) <= MaxData
      BY OwnOperands
    <3> QED BY <1>1, <1>2, <1>6, <1>7, <3>1, <3>2 DEF Tiled
  <2> QED BY <1>7, <2>1, <2>2, <2>3 DEF FramesFit
<1>13. TypeOK'
  <2>1. fast_locals' \in Slot
    <3>1. CASE locals_frames' = <<>>
      <4>1. Len(data) \in Nat /\ Len(data) <= MaxData
        BY OwnOperands
      <4>2. Len(data) <= NLocals
        BY <4>1, SlotBound
      <4> QED BY <1>2, <3>1, <4>1, <4>2, SlotBound
    <3>2. CASE locals_frames' # <<>>
      BY <1>2, <1>7, <3>2, FrontSeq
    <3> QED BY <3>1, <3>2
  <2> QED BY <1>1, <1>2, <1>3, <1>7, <2>1 DEF TypeOK, globalVars
<1>14. FramesTile'
  BY <1>3, <1>10 DEF Tiled, CallsAgree, FramesTile
<1> QED BY <1>3, <1>5, <1>7, <1>11, <1>12, <1>13, <1>14 DEF IInv

LEMMA ReturnFastIInv ==
  ASSUME IInv, Return_Fast, NEW n, n = Len(acts)
  PROVE  IInv' /\ Framed' = Framed /\ n \notin Framed
<1>1. TypeOK /\ CallsAgree
  BY DEF IInv
<1>2. /\ ~Leaves(ip.fn) /\ Leave /\ UNCHANGED <<frameVars, data, locals, globalVars, alive>>
  BY DEF Return_Fast, Leave
<1>3. /\ n \in Nat /\ Framed' = Framed \ {n} /\ n \notin Framed
      /\ \A i \in 1 .. n - 1 : acts'[i] = acts[i]
      /\ acts' \in Seq(Activation)
      /\ ip' \in [fn : Code, left : Nat] /\ call_frames' \in Seq(Code)
      /\ CallsAgree' /\ AssignedOwn' /\ OperandsNest'
  BY <1>2, LeftActs
<1>4. Framed' = Framed
  BY <1>3
<1>5. \A i \in Framed : acts'[i].fn = acts[i].fn
  <2>1. \A i \in Framed : i \in 1 .. n - 1
    BY <1>1, <1>3, FramedFacts
  <2> QED BY <1>3, <2>1
<1>6. Tiled' /\ FramesApart' /\ FramesFit'
  BY <1>2, <1>4, <1>5, SameFrames
<1>7. FramesTile'
  BY <1>3, <1>6 DEF Tiled, CallsAgree, FramesTile
<1>8. TypeOK'
  BY <1>1, <1>2, <1>3 DEF TypeOK, frameVars, globalVars
<1> QED BY <1>3, <1>4, <1>6, <1>7, <1>8 DEF IInv

-----------------------------------------------------------------------------
(***************************************************************************)
(* Every state: types, and frames that tile the locals array.              *)
(***************************************************************************)
LEMMA StepIInv == IInv /\ [Next]_vars => IInv'
<1> SUFFICES ASSUME IInv, [Next]_vars PROVE IInv'
  OBVIOUS
<1>1. CASE UNCHANGED vars
  <2> USE <1>1 DEF vars, frameVars, globalVars
  <2>1. Framed' = Framed /\ Act' = Act
    BY DEF Framed, Act
  <2>2. \A i : FrameNo(i)' = FrameNo(i)
    BY <2>1 DEF FrameNo
  <2>3. \A i : FrameEnd(i)' = FrameEnd(i) /\ NextFrame(i)' = NextFrame(i)
    BY <2>2 DEF FrameEnd, NextFrame
  <2>4. TypeOK' /\ CallsAgree' /\ AssignedOwn'
    BY <2>1 DEF IInv, TypeOK, CallsAgree, AssignedOwn
  <2>5. OperandsNest'
    BY <2>1 DEF IInv, OperandsNest, Own, ArgumentsLeft
  <2>6. FramesTile' /\ FramesApart' /\ FramesFit'
    BY <2>1, <2>2, <2>3 DEF IInv, FramesTile, FramesApart, FramesFit
  <2> QED BY <2>4, <2>5, <2>6 DEF IInv
<1>2. CASE Literal \/ Dup_1 \/ Drop_1 \/ Swap_1
  BY <1>2, StacksIInv
<1>3. CASE (\E s \in VarSlot : Load_Local(s)) \/ (\E g \in Global : Load_Global(g))
  BY <1>3, LoadsIInv
<1>4. CASE (\E s \in VarSlot : Store_Local(s)) \/ StoreArgument
  BY <1>4, StoresIInv
<1>5. ASSUME NEW g \in Global, Store_Global(g) PROVE IInv'
  BY <1>5, StoreGlobalIInv
<1>6. ASSUME NEW f \in Fn, Call(f) \/ Call_Dyn(f) PROVE IInv'
  BY <1>6, CallsIInv
<1>7. CASE Alloc_Locals
  BY <1>7, AllocIInv
<1>8. CASE Return \/ Return_Fast
  BY <1>8, ReturnIInv, ReturnFastIInv
<1>9. CASE Collect
  BY <1>9, CollectIInv
<1>10. ASSUME NEW o \in Obj, NEW collects \in BOOLEAN, New(o, collects) PROVE IInv'
  BY <1>10, NewIInv
<1> QED BY <1>1, <1>2, <1>3, <1>4, <1>5, <1>6, <1>7, <1>8, <1>9, <1>10 DEF Next

\* Whatever calls whatever, the machine's stacks keep step with what the
\* compiler knows of each activation: frames and operands lie one above the
\* other, and a return uncovers those of its caller (Call, Alloc_Locals and
\* Return of vm.cpp).
THEOREM Invariance == Spec => []IInv
<1> QED BY InitIInv, StepIInv, PTL DEF Spec

\* Every value stays of its type: however functions call each other, an array
\* for MaxCalls frames of MaxFrame variables and the arguments under way is
\* never left (vm.cpp:833-1000).
THEOREM TypeCorrect == Spec => []TypeOK
<1>1. IInv => TypeOK
  BY DEF IInv
<1> QED BY Invariance, <1>1, PTL

\* The frames always tile the array, in call order, under the cached pointer
\* (vm.cpp:750-769, 991-1000).
THEOREM FramesAlwaysTile == Spec => []FramesTile
<1>1. IInv => FramesTile
  BY DEF IInv
<1> QED BY Invariance, <1>1, PTL

-----------------------------------------------------------------------------
(***************************************************************************)
(* Where the variables lie, when no array literal takes a slot that is not *)
(* counted: below locals_top, and never two in the same slot.              *)
(***************************************************************************)
LEMMA AssignedFramed ==
  ASSUME IInv, CountedSlots, NEW i \in 1 .. Len(acts), NEW s \in acts[i].assigned
  PROVE  i \in Framed /\ acts[i].fn \in Fn /\ s \in SlotsOf(acts[i].fn)
<1>1. TypeOK /\ CallsAgree /\ AssignedOwn
  BY DEF IInv
<1>2. acts[i].fn # "script" /\ s \in SlotsOf(acts[i].fn)
  BY <1>1 DEF AssignedOwn
<1>3. acts[i].fn \in Fn
  BY <1>1, <1>2, ActFacts DEF Code
<1>4. Leaves(acts[i].fn)
  <2>1. /\ source[acts[i].fn].decls \in Nat /\ source[acts[i].fn].literals = 0
        /\ LocalsToAllocate(acts[i].fn) \in Nat
        /\ source[acts[i].fn].decls <= LocalsToAllocate(acts[i].fn)
    BY <1>3, FunctionFacts DEF CountedSlots
  <2>2. source[acts[i].fn].decls > 0
    BY <1>2, <2>1 DEF SlotsOf
  <2>3. LocalsToAllocate(acts[i].fn) > 0
    BY <2>1, <2>2
  <2> QED BY <1>2, <2>3 DEF Leaves
<1> QED BY <1>1, <1>2, <1>3, <1>4 DEF AssignedOwn

\* Every frame but the first ends where a later one begins or at the top.
LEMMA FrameFacts ==
  ASSUME IInv, NEW i \in Framed
  PROVE  /\ FrameNo(i) \in 1 .. Len(locals_frames) /\ FrameNo(i) \in Nat
         /\ FrameBase(i) = locals_frames[FrameNo(i)] /\ FrameBase(i) \in Nat
         /\ acts[i].fn \in Fn /\ i \in 1 .. Len(acts)
         /\ FrameEnd(i) = FrameBase(i) + LocalsToAllocate(acts[i].fn)
         /\ LocalsToAllocate(acts[i].fn) \in Nat
<1>1. TypeOK /\ CallsAgree
  BY DEF IInv
<1>2. /\ FrameNo(i) \in Nat /\ FrameNo(i) >= 1 /\ FrameNo(i) <= Len(locals_frames)
      /\ Len(locals_frames) \in Nat
      /\ acts[i].fn \in Fn /\ i \in 1 .. Len(acts)
  <2>1. Len(locals_frames) = Cardinality(Framed)
    BY DEF IInv, FramesTile
  <2>2. i \in 1 .. Len(acts)
    BY <1>1, FramedFacts
  <2> QED BY <1>1, <2>1, <2>2, FramedFacts
<1>3. FrameNo(i) \in 1 .. Len(locals_frames)
  BY <1>2
<1>4. FrameBase(i) = locals_frames[FrameNo(i)]
  BY <1>2 DEF FrameBase
<1>5. FrameBase(i) \in Nat
  BY <1>1, <1>3, <1>4, ElementOfSeq, SlotBound DEF TypeOK
<1> QED BY <1>2, <1>3, <1>4, <1>5, FunctionFacts DEF FrameEnd

LEMMA RunningBase == IInv => FrameBase(Len(acts)) = fast_locals
<1> SUFFICES ASSUME IInv PROVE FrameBase(Len(acts)) = fast_locals
  OBVIOUS
<1>1. FrameNo(Len(acts)) = Len(locals_frames) /\ locals_frames \in Seq(Slot)
  BY FramedFacts DEF IInv, FramesTile, TypeOK
<1>2. CASE locals_frames = <<>>
  <2>1. FrameNo(Len(acts)) = 0
    BY <1>1, <1>2, EmptySeq
  <2> QED BY <2>1 DEF FrameBase
<1>3. CASE locals_frames # <<>>
  <2>1. FrameNo(Len(acts)) # 0
    BY <1>1, <1>3, EmptySeq
  <2> QED BY <1>1, <1>3, <2>1 DEF FrameBase, IInv, FramesTile, Last
<1> QED BY <1>2, <1>3

LEMMA VariablesInFrames ==
  ASSUME IInv, CountedSlots, NEW i \in Framed, NEW s \in SlotsOf(acts[i].fn)
  PROVE  /\ FrameBase(i) \in Nat /\ s \in Nat /\ FrameBase(i) + s \in Nat
         /\ FrameBase(i) + s < FrameEnd(i)
         /\ FrameBase(i) + s < locals_top /\ FrameBase(i) + s \in Slot
<1>1. /\ FrameBase(i) \in Nat /\ acts[i].fn \in Fn
      /\ FrameEnd(i) = FrameBase(i) + LocalsToAllocate(acts[i].fn)
      /\ LocalsToAllocate(acts[i].fn) \in Nat
  BY FrameFacts
<1>2. /\ source[acts[i].fn].decls \in Nat /\ source[acts[i].fn].literals = 0
      /\ source[acts[i].fn].decls <= LocalsToAllocate(acts[i].fn)
  BY <1>1, FunctionFacts DEF CountedSlots
<1>3. s \in Nat /\ s < source[acts[i].fn].decls
  BY <1>2 DEF SlotsOf
<1>4. FrameEnd(i) <= locals_top /\ locals_top \in Nat /\ locals_top <= NLocals
  BY SlotBound DEF IInv, FramesApart, TypeOK
<1>5. FrameBase(i) + s \in Nat /\ FrameBase(i) + s < FrameEnd(i)
  BY <1>1, <1>2, <1>3
<1>6. FrameEnd(i) \in Nat /\ NLocals \in Nat
  <2>1. NLocals \in Nat
    BY SlotBound
  <2> QED BY <1>1, <2>1
<1>7. FrameBase(i) + s < locals_top /\ FrameBase(i) + s <= NLocals
  BY <1>4, <1>5, <1>6
<1> QED BY <1>1, <1>3, <1>5, <1>7, SlotBound

LEMMA VariablesDistinct ==
  ASSUME IInv, CountedSlots, NEW i \in Framed, NEW j \in Framed, i < j,
         NEW s \in SlotsOf(acts[i].fn), NEW t \in SlotsOf(acts[j].fn)
  PROVE  FrameBase(i) + s # FrameBase(j) + t
<1>1. /\ FrameBase(i) + s \in Nat /\ FrameBase(i) + s < FrameEnd(i)
      /\ FrameBase(j) \in Nat /\ t \in Nat
  BY VariablesInFrames
<1>2. FrameEnd(i) <= FrameBase(j)
  BY FrameFacts DEF IInv, FramesApart
<1>3. FrameEnd(i) \in Nat
  BY FrameFacts
<1> QED BY <1>1, <1>2, <1>3

-----------------------------------------------------------------------------
(***************************************************************************)
(* What the program holds, one activation, operand and global at a time.   *)
(***************************************************************************)
HoldsOnly(A) ==
  /\ \A i \in 1 .. Len(acts) : \A s \in acts[i].assigned : locals[FrameBase(i) + s] \in A
  /\ \A k \in 1 .. Len(data) : data[k] \in A
  /\ \A g \in Global : globals[g] \in A

LEMMA HeldMeans ==
  ASSUME TypeOK
  PROVE  HeldAlive <=> HoldsOnly(alive \cup {Nil})
<1>1. (UNION {Assigned(i) : i \in 1 .. Len(acts)}) \subseteq alive \cup {Nil} <=>
        \A i \in 1 .. Len(acts) : \A s \in acts[i].assigned :
           locals[FrameBase(i) + s] \in alive \cup {Nil}
  BY DEF Assigned
<1>2. Range(data) \subseteq alive \cup {Nil} <=>
        \A k \in 1 .. Len(data) : data[k] \in alive \cup {Nil}
  BY DEF TypeOK, Range
<1>3. {globals[g] : g \in Global} \subseteq alive \cup {Nil} <=>
        \A g \in Global : globals[g] \in alive \cup {Nil}
  OBVIOUS
<1> QED BY <1>1, <1>2, <1>3 DEF HeldAlive, LocalsAlive, GlobalsAlive, HoldsOnly

LEMMA HeldMeansNext ==
  TypeOK' => (HeldAlive' <=> HoldsOnly(alive \cup {Nil})')
<1>1. TypeOK => (HeldAlive <=> HoldsOnly(alive \cup {Nil}))
  BY HeldMeans
<1> QED BY <1>1, PTL

LEMMA OperandsHeld ==
  ASSUME IInv, NEW A, HoldsOnly(A), Framed' = Framed,
         UNCHANGED <<frameVars, acts, locals>>,
         \A k \in 1 .. Len(data') : data'[k] \in A,
         \A g \in Global : globals'[g] \in A
  PROVE  HoldsOnly(A)'
<1>1. \A i : FrameBase(i)' = FrameBase(i)
  BY DEF FrameBase, FrameNo, frameVars
<1> QED BY <1>1 DEF HoldsOnly

\* The elements of the data stack after a push and after a pop.
LEMMA TopHeld ==
  ASSUME IInv, NEW A, HoldsOnly(A)
  PROVE  /\ \A v : v \in A /\ v \in Value =>
              \A k \in 1 .. Len(Append(data, v)) : Append(data, v)[k] \in A
         /\ Own >= 1 => /\ Last(data) \in A
                        /\ \A k \in 1 .. Len(Front(data)) : Front(data)[k] \in A
<1>1. data \in Seq(Value) /\ Len(data) \in Nat
  BY OwnOperands
<1>2. \A k \in 1 .. Len(data) : data[k] \in A
  BY DEF HoldsOnly
<1>3. ASSUME NEW v \in Value, v \in A
      PROVE \A k \in 1 .. Len(Append(data, v)) : Append(data, v)[k] \in A
  <2> DEFINE q == Append(data, v)
  <2>1. /\ Len(q) = Len(data) + 1 /\ q[Len(data) + 1] = v
        /\ \A k \in 1 .. Len(data) : q[k] = data[k]
    BY <1>1, <1>3, AppendProperties
  <2> HIDE DEF q
  <2>2. \A k \in 1 .. Len(q) : k \in 1 .. Len(data) \/ k = Len(data) + 1
    BY <1>1, <2>1
  <2>3. \A k \in 1 .. Len(q) : q[k] \in A
    BY <1>2, <1>3, <2>1, <2>2
  <2> QED BY <2>3 DEF q
<1>4. ASSUME Own >= 1
      PROVE  Last(data) \in A /\ \A k \in 1 .. Len(Front(data)) : Front(data)[k] \in A
  <2> DEFINE q == Front(data)
  <2>1. /\ Len(q) = Len(data) - 1 /\ \A k \in 1 .. Len(data) - 1 : q[k] = data[k]
        /\ Last(data) = data[Len(data)] /\ Len(data) # 0
    BY <1>4, OwnOperands, EmptySeq
  <2>2. Len(data) \in 1 .. Len(data) /\ \A k \in 1 .. Len(data) - 1 : k \in 1 .. Len(data)
    BY <1>1, <2>1
  <2> HIDE DEF q
  <2>3. Last(data) \in A /\ \A k \in 1 .. Len(q) : q[k] \in A
    BY <1>2, <2>1, <2>2
  <2> QED BY <2>3 DEF q
<1> QED BY <1>3, <1>4

LEMMA ComputeHolds ==
  ASSUME IInv, NEW A, HoldsOnly(A), Nil \in A, CountedSlots,
         \/ Literal \/ Dup_1 \/ Drop_1 \/ Swap_1
         \/ \E s \in VarSlot : Load_Local(s)
         \/ \E g \in Global : Load_Global(g) \/ Store_Global(g)
  PROVE  HoldsOnly(A)'
<1>1. Framed' = Framed
  BY StacksIInv, LoadsIInv, StoreGlobalIInv
<1>2. /\ \A k \in 1 .. Len(data) : data[k] \in A
      /\ \A g \in Global : globals[g] \in A
      /\ \A i \in 1 .. Len(acts) : \A s \in acts[i].assigned : locals[FrameBase(i) + s] \in A
  BY DEF HoldsOnly
<1>3. ASSUME NEW ops, Operate(ops), \A k \in 1 .. Len(ops) : ops[k] \in A
      PROVE  HoldsOnly(A)'
  BY <1>1, <1>2, <1>3, OperandsHeld DEF Operate, globalVars
<1>4. ASSUME NEW v \in Value, v \in A, Operate(Append(data, v))
      PROVE  HoldsOnly(A)'
  BY <1>3, <1>4, TopHeld
<1>5. CASE Literal
  BY <1>4, <1>5 DEF Literal, Value
<1>6. CASE Dup_1
  BY <1>4, <1>6, TopHeld, OwnOperands DEF Dup_1
<1>7. CASE Drop_1
  BY <1>3, <1>7, TopHeld DEF Drop_1
<1>8. CASE Swap_1
  <2> DEFINE n == Len(data)
             two == [data EXCEPT ![n] = data[n - 1], ![n - 1] = data[n]]
  <2>1. data \in Seq(Value) /\ n \in 1 .. n /\ n - 1 \in 1 .. n
    BY <1>8, OwnOperands DEF Swap_1
  <2>2. /\ Len(two) = n
        /\ \A k \in 1 .. n : two[k] \in {data[n], data[n - 1], data[k]}
    <3>1. DOMAIN two = 1 .. n
      BY <2>1
    <3>2. Len(two) = n
      BY <2>1, <3>1
    <3> QED BY <2>1, <3>2
  <2>3. Operate(two)
    BY <1>8 DEF Swap_1
  <2> HIDE DEF two
  <2> QED BY <1>2, <1>3, <2>1, <2>2, <2>3
<1>9. ASSUME NEW s \in VarSlot, Load_Local(s)
      PROVE  HoldsOnly(A)'
  <2>1. /\ Len(acts) \in 1 .. Len(acts) /\ Act = acts[Len(acts)]
        /\ s \in Act.assigned
    BY <1>9, ActFacts DEF Load_Local, IInv
  <2>2. locals[fast_locals + s] \in A
    BY <1>2, <2>1, RunningBase
  <2>3. locals[fast_locals + s] \in Value
    <3>1. /\ Len(acts) \in Framed /\ s \in SlotsOf(acts[Len(acts)].fn)
      BY <2>1, AssignedFramed
    <3>2. fast_locals + s \in Slot
      BY <3>1, VariablesInFrames, RunningBase
    <3> QED BY <3>2 DEF IInv, TypeOK
  <2> QED BY <1>4, <1>9, <2>2, <2>3 DEF Load_Local
<1>10. ASSUME NEW g \in Global, Load_Global(g)
       PROVE  HoldsOnly(A)'
  <2>1. globals[g] \in Value
    BY DEF IInv, TypeOK
  <2> QED BY <1>2, <1>4, <1>10, <2>1 DEF Load_Global
<1>11. ASSUME NEW g \in Global, Store_Global(g)
       PROVE  HoldsOnly(A)'
  <2>1. Last(data) \in A /\ \A k \in 1 .. Len(Front(data)) : Front(data)[k] \in A
    BY <1>11, TopHeld DEF Store_Global
  <2>2. /\ data' = Front(data) /\ globals' = [globals EXCEPT ![g] = Last(data)]
        /\ UNCHANGED <<frameVars, acts, locals>>
    BY <1>11 DEF Store_Global
  <2>3. \A h \in Global : globals'[h] \in A
    BY <1>2, <2>1, <2>2 DEF IInv, TypeOK
  <2> QED BY <1>1, <2>1, <2>2, <2>3, OperandsHeld
<1> QED BY <1>5, <1>6, <1>7, <1>8, <1>9, <1>10, <1>11

LEMMA StoreHolds ==
  ASSUME IInv, CountedSlots, NEW A, HoldsOnly(A), NEW s \in SlotsOf(ip.fn), ip.fn # "script",
         StoreTop(s), Framed' = Framed, Own >= 1
  PROVE  HoldsOnly(A)'
<1>1. s \in VarSlot /\ fast_locals + s \in Slot
  BY VariableInArray
<1>2. /\ Len(acts') = Len(acts)
      /\ \A i \in 1 .. Len(acts) :
             acts'[i].assigned = IF i = Len(acts) THEN acts[i].assigned \cup {s}
                                 ELSE acts[i].assigned
  BY <1>1, StoredActs DEF StoreTop
<1>3. \A i : FrameBase(i)' = FrameBase(i)
  BY DEF FrameBase, FrameNo, frameVars, StoreTop
<1>4. /\ locals' = [locals EXCEPT ![fast_locals + s] = Last(data)]
      /\ locals \in [Slot -> Value] /\ data' = Front(data) /\ globals' = globals
  BY DEF StoreTop, IInv, TypeOK, globalVars
<1>5. /\ Last(data) \in A /\ \A k \in 1 .. Len(Front(data)) : Front(data)[k] \in A
  BY TopHeld
<1>6. ASSUME NEW i \in 1 .. Len(acts), NEW t \in acts'[i].assigned
      PROVE  locals'[FrameBase(i) + t] \in A
  <2>1. CASE t \in acts[i].assigned
    <3>1. FrameBase(i) + t \in Slot
      BY <2>1, AssignedFramed, VariablesInFrames
    <3>2. locals[FrameBase(i) + t] \in A
      BY <2>1 DEF HoldsOnly
    <3> QED BY <1>4, <1>5, <3>1, <3>2
  <2>2. CASE t \notin acts[i].assigned
    <3>1. i = Len(acts) /\ t = s
      BY <1>2, <2>2
    <3>2. FrameBase(i) = fast_locals
      BY <3>1, RunningBase
    <3> QED BY <1>1, <1>4, <1>5, <3>1, <3>2
  <2> QED BY <2>1, <2>2
<1> QED BY <1>2, <1>3, <1>4, <1>5, <1>6 DEF HoldsOnly

LEMMA CallHolds ==
  ASSUME IInv, CountedSlots, NEW A, HoldsOnly(A), NEW f \in Fn, Call(f) \/ Call_Dyn(f)
  PROVE  HoldsOnly(A)'
<1>1. Framed' = Framed
  BY CallsIInv
<1>2. \A i : FrameBase(i)' = FrameBase(i)
  BY <1>1 DEF FrameBase, FrameNo, frameVars, Call, Call_Dyn, Enter
<1>3. ASSUME NEW operands \in Seq(Value), Len(operands) <= Len(data), Enter(f, operands),
             \A k \in 1 .. Len(operands) : operands[k] \in A
      PROVE  HoldsOnly(A)'
  <2>1. /\ Len(acts') = Len(acts) + 1
        /\ \A i \in 1 .. Len(acts) : acts'[i] = acts[i]
        /\ acts'[Len(acts) + 1].assigned = {} /\ Len(acts) \in Nat
    BY <1>3, EnteredActs, ActFacts DEF IInv
  <2>2. data' = operands /\ locals' = locals /\ globals' = globals
    BY <1>3 DEF Enter, globalVars
  <2>3. \A i \in 1 .. Len(acts') : i \in 1 .. Len(acts) \/ i = Len(acts) + 1
    BY <2>1
  <2> QED BY <1>2, <1>3, <2>1, <2>2, <2>3 DEF HoldsOnly
<1>4. CASE Call(f)
  BY <1>3, <1>4, OwnOperands DEF Call, HoldsOnly
<1>5. CASE Call_Dyn(f)
  <2>1. Own >= 1 /\ Enter(f, Front(data))
    BY <1>5 DEF Call_Dyn
  <2>2. Front(data) \in Seq(Value) /\ Len(Front(data)) <= Len(data)
    <3>1. Front(data) \in Seq(Value) /\ Len(Front(data)) = Len(data) - 1 /\ Len(data) \in Nat
      BY <2>1, OwnOperands
    <3> QED BY <3>1
  <2> QED BY <1>3, <2>1, <2>2, TopHeld
<1> QED BY <1>4, <1>5

\* A frame that is there before and after stays where it is.
LEMMA KeptBases ==
  ASSUME IInv, Alloc_Locals \/ Return \/ Return_Fast, NEW i \in Framed, i \in Framed'
  PROVE  FrameBase(i)' = FrameBase(i)
<1>0. PICK n : n = Len(acts)
  OBVIOUS
<1>1. /\ FrameNo(i) \in 1 .. Len(locals_frames) /\ FrameBase(i) = locals_frames[FrameNo(i)]
      /\ i \in 1 .. n /\ n \in Nat
  BY <1>0, FrameFacts, ActFacts DEF IInv
<1>2. ASSUME FrameNo(i)' = FrameNo(i), locals_frames'[FrameNo(i)] = locals_frames[FrameNo(i)]
      PROVE  FrameBase(i)' = FrameBase(i)
  <2>1. FrameNo(i)' # 0
    BY <1>1, <1>2
  <2> QED BY <1>1, <1>2, <2>1 DEF FrameBase
<1>3. CASE Alloc_Locals
  <2>1. n \notin Framed /\ \A j \in 1 .. n - 1 : FrameNo(j)' = FrameNo(j)
    BY <1>0, <1>3, AllocIInv
  <2>2. i \in 1 .. n - 1
    BY <1>1, <2>1
  <2>3. locals_frames'[FrameNo(i)] = locals_frames[FrameNo(i)]
    <3>1. locals_frames' = Append(locals_frames, locals_top)
      BY <1>3 DEF Alloc_Locals
    <3> QED BY <1>1, <3>1, AppendProperties DEF IInv, TypeOK
  <2> QED BY <1>2, <2>1, <2>2, <2>3
<1>4. CASE Return
  <2>1. Framed' = Framed \ {n} /\ \A j \in 1 .. n - 1 : FrameNo(j)' = FrameNo(j)
    BY <1>0, <1>4, LeftActs DEF Return
  <2>2. i \in 1 .. n - 1
    <3>1. i # n
      BY <2>1
    <3> QED BY <1>1, <3>1
  <2>3. locals_frames'[FrameNo(i)] = locals_frames[FrameNo(i)]
    BY <1>0, <1>4, ReturnIInv
  <2> QED BY <1>2, <2>1, <2>2, <2>3
<1>5. CASE Return_Fast
  BY <1>0, <1>5, ReturnFastIInv DEF FrameBase, FrameNo, Return_Fast, frameVars
<1> QED BY <1>3, <1>4, <1>5

LEMMA FrameHolds ==
  ASSUME IInv, CountedSlots, NEW A, HoldsOnly(A), Alloc_Locals \/ Return \/ Return_Fast
  PROVE  HoldsOnly(A)'
<1>0. PICK n : n = Len(acts)
  OBVIOUS
<1>1. \A i \in 1 .. n : \A s \in acts[i].assigned : i \in Framed /\ locals[FrameBase(i) + s] \in A
  BY <1>0, AssignedFramed DEF HoldsOnly
<1>2. /\ \A k \in 1 .. Len(data) : data[k] \in A
      /\ \A g \in Global : globals[g] \in A
  BY DEF HoldsOnly
<1>3. \A i \in Framed : i \in Framed' => FrameBase(i)' = FrameBase(i)
  BY KeptBases
<1>4. CASE Alloc_Locals
  <2>1. Framed' = Framed \cup {n}
    BY <1>0, <1>4, AllocIInv
  <2>2. UNCHANGED <<data, locals, globals, acts>>
    BY <1>4 DEF Alloc_Locals, globalVars
  <2>3. \A i \in 1 .. n : \A s \in acts[i].assigned : locals[FrameBase(i)' + s] \in A
    BY <1>1, <1>3, <2>1
  <2> QED BY <1>0, <1>2, <2>2, <2>3 DEF HoldsOnly
<1>5. CASE Return \/ Return_Fast
  <2>1. /\ n \in Nat /\ Len(acts') = n - 1 /\ Framed' = Framed \ {n}
        /\ \A i \in 1 .. n - 1 : acts'[i] = acts[i]
        /\ data' = data /\ locals' = locals /\ globals' = globals
    BY <1>0, <1>5, LeftActs DEF Return, Return_Fast, Leave, globalVars
  <2>2. ASSUME NEW i \in 1 .. n - 1, NEW s \in acts'[i].assigned
        PROVE  locals[FrameBase(i)' + s] \in A
    <3>1. i \in 1 .. n /\ i # n
      BY <2>1
    <3>2. i \in Framed /\ i \in Framed' /\ locals[FrameBase(i) + s] \in A
      BY <1>1, <2>1, <2>2, <3>1
    <3> QED BY <1>3, <3>2
  <2> QED BY <1>2, <2>1, <2>2 DEF HoldsOnly
<1> QED BY <1>4, <1>5

\* A collection takes its roots from places that cover everything held.
LEMMA RootsCover ==
  ASSUME IInv, LiveIInv, CountedSlots, GlobalsScanned, MayCollect
  PROVE  HoldsOnly((alive \cap Roots) \cup {Nil})
<1>1. HoldsOnly(alive \cup {Nil})
  BY HeldMeans DEF IInv, LiveIInv
<1>2. ASSUME NEW i \in 1 .. Len(acts), NEW s \in acts[i].assigned
      PROVE  locals[FrameBase(i) + s] \in (alive \cap Roots) \cup {Nil}
  <2>1. FrameBase(i) + s \in Slot /\ FrameBase(i) + s < locals_top
    BY AssignedFramed, VariablesInFrames
  <2>2. locals[FrameBase(i) + s] \in Roots
    BY <2>1 DEF Roots
  <2> QED BY <1>1, <2>2 DEF HoldsOnly
<1>3. ASSUME NEW k \in 1 .. Len(data)
      PROVE  data[k] \in (alive \cap Roots) \cup {Nil}
  BY <1>1 DEF HoldsOnly, Roots
<1>4. ASSUME NEW g \in Global
      PROVE  globals[g] \in (alive \cap Roots) \cup {Nil}
  <2>1. CASE g \in RefGlobals
    <3>1. g \in Nat /\ CollectFrom \in Nat /\ globals_top \in Nat
      BY VMAssumption DEF Global, IInv, TypeOK
    <3>2. g < globals_top
      BY <2>1, <3>1 DEF GlobalsScanned, MayCollect
    <3>3. globals[g] \in Roots
      BY <3>2 DEF Roots
    <3> QED BY <1>1, <3>3 DEF HoldsOnly
  <2>2. CASE g \notin RefGlobals
    BY <2>2 DEF LiveIInv, OnlyRefGlobals
  <2> QED BY <2>1, <2>2
<1> QED BY <1>2, <1>3, <1>4 DEF HoldsOnly

LEMMA CollectHolds ==
  ASSUME IInv, LiveIInv, CountedSlots, GlobalsScanned, Collect
  PROVE  HoldsOnly(alive \cup {Nil})'
<1> PICK A : A = (alive \cap Roots) \cup {Nil}
  OBVIOUS
<1>1. HoldsOnly(A)
  BY RootsCover DEF Collect
<1>2. Framed' = Framed
  BY CollectIInv
<1>3. HoldsOnly(A)'
  <2>1. UNCHANGED <<frameVars, acts, locals>> /\ data' = data /\ globals' = globals
    BY DEF Collect, globalVars
  <2>2. /\ \A k \in 1 .. Len(data) : data[k] \in A
        /\ \A g \in Global : globals[g] \in A
    BY <1>1 DEF HoldsOnly
  <2> QED BY <1>1, <1>2, <2>1, <2>2, OperandsHeld
<1>4. A = alive' \cup {Nil}
  BY DEF Collect
<1> QED BY <1>3, <1>4

LEMMA NewHolds ==
  ASSUME IInv, LiveIInv, CountedSlots, GlobalsScanned,
         NEW o \in Obj, NEW collects \in BOOLEAN, New(o, collects)
  PROVE  HoldsOnly(alive \cup {Nil})'
<1> PICK A, kept : /\ kept = IF collects THEN alive \cap Roots ELSE alive
                   /\ A = kept \cup {o, Nil}
  OBVIOUS
<1>1. HoldsOnly(kept \cup {Nil})
  <2>1. CASE collects
    BY <2>1, RootsCover DEF New
  <2>2. CASE ~collects
    BY <2>2, HeldMeans DEF IInv, LiveIInv
  <2> QED BY <2>1, <2>2
<1>2. HoldsOnly(A)
  BY <1>1 DEF HoldsOnly
<1>3. Framed' = Framed
  BY NewIInv
<1>4. UNCHANGED <<frameVars, acts, locals>> /\ data' = Append(data, o) /\ globals' = globals
  BY DEF New, globalVars
<1>5. o \in A /\ o \in Value
  BY DEF Value
<1>6. HoldsOnly(A)'
  <2>1. \A k \in 1 .. Len(Append(data, o)) : Append(data, o)[k] \in A
    BY <1>2, <1>5, TopHeld
  <2>2. \A g \in Global : globals[g] \in A
    BY <1>2 DEF HoldsOnly
  <2> QED BY <1>2, <1>3, <1>4, <2>1, <2>2, OperandsHeld
<1>7. A = alive' \cup {Nil}
  BY DEF New
<1> QED BY <1>6, <1>7

LEMMA StepLive ==
  ASSUME CountedSlots, GlobalsScanned, IInv, LiveIInv, [Next]_vars
  PROVE  LiveIInv'
<1> PICK A : A = alive \cup {Nil}
  OBVIOUS
<1>1. HoldsOnly(A) /\ Nil \in A
  BY HeldMeans DEF IInv, LiveIInv
<1>2. TypeOK'
  BY StepIInv DEF IInv
<1>3. HoldsOnly(alive \cup {Nil})' => HeldAlive'
  BY <1>2, HeldMeansNext
<1>4. ASSUME HoldsOnly(A)', alive' = alive PROVE HeldAlive'
  BY <1>3, <1>4
<1>5. ASSUME globals' = globals, HeldAlive' PROVE LiveIInv'
  BY <1>5 DEF LiveIInv, OnlyRefGlobals
<1>6. CASE UNCHANGED vars
  <2>1. Framed' = Framed
    BY <1>6 DEF Framed, vars
  <2>2. HoldsOnly(A)'
    <3>1. /\ \A k \in 1 .. Len(data) : data[k] \in A
          /\ \A g \in Global : globals[g] \in A
      BY <1>1 DEF HoldsOnly
    <3> QED BY <1>1, <1>6, <2>1, <3>1, OperandsHeld DEF vars, globalVars
  <2> QED BY <1>4, <1>5, <1>6, <2>2 DEF vars, globalVars
<1>7. CASE \/ Literal \/ Dup_1 \/ Drop_1 \/ Swap_1
           \/ \E s \in VarSlot : Load_Local(s)
           \/ \E g \in Global : Load_Global(g)
  <2>1. HoldsOnly(A)'
    BY <1>1, <1>7, ComputeHolds
  <2>2. alive' = alive /\ globals' = globals
    BY <1>7 DEF Literal, Dup_1, Drop_1, Swap_1, Load_Local, Load_Global, Operate, globalVars
  <2> QED BY <1>4, <1>5, <2>1, <2>2
<1>8. ASSUME NEW g \in Global, Store_Global(g) PROVE LiveIInv'
  <2>1. HoldsOnly(A)'
    BY <1>1, <1>8, ComputeHolds
  <2>2. alive' = alive /\ globals' = [globals EXCEPT ![g] = Last(data)]
        /\ (Last(data) = Nil \/ g \in RefGlobals)
    BY <1>8 DEF Store_Global
  <2>3. OnlyRefGlobals'
    BY <2>2 DEF LiveIInv, OnlyRefGlobals, IInv, TypeOK
  <2> QED BY <1>4, <2>1, <2>2, <2>3 DEF LiveIInv
<1>9. CASE (\E s \in VarSlot : Store_Local(s)) \/ StoreArgument
  <2>1. Framed' = Framed
    BY <1>9, StoresIInv
  <2>2. PICK s : s \in SlotsOf(ip.fn) /\ ip.fn # "script" /\ StoreTop(s) /\ Own >= 1
    <3>1. CASE \E s \in VarSlot : Store_Local(s)
      BY <3>1 DEF Store_Local
    <3>2. CASE StoreArgument
      <4>1. /\ ip.fn \in Fn /\ ip.left \in Nat /\ ip.left >= 1 /\ ip.left <= source[ip.fn].params
            /\ StoreTop(ip.left - 1) /\ ip.fn # "script"
            /\ source[ip.fn].params \in Nat
        <5>1. ip.fn \in Fn
          BY <3>2, ActFacts DEF StoreArgument, IInv
        <5> QED BY <3>2, <5>1, FunctionFacts DEF StoreArgument
      <4>2. /\ source[ip.fn].decls \in Nat /\ source[ip.fn].literals \in Nat
            /\ source[ip.fn].params <= source[ip.fn].decls
        BY <4>1, FunctionFacts
      <4>3. ip.left - 1 \in SlotsOf(ip.fn)
        BY <4>1, <4>2 DEF SlotsOf
      <4>4. Own >= 1
        <5>1. Own = ip.left
          BY <4>1 DEF IInv, OperandsNest, ArgumentsLeft
        <5> QED BY <4>1, <5>1
      <4> QED BY <4>1, <4>3, <4>4
    <3> QED BY <1>9, <3>1, <3>2
  <2>3. HoldsOnly(A)'
    BY <1>1, <2>1, <2>2, StoreHolds
  <2>4. alive' = alive /\ globals' = globals
    BY <2>2 DEF StoreTop, globalVars
  <2> QED BY <1>4, <1>5, <2>3, <2>4
<1>10. ASSUME NEW f \in Fn, Call(f) \/ Call_Dyn(f) PROVE LiveIInv'
  <2>1. HoldsOnly(A)'
    BY <1>1, <1>10, CallHolds
  <2>2. alive' = alive /\ globals' = globals
    BY <1>10 DEF Call, Call_Dyn, Enter, globalVars
  <2> QED BY <1>4, <1>5, <2>1, <2>2
<1>11. CASE Alloc_Locals \/ Return \/ Return_Fast
  <2>1. HoldsOnly(A)'
    BY <1>1, <1>11, FrameHolds
  <2>2. alive' = alive /\ globals' = globals
    BY <1>11 DEF Alloc_Locals, Return, Return_Fast, Leave, globalVars
  <2> QED BY <1>4, <1>5, <2>1, <2>2
<1>12. CASE Collect
  <2>1. globals' = globals
    BY <1>12 DEF Collect, globalVars
  <2> QED BY <1>3, <1>5, <1>12, <2>1, CollectHolds
<1>13. ASSUME NEW o \in Obj, NEW collects \in BOOLEAN, New(o, collects) PROVE LiveIInv'
  <2>1. globals' = globals
    BY <1>13 DEF New, globalVars
  <2> QED BY <1>3, <1>5, <1>13, <2>1, NewHolds
<1> QED
  BY <1>6, <1>7, <1>8, <1>9, <1>10, <1>11, <1>12, <1>13 DEF Next

LEMMA InitLive == Init => LiveIInv
<1> SUFFICES ASSUME Init PROVE LiveIInv
  OBVIOUS
<1>1. IInv
  BY InitIInv
<1>2. Len(acts) = 1 /\ acts[1].assigned = {} /\ Len(data) = 0 /\ globals = [g \in Global |-> Nil]
  BY DEF Init
<1>3. HoldsOnly(alive \cup {Nil})
  BY <1>2 DEF HoldsOnly
<1> QED BY <1>1, <1>2, <1>3, HeldMeans DEF IInv, LiveIInv, OnlyRefGlobals

\* Nothing that the program can still use is ever collected, in a program none
\* of whose array literals takes an uncounted slot and none of whose reference
\* globals lies at or above globals_top when a collection runs (gc.cpp:143-160).
THEOREM HeldStaysAlive ==
  ASSUME CountedSlots, GlobalsScanned
  PROVE  Spec => []HeldAlive
<1>1. Init => IInv /\ LiveIInv
  BY InitIInv, InitLive
<1>2. (IInv /\ LiveIInv) /\ [Next]_vars => (IInv /\ LiveIInv)'
  BY StepIInv, StepLive
<1>3. IInv /\ LiveIInv => HeldAlive
  BY DEF LiveIInv
<1> QED BY <1>1, <1>2, <1>3, PTL DEF Spec
=============================================================================
