------------------------- MODULE MalangGC_live_proofs ------------------------
(***************************************************************************)
(* The collector never frees what the program can reach.  Marking keeps    *)
(* the tri-colour invariant, so when it ends the objects that are not      *)
(* white are closed under references and include the managed roots; the    *)
(* sweep frees white objects only, and the program cannot reach more than  *)
(* it did before.                                                          *)
(***************************************************************************)
EXTENDS MalangGC_proofs

-----------------------------------------------------------------------------
(* Reachability.                                                           *)

\* What the program reaches is closed under the fields it has stored into.
LEMMA LiveClosed ==
  ASSUME TypeOK
  PROVE  /\ Live \subseteq Node
         /\ Referenced \subseteq Live
         /\ ClosedStored(Live)
<1>1. Live \subseteq Node /\ Referenced \subseteq Live
  BY DEF Live, Referenced
<1>2. ASSUME NEW n \in Live, NEW f \in Field, StoredField(n, f) # Nil
      PROVE  StoredField(n, f) \in Live
  <2>1. StoredField(n, f) \in Node
    BY <1>1, <1>2 DEF StoredField, TypeOK, Value
  <2>2. ASSUME NEW S \in SUBSET Node, Referenced \subseteq S, ClosedStored(S)
        PROVE  StoredField(n, f) \in S
    <3>1. n \in S
      BY <2>2 DEF Live
    <3> QED
      BY <3>1, <2>2, <1>2 DEF ClosedStored
  <2> QED
    BY <2>1, <2>2 DEF Live
<1>3. ClosedStored(Live)
  BY <1>2 DEF ClosedStored
<1> QED
  BY <1>1, <1>3

\* What the program holds is live.
LEMMA HeldLive == ASSUME TypeOK PROVE Held \subseteq Live
<1>1. Held \subseteq Referenced
  BY DEF Held, Referenced, TypeOK, Value
<1> QED
  BY <1>1, LiveClosed

\* A set that contains the roots and is closed contains all that is live.
LEMMA LiveLeast ==
  ASSUME NEW S \in SUBSET Node, Referenced \subseteq S, ClosedStored(S)
  PROVE  Live \subseteq S
BY DEF Live

LEMMA LiveLeastNext ==
  ASSUME NEW S \in SUBSET Node, Referenced' \subseteq S, ClosedStored(S)'
  PROVE  Live' \subseteq S
BY DEF Live

LEMMA InUseLeast ==
  ASSUME NEW S \in SUBSET Node, Rooted \subseteq S, Closed(S)
  PROVE  InUse \subseteq S
BY DEF InUse

\* Dropping references from fields makes nothing reachable.
LEMMA ReachFewer ==
  ASSUME TypeOK, root' = root, managed' = managed,
         \A n \in Node, f \in Field : field'[n][f] \in {field[n][f], Nil},
         \A n \in Node, f \in Field : StoredField(n, f)' \in {StoredField(n, f), Nil}
  PROVE  Live' \subseteq Live /\ InUse' \subseteq InUse
<1>1. Live' \subseteq Live
  <2>1. Referenced' = Referenced
    BY DEF Referenced
  <2>2. PICK L \in SUBSET Node : L = Live
    BY LiveClosed
  <2>3. ClosedStored(L)'
    BY <2>2, LiveClosed DEF ClosedStored
  <2>4. Referenced' \subseteq L
    BY <2>1, <2>2, LiveClosed
  <2>5. Live' \subseteq L
    BY <2>3, <2>4, LiveLeastNext
  <2> QED
    BY <2>2, <2>5
<1>2. InUse' \subseteq InUse
  <2>1. Rooted' = Rooted
    BY DEF Rooted
  <2>2. ASSUME NEW S \in SUBSET Node, Closed(S) PROVE Closed(S)'
    BY <2>2 DEF Closed
  <2> QED
    BY <2>1, <2>2 DEF InUse
<1> QED
  BY <1>1, <1>2

-----------------------------------------------------------------------------
(* Fields of what is not in use.                                           *)

LEMMA EmptyFieldsNext ==
  TypeOK /\ PhaseInv /\ EmptyFields /\ LiveInv /\ [Next]_vars => EmptyFields'
<1> SUFFICES ASSUME TypeOK, PhaseInv, EmptyFields, LiveInv, [Next]_vars
             PROVE  EmptyFields'
  OBVIOUS
<1> USE DEF objectVars
<1>1. CASE fault' # "none"
  BY <1>1 DEF EmptyFields
<1>2. CASE UNCHANGED <<tag, freed, field>> /\ fault = "none"
  BY <1>2 DEF EmptyFields
<1>3. CASE UNCHANGED vars
  BY <1>3 DEF vars, EmptyFields
<1>4. ASSUME NEW n \in Node, NEW f \in Field, NEW v \in Value, Store(n, f, v)
      PROVE  EmptyFields'
  <2>1. /\ pc = "idle" /\ fault = "none" /\ n \in Held /\ tag[n] # "Buffer"
        /\ UNCHANGED <<tag, freed>> /\ field' = [field EXCEPT ![n][f] = v]
    BY <1>4 DEF Store, Running
  <2>2. ~freed[n]
    BY <2>1, HeldLive DEF LiveInv, PhaseInv
  <2> QED
    BY <2>1, <2>2 DEF EmptyFields, TypeOK
<1>5. ASSUME NEW n \in Node, BodyFreed(n), UNCHANGED tag, fault = "none"
      PROVE  EmptyFields'
  BY <1>5 DEF BodyFreed, EmptyFields, TypeOK
<1>6. CASE SweepFree
  <2>1. raw[cursor] \in Node
    BY <1>6, ElementOfSeq DEF SweepFree, TypeOK
  <2> QED
    BY <1>1, <1>5, <1>6, <2>1 DEF SweepFree
<1>7. ASSUME NEW n \in Node, NEW contents \in [Field -> Value],
             TakeObject(n, contents)
      PROVE  EmptyFields'
  <2>1. /\ fault = "none"
        /\ tag' = [tag EXCEPT ![n] = request.tag]
        /\ freed' = [freed EXCEPT ![n] = FALSE]
        /\ field' = [field EXCEPT
             ![n] = IF request.tag = "Buffer" THEN NoFields ELSE contents]
    BY <1>7 DEF TakeObject, Construct
  <2> QED
    BY <2>1 DEF EmptyFields, TypeOK
<1>8. ASSUME NEW n \in Node, Deallocate(n) PROVE EmptyFields'
  BY <1>1, <1>2, <1>5, <1>8 DEF Deallocate, Running
<1> QED
  BY <1>1, <1>2, <1>3, <1>4, <1>6, <1>7, <1>8
  DEF Next, Program, Collector, Host, Ended, Running, Move, Load, Paused, Allocate,
      ManualRun, Exit, MarkRoot, MarkField, MarkReturn, MarkEnd, SweepKeep,
      SweepEnd, OutOfMemory, Manage, Unmanage

-----------------------------------------------------------------------------
(* Marking.                                                                *)

\* A call of gc_mark that does not crash passes by, blackens an object that
\* refers to nothing, or activates one that is white and in use.
LEMMA GcMarkCases ==
  ASSUME TypeOK, NEW n \in Node, NEW s \in Seq(Frame), GcMark(n, s),
         fault' = "none"
  PROVE  \/ color[n] # "white" /\ tag[n] # "Buffer" /\ color' = color /\ stack' = s
         \/ /\ tag[n] = "Buffer" \/ (freed[n] /\ color[n] = "white")
            /\ color' = [color EXCEPT ![n] = "black"]
            /\ stack' = s
         \/ /\ color[n] = "white" /\ tag[n] # "Buffer" /\ ~freed[n]
            /\ color' = [color EXCEPT ![n] = "grey"]
            /\ stack' = Push(s, n)
BY DEF GcMark

\* Such a call restores the tri-colour invariant when the only passed field
\* that may refer to a white object is the one it is called for.
LEMMA GcMarkTriColour ==
  ASSUME TypeOK, EmptyFields, fault = "none", fault' = "none",
         NEW v \in Node, NEW s \in Seq(Frame), GcMark(v, s),
         UNCHANGED <<tag, field>>,
         ActivatedOnce(s), GreyIsActivated(s), TracedOnly(s),
         \A n \in Node : \A f \in Passed(n, s) :
           field[n][f] \in {Nil, v} \/ color[field[n][f]] # "white"
  PROVE  /\ ActivatedOnce(stack)' /\ GreyIsActivated(stack)'
         /\ TracedOnly(stack)' /\ PassedNotWhite(stack)'
         /\ color'[v] # "white"
         /\ \A n \in Node : color[n] # "white" => color'[n] # "white"
<1>0. Len(s) \in Nat
  BY LenProperties
<1>1. CASE color[v] # "white" /\ tag[v] # "Buffer" /\ color' = color /\ stack' = s
  <2>1. PassedNotWhite(stack)'
    BY <1>1 DEF PassedNotWhite, Passed
  <2> QED
    BY <1>1, <2>1 DEF ActivatedOnce, GreyIsActivated, TracedOnly, OnStack
<1>2. CASE /\ tag[v] = "Buffer" \/ (freed[v] /\ color[v] = "white")
           /\ color' = [color EXCEPT ![v] = "black"]
           /\ stack' = s
  <2>1. ~OnStack(v, s)
    BY <1>2 DEF GreyIsActivated, TracedOnly, OnStack
  <2>2. field[v] = NoFields
    BY <1>2 DEF EmptyFields
  <2>3. \A n \in Node : color'[n] = IF n = v THEN "black" ELSE color[n]
    BY <1>2 DEF TypeOK
  <2>4. GreyIsActivated(stack)'
    BY <1>2, <2>1, <2>3 DEF GreyIsActivated, OnStack
  <2>5. PassedNotWhite(stack)'
    <3> SUFFICES ASSUME NEW n \in Node, NEW f \in Passed(n, stack)', field[n][f] # Nil
                 PROVE  color'[field[n][f]] # "white"
      BY DEF PassedNotWhite
    <3>1. f \in Field
      BY DEF Passed
    <3>2. n # v
      BY <2>2, <3>1 DEF NoFields
    <3>3. f \in Passed(n, s)
      BY <1>2, <2>3, <3>2 DEF Passed
    <3>4. field[n][f] \in Node
      BY <3>1 DEF TypeOK, Value
    <3> QED
      BY <2>3, <3>3, <3>4
  <2> QED
    BY <1>2, <2>3, <2>4, <2>5 DEF ActivatedOnce, TracedOnly
<1>3. CASE /\ color[v] = "white" /\ tag[v] # "Buffer" /\ ~freed[v]
           /\ color' = [color EXCEPT ![v] = "grey"]
           /\ stack' = Push(s, v)
  <2>1. /\ Len(stack') = Len(s) + 1
        /\ stack'[Len(s) + 1] = [node |-> v, next |-> 1]
        /\ \A i \in 1 .. Len(s) : stack'[i] = s[i]
    BY <1>3, PushSeq
  <2>2. ~OnStack(v, s)
    BY <1>3 DEF GreyIsActivated
  <2>3. \A n \in Node : color'[n] = IF n = v THEN "grey" ELSE color[n]
    BY <1>3 DEF TypeOK
  <2>4. ActivatedOnce(stack)'
    <3> SUFFICES ASSUME NEW i \in 1 .. (Len(s) + 1), NEW j \in 1 .. (Len(s) + 1),
                        stack'[i].node = stack'[j].node
                 PROVE  i = j
      BY <2>1 DEF ActivatedOnce
    <3>1. \A k \in 1 .. (Len(s) + 1) : stack'[k].node = v <=> k = Len(s) + 1
      BY <1>0, <2>1, <2>2 DEF OnStack
    <3>2. CASE i = Len(s) + 1 \/ j = Len(s) + 1
      BY <1>0, <3>1, <3>2
    <3>3. CASE i \in 1 .. Len(s) /\ j \in 1 .. Len(s)
      BY <2>1, <3>3 DEF ActivatedOnce
    <3> QED
      BY <1>0, <3>2, <3>3
  <2>5. \A n \in Node : OnStack(n, stack') <=> n = v \/ OnStack(n, s)
    <3> SUFFICES ASSUME NEW n \in Node
                 PROVE  OnStack(n, stack') <=> n = v \/ OnStack(n, s)
      OBVIOUS
    <3>1. Len(s) + 1 \in 1 .. Len(stack') /\ stack'[Len(s) + 1].node = v
      BY <1>0, <2>1
    <3>2. OnStack(n, s) => OnStack(n, stack')
      BY <1>0, <2>1 DEF OnStack
    <3>3. OnStack(n, stack') => n = v \/ OnStack(n, s)
      BY <1>0, <2>1 DEF OnStack
    <3> QED
      BY <3>1, <3>2, <3>3 DEF OnStack
  <2>6. GreyIsActivated(stack)'
    BY <2>3, <2>5 DEF GreyIsActivated, OnStack
  <2>7. TracedOnly(stack)'
    BY <1>0, <1>3, <2>1 DEF TracedOnly
  <2>8. PassedNotWhite(stack)'
    <3> SUFFICES ASSUME NEW n \in Node, NEW f \in Passed(n, stack)', field[n][f] # Nil
                 PROVE  color'[field[n][f]] # "white"
      BY DEF PassedNotWhite
    <3>1. f \in Field /\ f \in Nat /\ f >= 1
      BY GCAssumption DEF Passed, Field
    <3>2. f \in Passed(n, s)
      <4>1. CASE color'[n] = "black"
        BY <2>3, <3>1, <4>1 DEF Passed
      <4>2. CASE color'[n] # "black"
        <5>1. PICK i \in 1 .. Len(stack') : stack'[i].node = n /\ f < stack'[i].next
          BY <4>2 DEF Passed
        <5>2. i # Len(s) + 1
          BY <2>1, <3>1, <5>1
        <5>3. i \in 1 .. Len(s) /\ s[i].node = n /\ f < s[i].next
          BY <1>0, <2>1, <5>1, <5>2
        <5>4. n # v
          BY <2>2, <5>3 DEF OnStack
        <5> QED
          BY <2>3, <3>1, <4>2, <5>3, <5>4 DEF Passed
      <4> QED
        BY <4>1, <4>2
    <3>3. field[n][f] \in Node
      BY <3>1 DEF TypeOK, Value
    <3> QED
      BY <2>3, <3>2, <3>3
  <2> QED
    BY <2>3, <2>4, <2>6, <2>7, <2>8
<1> QED
  BY <1>1, <1>2, <1>3, GcMarkCases

\* Activating something that has fields.
LEMMA TracedPush ==
  ASSUME NEW s \in Seq(Frame), NEW v \in Node, TracedOnly(s), tag[v] # "Buffer"
  PROVE  TracedOnly(Push(s, v))
<1>1. /\ Len(Push(s, v)) = Len(s) + 1
      /\ Push(s, v)[Len(s) + 1] = [node |-> v, next |-> 1]
      /\ \A i \in 1 .. Len(s) : Push(s, v)[i] = s[i]
  BY PushSeq
<1>2. Push(s, v)[Len(s) + 1].node = v
  BY <1>1
<1>3. Len(s) \in Nat
  BY LenProperties
<1> QED
  BY <1>1, <1>2, <1>3 DEF TracedOnly

MarkInv == StackInv /\ TriColour

LEMMA MarkNext ==
  TypeOK /\ PhaseInv /\ EmptyFields /\ ColourInv /\ MarkInv /\ [Next]_vars
    => MarkInv'
<1> SUFFICES ASSUME TypeOK, PhaseInv, EmptyFields, ColourInv, MarkInv, [Next]_vars
             PROVE  MarkInv'
  OBVIOUS
<1> USE DEF objectVars, listVars, markVars
<1>0. Len(stack) \in Nat
  BY LenProperties DEF TypeOK
<1>1. CASE UNCHANGED vars
  BY <1>1 DEF vars, MarkInv, StackInv, TracedOnly, TriColour, ActivatedOnce,
              GreyIsActivated, OnStack, PassedNotWhite, Passed, ScannedNotWhite, Rooted
<1>2. CASE pc' # "mark" /\ UNCHANGED <<tag, stack>>
  BY <1>2 DEF MarkInv, StackInv, TracedOnly, TriColour
<1>3. CASE fault' # "none" /\ UNCHANGED <<tag, stack>>
  BY <1>3 DEF MarkInv, StackInv, TracedOnly, TriColour
<1>4. CASE pc # "mark" /\ pc' # "mark" /\ UNCHANGED stack
  <2>1. Len(stack') = 0
    BY <1>4, EmptySeq DEF PhaseInv
  <2> QED
    BY <1>4, <2>1 DEF MarkInv, StackInv, TracedOnly, TriColour
\* a collection begins
<1>5. CASE /\ pc = "idle" /\ pc' = "mark" /\ fault = "none"
           /\ UNCHANGED <<tag, color, freed, field, stack, root_pos>>
  <2>1. stack = <<>> /\ Len(stack) = 0 /\ stack' = stack /\ root_pos' = 1
    BY <1>5, EmptySeq DEF PhaseInv
  <2>2. StackInv'
    BY <2>1 DEF StackInv, TracedOnly
  <2>3. \A n \in Node : color'[n] # "grey" /\ ~OnStack(n, stack)'
    BY <1>5, <2>1 DEF ColourInv, OnStack
  <2>4. ActivatedOnce(stack)' /\ GreyIsActivated(stack)'
    BY <2>1, <2>3 DEF ActivatedOnce, GreyIsActivated, OnStack
  <2>5. PassedNotWhite(stack)'
    <3> SUFFICES ASSUME NEW n \in Node, NEW f \in Passed(n, stack)', field'[n][f] # Nil
                 PROVE  FALSE
      BY DEF PassedNotWhite
    <3>1. f \in Field /\ color[n] = "black"
      BY <1>5, <2>1 DEF Passed
    <3>2. tag[n] = "Buffer" \/ freed[n]
      BY <1>5, <3>1 DEF ColourInv
    <3> QED
      BY <1>5, <3>1, <3>2 DEF EmptyFields, NoFields
  <2>6. ScannedNotWhite'
    BY <2>1 DEF ScannedNotWhite
  <2> QED
    BY <2>2, <2>4, <2>5, <2>6 DEF MarkInv, TriColour
<1>6. ASSUME NEW req \in Request, Allocate(req) PROVE MarkInv'
  BY <1>2, <1>5, <1>6 DEF Allocate, Running
<1>7. CASE ManualRun
  BY <1>5, <1>7 DEF ManualRun, Running
<1>8. CASE MarkRoot
  <2> DEFINE v == root[root_pos]
  <2>1. /\ pc = "mark" /\ fault = "none" /\ stack = <<>> /\ root_pos <= NRoots
        /\ root_pos' = root_pos + 1 /\ pc' = pc
        /\ UNCHANGED <<tag, freed, field, managed, root>>
    BY <1>8 DEF MarkRoot
  <2>2. /\ ActivatedOnce(stack) /\ GreyIsActivated(stack) /\ TracedOnly(stack)
        /\ PassedNotWhite(stack) /\ ScannedNotWhite
    BY <2>1 DEF MarkInv, StackInv, TriColour
  <2>3. Rooted' = Rooted /\ \A r \in 1 .. (root_pos' - 1) :
          r \in 1 .. (root_pos - 1) \/ r = root_pos
    BY <2>1 DEF Rooted, TypeOK
  <2>4. CASE v # Nil /\ managed[v]
    <3>1. v \in Node /\ GcMark(v, stack)
      BY <1>8, <2>1, <2>4, GCAssumption DEF MarkRoot, TypeOK, Root, Value
    <3>2. CASE fault' # "none"
      <4>1. TracedOnly(stack)'
        <5>1. CASE stack' = stack
          BY <5>1, <2>1, <2>2 DEF TracedOnly
        <5>2. CASE stack' = Push(stack, v) /\ tag[v] # "Buffer"
          <6>1. TracedOnly(Push(stack, v))
            BY <2>2, <3>1, <5>2, TracedPush DEF TypeOK
          <6> QED
            BY <2>1, <5>2, <6>1 DEF TracedOnly
        <5> QED
          BY <3>1, <5>1, <5>2 DEF GcMark
      <4> QED
        BY <3>2, <4>1 DEF MarkInv, StackInv, TriColour
    <3>3. CASE fault' = "none"
      <4>1. \A n \in Node : \A f \in Passed(n, stack) :
              field[n][f] \in {Nil, v} \/ color[field[n][f]] # "white"
        BY <2>2 DEF PassedNotWhite
      <4>2. /\ ActivatedOnce(stack)' /\ GreyIsActivated(stack)'
            /\ TracedOnly(stack)' /\ PassedNotWhite(stack)'
            /\ color'[v] # "white"
            /\ \A n \in Node : color[n] # "white" => color'[n] # "white"
        BY <2>1, <2>2, <3>1, <3>3, <4>1, GcMarkTriColour DEF TypeOK
      <4>3. ScannedNotWhite'
        BY <2>1, <2>2, <2>3, <4>2 DEF ScannedNotWhite, Rooted
      <4> QED
        BY <4>2, <4>3 DEF MarkInv, StackInv, TriColour
    <3> QED
      BY <3>2, <3>3
  <2>5. CASE ~(v # Nil /\ managed[v])
    <3>1. UNCHANGED <<color, stack, fault>>
      BY <1>8, <2>5 DEF MarkRoot
    <3>2. v \notin Rooted
      BY <2>5, NilAssumption DEF Rooted
    <3>3. ScannedNotWhite'
      BY <2>1, <2>2, <2>3, <3>1, <3>2 DEF ScannedNotWhite
    <3> QED
      BY <2>1, <2>2, <3>1, <3>3
      DEF MarkInv, StackInv, TriColour, ActivatedOnce, GreyIsActivated, OnStack,
          TracedOnly, PassedNotWhite, Passed
  <2> QED
    BY <2>4, <2>5
<1>9. CASE MarkField
  <2> DEFINE k == Len(stack)
             n0 == Top.node
             f0 == Top.next
             v == field[n0][f0]
             s == Advance(stack)
  <2>1. /\ pc = "mark" /\ fault = "none" /\ stack # <<>> /\ f0 <= NFields
        /\ pc' = pc
        /\ UNCHANGED <<tag, freed, field, managed, root, root_pos>>
    BY <1>9 DEF MarkField
  <2>2. /\ ActivatedOnce(stack) /\ GreyIsActivated(stack) /\ TracedOnly(stack)
        /\ PassedNotWhite(stack) /\ ScannedNotWhite
    BY <2>1 DEF MarkInv, StackInv, TriColour
  <2>3. k \in 1 .. Len(stack) /\ stack[k] = Top /\ Top \in Frame
    BY <2>1, EmptySeq, ElementOfSeq DEF Top, TypeOK
  <2>4. f0 \in Field /\ n0 \in Node /\ v \in Value
    BY <2>1, <2>3, GCAssumption DEF Frame, Field, TypeOK
  <2>5. /\ s \in Seq(Frame) /\ Len(s) = Len(stack)
        /\ \A i \in 1 .. Len(stack) : s[i].node = stack[i].node
        /\ \A i \in 1 .. (k - 1) : s[i] = stack[i]
        /\ s[k].next = f0 + 1
    <3>1. /\ s \in Seq(Frame) /\ Len(s) = Len(stack)
          /\ \A i \in 1 .. (k - 1) : s[i] = stack[i]
          /\ s[k] = [node |-> n0, next |-> f0 + 1]
      BY <2>1, AdvanceSeq DEF Top, TypeOK
    <3> QED
      BY <1>0, <2>3, <3>1
  <2>6. ActivatedOnce(s) /\ GreyIsActivated(s) /\ TracedOnly(s)
    BY <2>2, <2>5 DEF ActivatedOnce, GreyIsActivated, OnStack, TracedOnly
  <2>7. \A n \in Node : \A f \in Passed(n, s) :
          f \in Passed(n, stack) \/ (n = n0 /\ f = f0)
    <3> SUFFICES ASSUME NEW n \in Node, NEW f \in Passed(n, s), color[n] # "black",
                        ~(n = n0 /\ f = f0)
                 PROVE  f \in Passed(n, stack)
      BY DEF Passed
    <3>1. f \in Field
      BY DEF Passed
    <3>2. PICK i \in 1 .. Len(s) : s[i].node = n /\ f < s[i].next
      BY DEF Passed
    <3>3. stack[i].node = n /\ i \in 1 .. Len(stack)
      BY <2>5, <3>2
    <3>4. f < stack[i].next
      <4>1. CASE i = k
        <5>1. f < f0 + 1 /\ n = n0
          BY <2>3, <2>5, <3>2, <3>3, <4>1
        <5>2. f \in Int /\ f0 \in Int /\ f # f0
          BY <2>4, <3>1, <5>1, GCAssumption DEF Field
        <5> QED
          BY <2>3, <4>1, <5>1, <5>2
      <4>2. CASE i # k
        BY <1>0, <2>5, <3>2, <3>3, <4>2
      <4> QED
        BY <4>1, <4>2
    <3> QED
      BY <3>1, <3>3, <3>4 DEF Passed
  <2>8. \A n \in Node : \A f \in Passed(n, s) :
          field[n][f] \in {Nil, v} \/ color[field[n][f]] # "white"
    BY <2>2, <2>7 DEF PassedNotWhite
  <2>9. CASE v # Nil
    <3>1. v \in Node /\ GcMark(v, s)
      BY <1>9, <2>4, <2>9 DEF MarkField, Value
    <3>2. CASE fault' # "none"
      <4>1. TracedOnly(stack)'
        <5>1. CASE stack' = s
          BY <5>1, <2>1, <2>6 DEF TracedOnly
        <5>2. CASE stack' = Push(s, v) /\ tag[v] # "Buffer"
          <6>1. TracedOnly(Push(s, v))
            BY <2>5, <2>6, <3>1, <5>2, TracedPush
          <6> QED
            BY <2>1, <5>2, <6>1 DEF TracedOnly
        <5> QED
          BY <3>1, <5>1, <5>2 DEF GcMark
      <4> QED
        BY <3>2, <4>1 DEF MarkInv, StackInv, TriColour
    <3>3. CASE fault' = "none"
      <4>1. /\ ActivatedOnce(stack)' /\ GreyIsActivated(stack)'
            /\ TracedOnly(stack)' /\ PassedNotWhite(stack)'
            /\ \A n \in Node : color[n] # "white" => color'[n] # "white"
        BY <2>1, <2>5, <2>6, <2>8, <3>1, <3>3, GcMarkTriColour
      <4>2. ScannedNotWhite'
        BY <2>1, <2>2, <4>1 DEF ScannedNotWhite, Rooted
      <4> QED
        BY <4>1, <4>2 DEF MarkInv, StackInv, TriColour
    <3> QED
      BY <3>2, <3>3
  <2>10. CASE v = Nil
    <3>1. stack' = s /\ UNCHANGED <<color, fault>>
      BY <1>9, <2>10 DEF MarkField
    <3>2. PassedNotWhite(stack)'
      BY <2>1, <2>8, <2>10, <3>1 DEF PassedNotWhite, Passed
    <3>3. ScannedNotWhite'
      BY <2>1, <2>2, <3>1 DEF ScannedNotWhite, Rooted
    <3> QED
      BY <2>1, <2>6, <3>1, <3>2, <3>3
      DEF MarkInv, StackInv, TriColour, ActivatedOnce, GreyIsActivated, OnStack,
          TracedOnly
  <2> QED
    BY <2>9, <2>10
<1>10. CASE MarkReturn
  <2> DEFINE k == Len(stack)
             n0 == Top.node
  <2>1. /\ pc = "mark" /\ fault = "none" /\ stack # <<>> /\ Top.next > NFields
        /\ pc' = pc /\ fault' = fault
        /\ UNCHANGED <<tag, freed, field, managed, root, root_pos>>
        /\ color' = [color EXCEPT ![n0] = "black"]
        /\ stack' = PopBack(stack)
    BY <1>10 DEF MarkReturn
  <2>2. /\ ActivatedOnce(stack) /\ GreyIsActivated(stack) /\ TracedOnly(stack)
        /\ PassedNotWhite(stack) /\ ScannedNotWhite
    BY <2>1 DEF MarkInv, StackInv, TriColour
  <2>3. k \in 1 .. Len(stack) /\ stack[k] = Top /\ Top \in Frame /\ n0 \in Node
    <3>1. k \in 1 .. Len(stack) /\ stack[k] = Top /\ Top \in Frame
      BY <2>1, EmptySeq, ElementOfSeq DEF Top, TypeOK
    <3> QED
      BY <3>1 DEF Frame
  <2>4. Len(stack') = k - 1 /\ \A i \in 1 .. (k - 1) : stack'[i] = stack[i]
    BY <2>1, PopBackSeq DEF TypeOK
  <2>5. ActivatedOnce(stack)' /\ TracedOnly(stack)'
    BY <1>0, <2>1, <2>2, <2>4 DEF ActivatedOnce, TracedOnly
  <2>6. \A n \in Node : color'[n] = IF n = n0 THEN "black" ELSE color[n]
    BY <2>1 DEF TypeOK
  <2>7. \A n \in Node : OnStack(n, stack') <=> n # n0 /\ OnStack(n, stack)
    <3> SUFFICES ASSUME NEW n \in Node
                 PROVE  OnStack(n, stack') <=> n # n0 /\ OnStack(n, stack)
      OBVIOUS
    <3>1. \A i \in 1 .. k : stack[i].node = n0 <=> i = k
      BY <2>2, <2>3 DEF ActivatedOnce
    <3> QED
      BY <1>0, <2>3, <2>4, <3>1 DEF OnStack
  <2>8. GreyIsActivated(stack)'
    BY <2>2, <2>6, <2>7 DEF GreyIsActivated, OnStack
  <2>9. PassedNotWhite(stack)'
    <3> SUFFICES ASSUME NEW n \in Node, NEW f \in Passed(n, stack)', field[n][f] # Nil
                 PROVE  color'[field[n][f]] # "white"
      BY <2>1 DEF PassedNotWhite
    <3>1. f \in Field /\ f \in Nat /\ f <= NFields
      BY GCAssumption DEF Passed, Field
    <3>2. f \in Passed(n, stack)
      <4>1. CASE n = n0
        <5>1. Top.next \in Int /\ f < Top.next
          BY <2>1, <2>3, <3>1, GCAssumption DEF Frame
        <5> QED
          BY <2>3, <3>1, <4>1, <5>1 DEF Passed
      <4>2. CASE n # n0 /\ color[n] = "black"
        BY <3>1, <4>2 DEF Passed
      <4>3. CASE n # n0 /\ color[n] # "black"
        <5>1. PICK i \in 1 .. Len(stack') : stack'[i].node = n /\ f < stack'[i].next
          BY <2>6, <4>3 DEF Passed
        <5>2. i \in 1 .. Len(stack) /\ stack[i] = stack'[i]
          BY <1>0, <2>4, <5>1
        <5> QED
          BY <3>1, <4>3, <5>1, <5>2 DEF Passed
      <4> QED
        BY <4>1, <4>2, <4>3
    <3>3. field[n][f] \in Node
      BY <3>1 DEF TypeOK, Value
    <3> QED
      BY <2>2, <2>6, <3>2, <3>3 DEF PassedNotWhite
  <2>10. ScannedNotWhite'
    BY <2>1, <2>2, <2>6 DEF ScannedNotWhite, Rooted
  <2> QED
    BY <2>5, <2>8, <2>9, <2>10 DEF MarkInv, StackInv, TriColour
<1>11. ASSUME NEW n \in Node, NEW contents \in [Field -> Value],
              TakeObject(n, contents)
       PROVE  MarkInv'
  BY <1>4, <1>11 DEF TakeObject
<1> QED
  BY <1>1, <1>2, <1>3, <1>6, <1>7, <1>8, <1>9, <1>10, <1>11
  DEF Next, Program, Collector, Host, Ended, Running, Move, Load, Store, Paused,
      Exit, MarkEnd, SweepFree, SweepKeep, SweepEnd, OutOfMemory, Manage, Unmanage,
      Deallocate, TypeOK

-----------------------------------------------------------------------------
(* Sweeping.                                                               *)

\* A step of the sweep visits one node and leaves the others to be visited.
LEMMA SweepVisits ==
  ASSUME TypeOK, HeapInv, SweepInv, pc = "sweep", fault = "none", fault' = "none",
         SweepFree \/ SweepKeep
  PROVE  /\ raw[cursor] \in Node
         /\ magic[raw[cursor]] = "allocated"
         /\ raw[cursor] \in Unvisited
         /\ Unvisited' = Unvisited \ {raw[cursor]}
<1>1. /\ raw \in Seq(Node) /\ Len(raw) \in Nat /\ cursor \in 1 .. Len(raw)
      /\ raw[cursor] \in Node /\ cursor' = cursor + 1
  BY ElementOfSeq, LenProperties DEF SweepFree, SweepKeep, TypeOK
<1>2. /\ \A j \in cursor .. Len(raw) :
           magic[raw[j]] = "allocated" /\ lookup_index[raw[j]] < j
      /\ \A j, k \in cursor .. Len(raw) : raw[j] = raw[k] => j = k
  BY DEF SweepInv
<1>3. Len(raw') = Len(raw) /\ \A j \in cursor' .. Len(raw) : raw'[j] = raw[j]
  <2>1. CASE SweepKeep
    BY <2>1 DEF SweepKeep
  <2>2. CASE SweepFree
    <3> DEFINE hole == lookup_index[raw[cursor]] + 1
               back == nodes["allocated"][Len(nodes["allocated"])]
    <3>1. raw' = [raw EXCEPT ![hole] = back] /\ FreeFault(raw[cursor]) = "none"
      BY <2>2 DEF SweepFree
    <3>2. hole \in Int /\ hole <= cursor
      <4>1. lookup_index[raw[cursor]] \in Int
        BY <1>1 DEF TypeOK, ListTypeOK, magic_index
      <4> QED
        BY <4>1, <1>1, <1>2
    <3>3. raw' \in [1 .. Len(raw) -> Node]
      <4>1. back \in Node
        BY <1>1, <3>1, RemoveFinds DEF FreeFault, TypeOK, HeapInv
      <4> QED
        BY <1>1, <3>1, <4>1, ElementOfSeq, LenProperties
    <3>4. Len(raw') = Len(raw)
      BY <1>1, <3>3, SeqDef, LenProperties
    <3> QED
      BY <1>1, <3>1, <3>2, <3>4, LenProperties
  <2> QED
    BY <2>1, <2>2
<1>4. \A j : j \in cursor .. Len(raw) <=> j = cursor \/ j \in cursor' .. Len(raw)
  BY <1>1
<1>5. \A j \in cursor' .. Len(raw) : raw[j] # raw[cursor]
  BY <1>1, <1>2
<1> QED
  BY <1>1, <1>2, <1>3, <1>4, <1>5 DEF Unvisited

\* A sweep that starts has every node of the allocated list unvisited.
LEMMA UnvisitedStarts ==
  ASSUME TypeOK, HeapInv, fault = "none", cursor = 1,
         raw' = nodes["allocated"], cursor' = cursor
  PROVE  \A n \in Node : n \in Unvisited' <=> magic[n] = "allocated"
<1>1. ListsConsistent
  BY DEF HeapInv
<1>2. ASSUME NEW n \in Node, n \in Unvisited' PROVE magic[n] = "allocated"
  BY <1>1, <1>2 DEF Unvisited, ListsConsistent, SlotsAgree, ListId
<1>3. ASSUME NEW n \in Node, magic[n] = "allocated" PROVE n \in Unvisited'
  <2>1. lookup_index[n] + 1 \in 1 .. Len(nodes["allocated"])
        /\ nodes["allocated"][lookup_index[n] + 1] = n
    BY <1>1, <1>3 DEF ListsConsistent, MembersFound
  <2> QED
    BY <2>1 DEF Unvisited
<1> QED
  BY <1>2, <1>3

LEMMA ColourNext ==
  TypeOK /\ HeapInv /\ PhaseInv /\ SweepInv /\ ColourInv /\ MarkInv /\ [Next]_vars
    => ColourInv'
<1> SUFFICES ASSUME TypeOK, HeapInv, PhaseInv, SweepInv, ColourInv, MarkInv,
                    [Next]_vars, fault' = "none", pc' # "mark",
                    NEW n \in Node, color'[n] # "white"
             PROVE  /\ color'[n] = "black"
                    /\ \/ tag'[n] = "Buffer" \/ freed'[n]
                       \/ pc' = "sweep" /\ n \in Unvisited'
  BY DEF ColourInv
<1> USE DEF objectVars, sweepVars
<1> DEFINE Goal == /\ color'[n] = "black"
                   /\ \/ tag'[n] = "Buffer" \/ freed'[n]
                      \/ pc' = "sweep" /\ n \in Unvisited'
<1>1. CASE UNCHANGED vars
  BY <1>1 DEF vars, ColourInv, Unvisited
<1>2. CASE fault = "none" /\ pc = "idle" /\ UNCHANGED <<tag, color, freed>>
  BY <1>2 DEF ColourInv
<1>3. CASE MarkRoot \/ MarkField \/ MarkReturn
  BY <1>3 DEF MarkRoot, MarkField, MarkReturn
<1>4. CASE MarkEnd
  <2>1. /\ pc = "mark" /\ fault = "none" /\ stack = <<>> /\ pc' = "sweep"
        /\ raw' = nodes["allocated"] /\ cursor' = cursor /\ cursor = 1
        /\ UNCHANGED <<tag, color, freed>>
    BY <1>4 DEF MarkEnd, PhaseInv
  <2>2. color[n] # "grey"
    <3>1. Len(stack) = 0
      BY <2>1, EmptySeq
    <3> QED
      BY <2>1, <3>1 DEF MarkInv, TriColour, GreyIsActivated, OnStack
  <2>3. color[n] = "black"
    BY <2>1, <2>2 DEF TypeOK, Color
  <2>4. tag[n] = "Buffer" \/ freed[n] \/ magic[n] = "allocated"
    BY <2>1 DEF HeapInv, HeadersAgree, TypeOK, ListTypeOK, ListId
  <2> QED
    BY <2>1, <2>3, <2>4, UnvisitedStarts
<1>5. CASE SweepFree
  <2>1. /\ pc = "sweep" /\ fault = "none" /\ pc' = pc
        /\ UNCHANGED <<tag, color>> /\ BodyFreed(raw[cursor])
    BY <1>5 DEF SweepFree
  <2>2. raw[cursor] \in Node /\ Unvisited' = Unvisited \ {raw[cursor]}
    BY <1>5, <2>1, SweepVisits
  <2>3. freed'[n] = IF n = raw[cursor] THEN TRUE ELSE freed[n]
    BY <2>1, <2>2 DEF BodyFreed, TypeOK
  <2> QED
    BY <2>1, <2>2, <2>3 DEF ColourInv
<1>6. CASE SweepKeep
  <2>1. /\ pc = "sweep" /\ fault = "none" /\ pc' = pc
        /\ UNCHANGED <<tag, freed>>
        /\ color' = [color EXCEPT ![raw[cursor]] = "white"]
    BY <1>6 DEF SweepKeep
  <2>2. raw[cursor] \in Node /\ Unvisited' = Unvisited \ {raw[cursor]}
    BY <1>6, <2>1, SweepVisits
  <2>3. n # raw[cursor] /\ color'[n] = color[n]
    BY <2>1, <2>2 DEF TypeOK
  <2> QED
    BY <2>1, <2>2, <2>3 DEF ColourInv
<1>7. CASE SweepEnd
  <2>1. /\ pc = "sweep" /\ fault = "none" /\ cursor > Len(raw)
        /\ UNCHANGED <<tag, color, freed>>
    BY <1>7 DEF SweepEnd
  <2>2. Unvisited = {}
    <3>1. cursor \in Nat /\ Len(raw) \in Nat
      BY LenProperties DEF TypeOK
    <3> QED
      BY <2>1, <3>1 DEF Unvisited
  <2> QED
    BY <2>1, <2>2 DEF ColourInv
<1>8. ASSUME NEW m \in Node, NEW contents \in [Field -> Value],
             TakeObject(m, contents)
      PROVE  Goal
  <2>1. /\ pc = "take" /\ fault = "none"
        /\ tag' = [tag EXCEPT ![m] = request.tag]
        /\ color' = [color EXCEPT ![m] = "white"]
        /\ freed' = [freed EXCEPT ![m] = FALSE]
    BY <1>8 DEF TakeObject, Construct
  <2>2. n # m /\ color'[n] = color[n] /\ tag'[n] = tag[n] /\ freed'[n] = freed[n]
    BY <2>1 DEF TypeOK
  <2> QED
    BY <2>1, <2>2 DEF ColourInv
<1>9. ASSUME NEW m \in Node, Deallocate(m) PROVE Goal
  <2>1. /\ pc = "idle" /\ fault = "none" /\ UNCHANGED <<tag, color>>
        /\ freed' = freed \/ freed' = [freed EXCEPT ![m] = TRUE]
    BY <1>9 DEF Deallocate, Running, BodyFreed
  <2> QED
    BY <2>1 DEF ColourInv, TypeOK
<1> QED
  BY <1>1, <1>2, <1>3, <1>4, <1>5, <1>6, <1>7, <1>8, <1>9
  DEF Next, Program, Collector, Host, Ended, Running, Move, Load, Store, Paused,
      Allocate, ManualRun, Exit, OutOfMemory, Manage, Unmanage

-----------------------------------------------------------------------------
(* What is live stays.                                                     *)

\* When marking ends, what is in use is not white, and neither is what the
\* program reaches, unmanaged objects aside.
LEMMA MarkedAll ==
  ASSUME TypeOK, HeapInv, EmptyFields, ColourInv, MarkInv, MarkEnd
  PROVE  \A n \in Live \cup InUse : color[n] # "white" \/ magic[n] = "null"
<1> DEFINE Marked == {n \in Node : color[n] # "white"}
           Loose == {n \in Node : magic[n] = "null"}
<1>1. /\ pc = "mark" /\ fault = "none" /\ stack = <<>> /\ root_pos > NRoots
      /\ Len(stack) = 0
  BY EmptySeq DEF MarkEnd
<1>2. GreyIsActivated(stack) /\ PassedNotWhite(stack) /\ ScannedNotWhite
  BY <1>1 DEF MarkInv, TriColour
<1>3. \A n \in Marked : color[n] = "black"
  BY <1>1, <1>2 DEF GreyIsActivated, OnStack, TypeOK, Color
<1>4. Rooted \subseteq Marked
  <2> SUFFICES ASSUME NEW r \in Root, root[r] \in Rooted
               PROVE  color[root[r]] # "white"
    BY DEF Rooted
  <2>1. r \in 1 .. (root_pos - 1)
    BY <1>1, GCAssumption DEF Root, TypeOK
  <2> QED
    BY <1>2, <2>1 DEF ScannedNotWhite
<1>5. \A n \in Marked : \A f \in Field : field[n][f] \in Marked \cup {Nil}
  <2> SUFFICES ASSUME NEW n \in Marked, NEW f \in Field, field[n][f] # Nil
               PROVE  field[n][f] \in Marked
    OBVIOUS
  <2>1. f \in Passed(n, stack)
    BY <1>3 DEF Passed
  <2>2. field[n][f] \in Node
    BY DEF TypeOK, Value
  <2> QED
    BY <1>2, <2>1, <2>2 DEF PassedNotWhite
<1>6. InUse \subseteq Marked
  BY <1>4, <1>5 DEF InUse, Closed
<1>7. Referenced \subseteq Marked \cup Loose
  <2>1. \A n \in Node : ~managed[n] => magic[n] = "null"
    BY <1>1, ManagedInList DEF HeapInv
  <2> QED
    BY <1>4, <2>1 DEF Referenced, Rooted
<1>8. ClosedStored(Marked \cup Loose)
  <2>1. \A n \in Loose : field[n] = NoFields
    BY <1>1 DEF HeapInv, HeadersAgree, EmptyFields
  <2>2. \A n \in Loose : \A f \in Field : StoredField(n, f) = Nil
    BY <2>1 DEF StoredField, NoFields
  <2>3. \A n \in Marked : \A f \in Field : StoredField(n, f) \in Marked \cup {Nil}
    BY <1>5 DEF StoredField
  <2> QED
    BY <2>2, <2>3 DEF ClosedStored
<1>9. Live \subseteq Marked \cup Loose
  BY <1>7, <1>8 DEF Live
<1> QED
  BY <1>6, <1>9

\* Steps of the program do not let it reach more.
LEMMA ProgramReachesLess ==
  ASSUME TypeOK,
         \/ \E dst \in Root, v \in Value : Move(dst, v)
         \/ \E dst \in Root, n \in Node, f \in Field : Load(dst, n, f)
         \/ \E n \in Node, f \in Field, v \in Value : Store(n, f, v)
  PROVE  Live' \subseteq Live
<1> PICK L \in SUBSET Node : L = Live
  BY LiveClosed
<1>0. Referenced \subseteq L /\ ClosedStored(L) /\ Held \subseteq L
  BY LiveClosed, HeldLive
<1> USE DEF objectVars
<1>1. ASSUME NEW dst \in Root, NEW v \in Value, Move(dst, v)
      PROVE  Referenced' \subseteq L /\ ClosedStored(L)'
  <2>1. ClosedStored(L)'
    BY <1>0, <1>1 DEF Move, ClosedStored, StoredField
  <2>2. v \in L \cup {Nil} /\ root' = [root EXCEPT ![dst] = v]
    BY <1>0, <1>1 DEF Move
  <2> QED
    BY <1>0, <2>1, <2>2, NilAssumption DEF Referenced, TypeOK
<1>2. ASSUME NEW dst \in Root, NEW n \in Node, NEW f \in Field, Load(dst, n, f)
      PROVE  Referenced' \subseteq L /\ ClosedStored(L)'
  <2>1. ClosedStored(L)'
    BY <1>0, <1>2 DEF Load, ClosedStored, StoredField
  <2>2. root' = [root EXCEPT ![dst] = field[n][f]] /\ n \in L
        /\ StoredField(n, f) = field[n][f]
    BY <1>0, <1>2 DEF Load, StoredField
  <2>3. field[n][f] \in L \cup {Nil}
    BY <1>0, <2>2 DEF ClosedStored
  <2> QED
    BY <1>0, <2>1, <2>2, <2>3, NilAssumption DEF Referenced, TypeOK
<1>3. ASSUME NEW n \in Node, NEW f \in Field, NEW v \in Value, Store(n, f, v)
      PROVE  Referenced' \subseteq L /\ ClosedStored(L)'
  <2>1. /\ v \in L \cup {Nil} /\ root' = root
        /\ field' = [field EXCEPT ![n][f] = v] /\ stale' = stale \ {<<n, f>>}
    BY <1>0, <1>3 DEF Store
  <2>2. ASSUME NEW m \in L, NEW g \in Field
        PROVE  StoredField(m, g)' \in L \cup {Nil}
    <3>1. CASE m = n /\ g = f
      BY <2>1, <3>1 DEF StoredField, TypeOK
    <3>2. CASE ~(m = n /\ g = f)
      <4>1. field'[m][g] = field[m][g]
        BY <2>1, <3>2 DEF TypeOK
      <4>2. <<m, g>> \in stale' <=> <<m, g>> \in stale
        BY <2>1, <3>2
      <4>3. StoredField(m, g)' = StoredField(m, g)
        BY <4>1, <4>2 DEF StoredField
      <4> QED
        BY <1>0, <4>3 DEF ClosedStored
    <3> QED
      BY <3>1, <3>2
  <2> QED
    BY <1>0, <2>1, <2>2 DEF Referenced, ClosedStored
<1>4. Referenced' \subseteq L /\ ClosedStored(L)'
  BY <1>1, <1>2, <1>3
<1> QED
  BY <1>4, LiveLeastNext

\* Freeing an object lets nothing reach more.
LEMMA FreeingReachesLess ==
  ASSUME TypeOK, NEW n \in Node, BodyFreed(n), UNCHANGED <<root, managed>>
  PROVE  Live' \subseteq Live /\ InUse' \subseteq InUse
<1>1. /\ field' = [field EXCEPT ![n] = NoFields]
      /\ stale' = stale \ ({n} \X Field)
  BY DEF BodyFreed
<1>2. \A m \in Node, f \in Field : field'[m][f] = IF m = n THEN Nil ELSE field[m][f]
  BY <1>1 DEF NoFields, TypeOK
<1>3. \A m \in Node, f \in Field : m # n => (<<m, f>> \in stale' <=> <<m, f>> \in stale)
  BY <1>1
<1>4. \A m \in Node, f \in Field : StoredField(m, f)' \in {StoredField(m, f), Nil}
  BY <1>2, <1>3 DEF StoredField
<1> QED
  BY <1>2, <1>4, ReachFewer

\* A new object adds only itself to what the program reaches.
LEMMA TakeReaches ==
  ASSUME TypeOK, NEW n \in Node, NEW contents \in [Field -> Value],
         TakeObject(n, contents)
  PROVE  Live' \subseteq Live \cup {n}
<1> PICK L \in SUBSET Node : L = Live \cup {n}
  BY LiveClosed
<1>1. /\ field' = [field EXCEPT
           ![n] = IF request.tag = "Buffer" THEN NoFields ELSE contents]
      /\ stale' = IF request.tag = "Buffer" THEN stale ELSE stale \cup ({n} \X Field)
      /\ root' = [root EXCEPT ![request.dst] = n]
      /\ request.dst \in Root
  BY DEF TakeObject, Construct, TypeOK, Request
<1>2. Referenced' \subseteq L
  BY <1>1, LiveClosed DEF Referenced, TypeOK
<1>3. ASSUME NEW m \in L, NEW f \in Field PROVE StoredField(m, f)' \in L \cup {Nil}
  <2>1. CASE m = n
    <3>1. CASE request.tag = "Buffer"
      BY <1>1, <2>1, <3>1 DEF StoredField, NoFields, TypeOK
    <3>2. CASE request.tag # "Buffer"
      BY <1>1, <2>1, <3>2 DEF StoredField
    <3> QED
      BY <3>1, <3>2
  <2>2. CASE m # n
    <3>1. field'[m] = field[m] /\ (<<m, f>> \in stale' <=> <<m, f>> \in stale)
      BY <1>1, <2>2 DEF TypeOK
    <3>2. StoredField(m, f)' = StoredField(m, f)
      BY <3>1 DEF StoredField
    <3> QED
      BY <2>2, <3>2, LiveClosed DEF ClosedStored
  <2> QED
    BY <2>1, <2>2
<1>4. Live' \subseteq L
  BY <1>2, <1>3, LiveLeastNext DEF ClosedStored
<1> QED
  BY <1>4

\* What the sweep frees is neither live nor in use.
LEMMA SweepFreesGarbage ==
  ASSUME TypeOK, HeapInv, SweepInv, LiveInv, SweepFree, fault' = "none",
         after # "exited"
  PROVE  raw[cursor] \notin Live \cup InUse
<1>1. pc = "sweep" /\ fault = "none" /\ color[raw[cursor]] = "white"
  BY DEF SweepFree
<1>2. raw[cursor] \in Unvisited
  BY <1>1, SweepVisits
<1> QED
  BY <1>1, <1>2 DEF LiveInv

LEMMA LiveNext ==
  TypeOK /\ HeapInv /\ PhaseInv /\ SweepInv /\ EmptyFields /\ ColourInv /\ MarkInv
    /\ LiveInv /\ [Next]_vars => LiveInv'
<1> SUFFICES ASSUME TypeOK, HeapInv, PhaseInv, SweepInv, EmptyFields, ColourInv,
                    MarkInv, LiveInv, [Next]_vars
             PROVE  LiveInv'
  OBVIOUS
<1> USE DEF listVars, objectVars, sweepVars
<1>0. CASE fault' # "none" \/ after' = "exited"
  BY <1>0 DEF LiveInv
<1>1. CASE UNCHANGED vars
  <2>1. Live' = Live /\ InUse' = InUse /\ Unvisited' = Unvisited
    BY <1>1 DEF vars, Live, Referenced, ClosedStored, StoredField, InUse, Rooted,
                Closed, Unvisited
  <2> QED
    BY <1>1, <2>1 DEF vars, callVars, LiveInv
<1>2. CASE /\ pc \in {"idle", "mark", "take"} /\ pc' # "sweep" /\ fault = "none"
           /\ UNCHANGED <<field, stale, root, created, freed>>
  <2>1. Live' = Live
    BY <1>2 DEF Live, Referenced, ClosedStored, StoredField
  <2>2. after # "exited"
    BY <1>2 DEF PhaseInv
  <2> QED
    BY <1>2, <2>1, <2>2 DEF LiveInv
<1>3. CASE \/ \E dst \in Root, v \in Value : Move(dst, v)
           \/ \E dst \in Root, n \in Node, f \in Field : Load(dst, n, f)
           \/ \E n \in Node, f \in Field, v \in Value : Store(n, f, v)
  <2>1. /\ pc = "idle" /\ fault = "none" /\ pc' = pc
        /\ UNCHANGED <<created, freed>>
    BY <1>3 DEF Move, Load, Store, Running
  <2>2. after # "exited"
    BY <2>1 DEF PhaseInv
  <2> QED
    BY <1>3, <2>1, <2>2, ProgramReachesLess DEF LiveInv
<1>4. CASE MarkEnd
  <2>1. /\ pc = "mark" /\ fault = "none" /\ cursor = 1
        /\ raw' = nodes["allocated"] /\ cursor' = cursor
        /\ UNCHANGED <<listVars, objectVars, root, after>>
    BY <1>4 DEF MarkEnd, PhaseInv, callVars
  <2>2. Live' = Live /\ InUse' = InUse
    BY <2>1 DEF Live, Referenced, ClosedStored, StoredField, InUse, Rooted, Closed
  <2>3. \A n \in Live \cup InUse : n \in Unvisited' => color[n] # "white"
    <3>1. Live \cup InUse \subseteq Node
      BY DEF Live, InUse
    <3> QED
      BY <1>4, <2>1, <3>1, MarkedAll, UnvisitedStarts
  <2> QED
    BY <2>1, <2>2, <2>3 DEF LiveInv
<1>5. CASE SweepFree /\ fault' = "none" /\ after' # "exited"
  <2> DEFINE n == raw[cursor]
  <2>1. /\ pc = "sweep" /\ fault = "none" /\ after # "exited"
        /\ BodyFreed(n) /\ UNCHANGED <<root, color, managed, created>>
    BY <1>5 DEF SweepFree, callVars, MoveToFree
  <2>2. n \in Node /\ Unvisited' = Unvisited \ {n}
    BY <1>5, <2>1, SweepVisits
  <2>3. n \notin Live \cup InUse
    BY <1>5, <2>1, SweepFreesGarbage
  <2>4. Live' \subseteq Live /\ InUse' \subseteq InUse
    BY <2>1, <2>2, FreeingReachesLess
  <2>5. \A m \in Node : m # n => freed'[m] = freed[m]
    BY <2>1 DEF BodyFreed, TypeOK
  <2> QED
    BY <2>1, <2>2, <2>3, <2>4, <2>5, LiveClosed DEF LiveInv
<1>6. CASE SweepKeep /\ after' # "exited"
  <2> DEFINE n == raw[cursor]
  <2>1. /\ pc = "sweep" /\ fault = "none" /\ fault' = fault /\ after # "exited"
        /\ color' = [color EXCEPT ![n] = "white"]
        /\ UNCHANGED <<listVars, field, stale, freed, root>>
    BY <1>6 DEF SweepKeep, callVars
  <2>2. n \in Node /\ Unvisited' = Unvisited \ {n}
    BY <1>6, <2>1, SweepVisits
  <2>3. Live' = Live /\ InUse' = InUse
    BY <2>1 DEF Live, Referenced, ClosedStored, StoredField, InUse, Rooted, Closed
  <2>4. \A m \in Node : m # n => color'[m] = color[m]
    BY <2>1 DEF TypeOK
  <2>5. Live \cup InUse \subseteq Node
    BY DEF Live, InUse
  <2> QED
    BY <2>1, <2>2, <2>3, <2>4, <2>5 DEF LiveInv
<1>7. CASE SweepEnd
  <2>1. /\ pc = "sweep" /\ fault = "none" /\ after' = after /\ pc' = after
        /\ UNCHANGED <<field, stale, root, created, freed>>
    BY <1>7 DEF SweepEnd, callVars
  <2>2. Live' = Live /\ pc' # "sweep"
    BY <2>1 DEF Live, Referenced, ClosedStored, StoredField, TypeOK
  <2> QED
    BY <2>1, <2>2 DEF LiveInv
<1>8. ASSUME NEW n \in Node, NEW contents \in [Field -> Value],
             TakeObject(n, contents)
      PROVE  LiveInv'
  <2>1. /\ pc = "take" /\ fault = "none" /\ pc' = "idle" /\ after # "exited"
        /\ freed' = [freed EXCEPT ![n] = FALSE]
        /\ created' = created \cup {n}
    BY <1>8 DEF TakeObject, Construct, TakeNode, PhaseInv
  <2>2. \A m \in Live : m \in created /\ ~freed[m]
    BY <2>1 DEF LiveInv
  <2>3. Live' \subseteq Live \cup {n} /\ Live \subseteq Node
    BY <1>8, TakeReaches, LiveClosed
  <2>4. \A m \in Live' : m \in created' /\ ~freed'[m]
    BY <2>1, <2>2, <2>3 DEF TypeOK
  <2> QED
    BY <2>1, <2>4 DEF LiveInv
<1>9. ASSUME NEW n \in Node, Deallocate(n) PROVE LiveInv'
  <2>1. /\ pc = "idle" /\ pc' = pc /\ fault = "none" /\ n \notin Live
        /\ UNCHANGED root /\ after # "exited"
    BY <1>9 DEF Deallocate, Running, PhaseInv
  <2>2. CASE BodyFreed(n) /\ UNCHANGED <<managed, created>>
    <3>1. Live' \subseteq Live /\ Live \subseteq Node
      BY <2>1, <2>2, FreeingReachesLess, LiveClosed
    <3>2. \A m \in Node : m # n => freed'[m] = freed[m]
      BY <2>2 DEF BodyFreed, TypeOK
    <3> QED
      BY <2>1, <2>2, <3>1, <3>2 DEF LiveInv
  <2> QED
    BY <1>0, <1>9, <2>2 DEF Deallocate, MoveToFree
<1> QED
  BY <1>0, <1>1, <1>2, <1>3, <1>4, <1>5, <1>6, <1>7, <1>8, <1>9
  DEF Next, Program, Collector, Host, Ended, Running, Paused, Allocate, ManualRun,
      Exit, MarkRoot, MarkField, MarkReturn, OutOfMemory, Manage, Unmanage,
      AppendAllocated

-----------------------------------------------------------------------------
(* The theorems.                                                           *)

LEMMA InvInit == Init => IInv
<1> SUFFICES ASSUME Init PROVE IInv
  OBVIOUS
<1>1. TypeOK /\ HeapInv /\ PhaseInv
  BY TypeInit, HeapInit, PhaseInit
<1>2. SweepInv /\ ColourInv /\ TriColour /\ EmptyFields
  BY DEF Init, SweepInv, ColourInv, TriColour, EmptyFields
<1>3. StackInv
  BY EmptySeq DEF Init, StackInv, TracedOnly
<1>4. LiveInv
  <2>1. Referenced = {}
    BY NilAssumption DEF Init, Referenced
  <2>2. ClosedStored({})
    BY DEF ClosedStored
  <2>3. Live = {}
    BY <2>1, <2>2 DEF Live
  <2> QED
    BY <2>3 DEF Init, LiveInv
<1> QED
  BY <1>1, <1>2, <1>3, <1>4 DEF IInv

LEMMA InvNext == IInv /\ [Next]_vars => IInv'
<1> SUFFICES ASSUME IInv, [Next]_vars PROVE IInv'
  OBVIOUS
<1> USE DEF IInv
<1>1. MarkInv
  BY DEF MarkInv
<1>2. TypeOK' /\ HeapInv' /\ PhaseInv' /\ SweepInv'
  BY TypeNext, HeapNext, PhaseNext, SweepNext
<1>3. EmptyFields' /\ MarkInv'
  BY <1>1, EmptyFieldsNext, MarkNext
<1>4. ColourInv' /\ LiveInv'
  BY <1>1, ColourNext, LiveNext
<1> QED
  BY <1>2, <1>3, <1>4 DEF MarkInv

\* Lists, headers, colours and the sweep's cursor fit together in every state of
\* every collection, allocation and host call (gc.cpp:119-190, 261-281, 346-365).
THEOREM Invariance == Spec => []IInv
BY InvInit, InvNext, PTL DEF Spec

\* Marking keeps the tri-colour invariant: the objects gc_mark has finished
\* with never refer to one it has not reached (object.cpp:22-79).
THEOREM TriColourHolds == Spec => []TriColour
<1>1. IInv => TriColour
  BY DEF IInv
<1> QED
  BY <1>1, Invariance, PTL

\* No reference the program can follow leads to freed memory, whatever it does
\* and whenever collections run.
THEOREM NothingDangles == Spec => []NoDangling
<1>1. IInv => NoDangling
  BY DEF IInv, LiveInv, NoDangling
<1> QED
  BY <1>1, Invariance, PTL

\* A collection frees nothing the program can reach, and nothing reachable
\* through a field it has not initialised (gc.cpp:128-190).
THEOREM NothingLiveFreed == Spec => NeverFreesLive
<1>1. ASSUME IInv, [Next]_vars, NEW n \in Node,
             freed'[n], ~freed[n], pc = "sweep", after # "exited"
      PROVE  n \notin Live \cup InUse
  <2>1. TypeOK /\ HeapInv /\ SweepInv /\ LiveInv
    BY <1>1 DEF IInv
  <2>2. SweepFree /\ fault' = "none"
    BY <1>1 DEF Next, Program, Collector, Host, Ended, Running, Move, Load, Store,
                Paused, Allocate, ManualRun, Exit, MarkRoot, MarkField, MarkReturn,
                MarkEnd, SweepFree, SweepKeep, SweepEnd, TakeObject, OutOfMemory,
                Manage, Unmanage, Deallocate, vars, objectVars
  <2>3. raw[cursor] \in Node /\ freed' = [freed EXCEPT ![raw[cursor]] = TRUE]
    BY <2>1, <2>2, ElementOfSeq DEF SweepFree, BodyFreed, TypeOK
  <2>4. n = raw[cursor]
    BY <1>1, <2>1, <2>3 DEF TypeOK
  <2> QED
    BY <1>1, <2>1, <2>2, <2>4, SweepFreesGarbage
<1>2. IInv /\ [Next]_vars =>
        [\A n \in Node : freed'[n] /\ ~freed[n] /\ pc = "sweep" /\ after # "exited" =>
           n \notin Live \cup InUse]_vars
  BY <1>1
<1> QED
  BY <1>2, Invariance, PTL DEF Spec, NeverFreesLive

-----------------------------------------------------------------------------
(***************************************************************************)
(* A collection leaves exactly what is in use, as long as the host manages *)
(* no object of its own accord: a Buffer the program made unmanaged keeps  *)
(* the colour of a collection that has come across it.                     *)
(***************************************************************************)
HostManagesNothing == "manage" \notin HostCalls

LEMMA InUseClosed ==
  ASSUME TypeOK
  PROVE  InUse \subseteq Node /\ Rooted \subseteq InUse /\ Closed(InUse)
<1>1. InUse \subseteq Node /\ Rooted \subseteq InUse
  BY DEF InUse, Rooted
<1>2. ASSUME NEW n \in InUse, NEW f \in Field, field[n][f] # Nil
      PROVE  field[n][f] \in InUse
  <2>1. field[n][f] \in Node
    BY <1>1, <1>2 DEF TypeOK, Value
  <2>2. ASSUME NEW S \in SUBSET Node, Rooted \subseteq S, Closed(S)
        PROVE  field[n][f] \in S
    <3>1. n \in S
      BY <2>2 DEF InUse
    <3> QED
      BY <1>2, <2>2, <3>1 DEF Closed
  <2> QED
    BY <2>1, <2>2 DEF InUse
<1> QED
  BY <1>1, <1>2 DEF Closed

LEMMA InUseClosedNext == TypeOK' => (Rooted \subseteq InUse /\ Closed(InUse))'
<1>1. TypeOK => Rooted \subseteq InUse /\ Closed(InUse)
  BY InUseClosed
<1> QED
  BY <1>1, PTL

\* Clearing the fields of an object that is not in use leaves in use what was.
LEMMA GarbageAside ==
  ASSUME TypeOK, TypeOK', NEW n \in Node, n \notin InUse, BodyFreed(n),
         UNCHANGED <<root, managed>>
  PROVE  InUse' = InUse
<1> PICK U : U = InUse'
  OBVIOUS
<1>1. U \subseteq InUse /\ InUse \subseteq Node
  BY FreeingReachesLess, InUseClosed
<1>2. Rooted \subseteq U
  <2>1. Rooted' = Rooted
    BY DEF Rooted
  <2> QED
    BY <2>1, InUseClosedNext
<1>3. Closed(U)
  <2> SUFFICES ASSUME NEW m \in U, NEW f \in Field PROVE field[m][f] \in U \cup {Nil}
    BY DEF Closed
  <2>1. m # n /\ m \in Node
    BY <1>1
  <2>2. field'[m] = field[m]
    BY <2>1 DEF BodyFreed, TypeOK
  <2>3. field'[m][f] \in U \cup {Nil}
    BY InUseClosedNext DEF Closed
  <2> QED
    BY <2>2, <2>3
<1>4. InUse \subseteq U
  BY <1>1, <1>2, <1>3, InUseLeast
<1> QED
  BY <1>1, <1>4

\* A list that no node says it is in is empty.
LEMMA AllocatedMeans ==
  ASSUME TypeOK, ListsConsistent
  PROVE  /\ \A n \in Node : n \in Allocated <=> magic[n] = "allocated"
         /\ Allocated \subseteq Node
         /\ (\A n \in Node : magic[n] # "allocated") => nodes["allocated"] = <<>>
<1>1. nodes["allocated"] \in Seq(Node)
  BY DEF TypeOK, ListTypeOK, ListId
<1>2. \A i \in 1 .. Len(nodes["allocated"]) :
        nodes["allocated"][i] \in Node /\ magic[nodes["allocated"][i]] = "allocated"
  BY <1>1, ElementOfSeq DEF ListsConsistent, SlotsAgree, ListId
<1>3. ASSUME NEW n \in Node, magic[n] = "allocated" PROVE n \in Allocated
  BY <1>3 DEF ListsConsistent, MembersFound, Allocated
<1>4. ASSUME nodes["allocated"] # <<>> PROVE \E n \in Node : magic[n] = "allocated"
  <2>1. 1 \in 1 .. Len(nodes["allocated"])
    BY <1>1, <1>4, EmptySeq
  <2> QED
    BY <1>2, <2>1
<1> QED
  BY <1>2, <1>3, <1>4 DEF Allocated

\* A call of gc_mark colours and activates only what it is called for.
LEMMA GcMarkOnly ==
  ASSUME TypeOK, NEW v \in Node, NEW s \in Seq(Frame), GcMark(v, s), fault' = "none"
  PROVE  /\ \A n \in Node : n # v => color'[n] = color[n]
         /\ stack' = s \/ stack' = Push(s, v)
BY GcMarkCases DEF TypeOK

LEMMA MarkExactNext ==
  ASSUME TypeOK, MarkExact, pc = "mark", fault' = "none",
         MarkRoot \/ MarkField \/ MarkReturn
  PROVE  MarkExact'
<1> USE DEF listVars, markVars
<1> PICK U : U = InUse
  OBVIOUS
<1>1. U \subseteq Node /\ Rooted \subseteq U /\ Closed(U)
  BY InUseClosed
<1>2. UNCHANGED <<magic, managed, field, root>> /\ InUse' = U
  <2>1. UNCHANGED <<magic, managed, field, root>>
    BY DEF MarkRoot, MarkField, MarkReturn
  <2> QED
    BY <2>1 DEF InUse, Rooted, Closed
<1>3. Len(stack) \in Nat /\ stack \in Seq(Frame)
  BY LenProperties DEF TypeOK
<1>4. /\ \A n \in Node : magic[n] = "allocated" /\ color[n] # "white" => n \in U
      /\ \A i \in 1 .. Len(stack) : stack[i].node \in U
  BY DEF MarkExact
<1>5. ASSUME NEW v \in U, NEW s \in Seq(Frame), GcMark(v, s), Len(s) = Len(stack),
             \A i \in 1 .. Len(stack) : s[i].node = stack[i].node
      PROVE  MarkExact'
  <2>1. /\ \A n \in Node : n # v => color'[n] = color[n]
        /\ stack' = s \/ stack' = Push(s, v)
    BY <1>1, <1>5, GcMarkOnly
  <2>2. \A i \in 1 .. Len(stack') : stack'[i].node \in U
    <3>1. CASE stack' = s
      BY <1>4, <1>5, <3>1
    <3>2. CASE stack' = Push(s, v)
      <4>1. /\ Len(Push(s, v)) = Len(s) + 1
            /\ Push(s, v)[Len(s) + 1] = [node |-> v, next |-> 1]
            /\ \A i \in 1 .. Len(s) : Push(s, v)[i] = s[i]
        BY <1>1, PushSeq
      <4>2. \A i \in 1 .. Len(stack) + 1 : i = Len(stack) + 1 \/ i \in 1 .. Len(stack)
        BY <1>3
      <4> QED
        BY <1>4, <1>5, <3>2, <4>1, <4>2
    <3> QED
      BY <2>1, <3>1, <3>2
  <2> QED
    BY <1>2, <1>4, <2>1, <2>2 DEF MarkExact
<1>6. CASE UNCHANGED <<color, stack>>
  BY <1>2, <1>4, <1>6 DEF MarkExact
<1>7. CASE MarkRoot
  <2>1. root[root_pos] # Nil /\ managed[root[root_pos]] => root[root_pos] \in U
    <3>1. root_pos \in Root
      BY <1>7, GCAssumption DEF MarkRoot, Root, TypeOK
    <3> QED
      BY <1>1, <3>1 DEF Rooted, TypeOK, Value
  <2> QED
    BY <1>3, <1>5, <1>6, <1>7, <2>1 DEF MarkRoot
<1>8. CASE (MarkField \/ MarkReturn)
  <2>1. Len(stack) \in 1 .. Len(stack) /\ stack[Len(stack)] = Top /\ Top \in Frame
    <3>1. stack # <<>>
      BY <1>8 DEF MarkField, MarkReturn
    <3>2. Len(stack) \in 1 .. Len(stack)
      BY <1>3, <3>1, EmptySeq
    <3> QED
      BY <1>3, <3>2, ElementOfSeq DEF Top
  <2>2. Top.node \in U
    BY <1>4, <2>1
  <2>3. CASE MarkReturn
    <3>1. /\ color' = [color EXCEPT ![Top.node] = "black"] /\ stack' = PopBack(stack)
      BY <2>3 DEF MarkReturn
    <3>2. \A n \in Node : n # Top.node => color'[n] = color[n]
      BY <3>1 DEF TypeOK
    <3>3. \A i \in 1 .. Len(stack') : i \in 1 .. Len(stack) /\ stack'[i] = stack[i]
      BY <1>3, <2>1, <3>1, PopBackSeq
    <3> QED
      BY <1>2, <1>4, <2>2, <3>2, <3>3 DEF MarkExact
  <2>4. CASE MarkField
    <3>1. /\ Advance(stack) \in Seq(Frame) /\ Len(Advance(stack)) = Len(stack)
          /\ \A i \in 1 .. Len(stack) : Advance(stack)[i].node = stack[i].node
      <4>1. stack # <<>> /\ stack[Len(stack)].next <= NFields
        BY <2>4 DEF MarkField, Top
      <4>2. /\ Advance(stack) \in Seq(Frame) /\ Len(Advance(stack)) = Len(stack)
            /\ \A i \in 1 .. (Len(stack) - 1) : Advance(stack)[i] = stack[i]
            /\ Advance(stack)[Len(stack)] =
                 [node |-> stack[Len(stack)].node, next |-> stack[Len(stack)].next + 1]
        BY <1>3, <4>1, AdvanceSeq
      <4>3. Advance(stack)[Len(stack)].node = stack[Len(stack)].node
        BY <4>2
      <4>4. \A i \in 1 .. Len(stack) : i = Len(stack) \/ i \in 1 .. (Len(stack) - 1)
        BY <1>3
      <4> QED
        BY <4>2, <4>3, <4>4
    <3>2. CASE field[Top.node][Top.next] # Nil
      <4>1. Top.next \in Field
        BY <2>1, <2>4, GCAssumption DEF MarkField, Frame, Field
      <4>2. field[Top.node][Top.next] \in U
        BY <1>1, <2>2, <3>2, <4>1 DEF Closed
      <4>3. GcMark(field[Top.node][Top.next], Advance(stack))
        BY <2>4, <3>2 DEF MarkField
      <4> QED
        BY <1>5, <3>1, <4>2, <4>3
    <3>3. CASE field[Top.node][Top.next] = Nil
      <4>1. stack' = Advance(stack) /\ color' = color
        BY <2>4, <3>3 DEF MarkField
      <4> QED
        BY <1>2, <1>4, <3>1, <4>1 DEF MarkExact
    <3> QED
      BY <3>2, <3>3
  <2> QED
    BY <1>8, <2>3, <2>4
<1> QED
  BY <1>7, <1>8

LEMMA SweepStartsExact ==
  ASSUME IInv, MarkExact, MarkEnd
  PROVE  SweepExact' /\ after' # "exited"
<1>1. /\ TypeOK /\ HeapInv /\ EmptyFields /\ ColourInv /\ MarkInv /\ PhaseInv
  BY DEF IInv, MarkInv
<1>2. /\ pc = "mark" /\ fault = "none" /\ cursor = 1 /\ after # "exited"
      /\ raw' = nodes["allocated"] /\ cursor' = cursor
      /\ UNCHANGED <<magic, managed, color, field, root, after>>
  BY <1>1 DEF MarkEnd, PhaseInv, listVars, objectVars, callVars
<1>3. InUse' = InUse
  BY <1>2 DEF InUse, Rooted, Closed
<1>4. \A n \in Node : n \in Unvisited' <=> magic[n] = "allocated"
  BY <1>1, <1>2, UnvisitedStarts
<1>5. \A n \in InUse : color[n] # "white" \/ magic[n] = "null"
  BY <1>1, MarkedAll
<1> QED
  BY <1>2, <1>3, <1>4, <1>5 DEF SweepExact, MarkExact

LEMMA SweepExactNext ==
  ASSUME IInv, IInv', pc = "sweep", fault = "none", fault' = "none",
         SweepFree \/ SweepKeep
  PROVE  /\ SweepExact /\ after # "exited" => SweepExact'
         /\ ExitExact => ExitExact'
<1> PICK n : n = raw[cursor]
  OBVIOUS
<1>1. TypeOK /\ HeapInv /\ SweepInv /\ TypeOK'
  BY DEF IInv
<1>2. /\ n \in Node /\ magic[n] = "allocated" /\ n \in Unvisited
      /\ Unvisited' = Unvisited \ {n}
  BY <1>1, SweepVisits
<1>3. CASE SweepFree
  <2>1. /\ color[n] = "white" /\ color' = color /\ BodyFreed(n)
        /\ magic' = [magic EXCEPT ![n] = "free"]
        /\ UNCHANGED <<root, managed>>
    BY <1>3 DEF SweepFree, MoveToFree
  <2>2. \A m \in Node : magic'[m] = IF m = n THEN "free" ELSE magic[m]
    BY <1>1, <2>1 DEF TypeOK, ListTypeOK
  <2>3. ASSUME SweepExact, after # "exited" PROVE SweepExact'
    <3>1. n \notin InUse
      BY <1>2, <2>1, <2>3 DEF SweepExact
    <3>2. InUse' = InUse
      BY <1>1, <1>2, <2>1, <3>1, GarbageAside
    <3> QED
      BY <1>2, <2>1, <2>2, <2>3, <3>2 DEF SweepExact
  <2>4. ASSUME ExitExact PROVE ExitExact'
    BY <1>2, <2>1, <2>2, <2>4 DEF ExitExact
  <2> QED
    BY <2>3, <2>4
<1>4. CASE SweepKeep
  <2>1. /\ color[n] # "white" /\ color' = [color EXCEPT ![n] = "white"]
        /\ UNCHANGED <<magic, managed, root, field>>
    BY <1>4 DEF SweepKeep, listVars
  <2>2. InUse' = InUse
    BY <2>1 DEF InUse, Rooted, Closed
  <2>3. \A m \in Node : color'[m] = IF m = n THEN "white" ELSE color[m]
    BY <1>1, <2>1 DEF TypeOK
  <2>4. SweepExact => SweepExact'
    BY <1>2, <2>1, <2>2, <2>3 DEF SweepExact
  <2>5. ~ExitExact
    BY <1>2, <2>1 DEF ExitExact
  <2> QED
    BY <2>4, <2>5
<1> QED
  BY <1>3, <1>4

LEMMA SweepEndsExact ==
  ASSUME IInv, SweepEnd
  PROVE  /\ SweepExact => AllWhite /\ OnlyObjectsInUse /\ Allocated \subseteq InUse
         /\ ExitExact => nodes["allocated"] = <<>>
<1>1. TypeOK /\ HeapInv /\ fault = "none" /\ ListsConsistent
  BY DEF IInv, SweepEnd, HeapInv
<1>2. Unvisited = {}
  <2>1. cursor \in Nat /\ Len(raw) \in Nat /\ cursor > Len(raw)
    BY <1>1, LenProperties DEF TypeOK, SweepEnd
  <2> QED
    BY <2>1 DEF Unvisited
<1>3. /\ \A n \in Node : n \in Allocated <=> magic[n] = "allocated"
      /\ Allocated \subseteq Node
      /\ (\A n \in Node : magic[n] # "allocated") => nodes["allocated"] = <<>>
  BY <1>1, AllocatedMeans
<1>4. ASSUME SweepExact PROVE AllWhite /\ OnlyObjectsInUse /\ Allocated \subseteq InUse
  <2>1. \A n \in Allocated : n \in InUse /\ color[n] = "white"
    BY <1>2, <1>3, <1>4 DEF SweepExact
  <2>2. \A n \in Allocated : managed[n] /\ ~freed[n]
    <3>1. \A n \in Node : magic[n] = "allocated" => managed[n]
      BY <1>1, ManagedInList DEF ListsConsistent, SlotsAgree, MembersFound, ListId
    <3> QED
      BY <1>1, <1>3, <3>1 DEF HeapInv, HeadersAgree
  <2>3. \A n \in InUse : managed[n] /\ ~freed[n] => n \in Allocated
    <3>1. InUse \subseteq Node
      BY DEF InUse
    <3>2. \A n \in Node : magic[n] \in {"allocated", "free", "null"}
      BY <1>1 DEF TypeOK, ListTypeOK, ListId
    <3> QED
      BY <1>1, <1>3, <3>1, <3>2 DEF HeapInv, HeadersAgree, ListsConsistent, LooseUnmanaged
  <2>4. Allocated = {n \in InUse : managed[n] /\ ~freed[n]}
    BY <2>1, <2>2, <2>3
  <2> QED
    BY <1>3, <2>1, <2>4 DEF AllWhite, OnlyObjectsInUse
<1>5. ASSUME ExitExact PROVE nodes["allocated"] = <<>>
  BY <1>2, <1>3, <1>5 DEF ExitExact
<1> QED
  BY <1>4, <1>5

LEMMA ExactInit == Init => ExactInv
<1> SUFFICES ASSUME Init PROVE ExactInv
  OBVIOUS
<1>1. pc = "idle" /\ fault = "none" /\ next_run <= MaxObjects /\ AllWhite
  BY GCAssumption DEF Init, ListInit, AllWhite
<1> QED
  BY <1>1 DEF ExactInv, OutOfMemoryOnlyWhenFull, ExitFreesAll

LEMMA ExactNext ==
  ASSUME HostManagesNothing, IInv, IInv', ExactInv, [Next]_vars
  PROVE  ExactInv'
<1> USE DEF listVars, objectVars, markVars, sweepVars, triggerVars, callVars
<1>1. TypeOK /\ HeapInv /\ PhaseInv /\ next_run <= MaxObjects /\ next_run \in Nat
      /\ Len(nodes["allocated"]) \in Nat
  <2>1. nodes["allocated"] \in Seq(Node)
    BY DEF IInv, TypeOK, ListTypeOK, ListId
  <2> QED
    BY <2>1, LenProperties DEF IInv, ExactInv, TypeOK
\* a step that stays between collections, or ends the process
<1>2. ASSUME next_run' = next_run, fault' # "none", fault' # "out of memory", pc' # "exited"
      PROVE  ExactInv'
  BY <1>1, <1>2 DEF ExactInv, OutOfMemoryOnlyWhenFull, ExitFreesAll
<1>3. ASSUME next_run' = next_run, fault' = "none", pc' = "idle", AllWhite'
      PROVE  ExactInv'
  BY <1>1, <1>3 DEF ExactInv, OutOfMemoryOnlyWhenFull, ExitFreesAll
<1>4. CASE UNCHANGED vars
  <2>1. InUse' = InUse /\ Unvisited' = Unvisited /\ Allocated' = Allocated
    BY <1>4 DEF vars, InUse, Rooted, Closed, Unvisited, Allocated
  <2> QED
    BY <1>4, <2>1
    DEF vars, ExactInv, AllWhite, RoomToTake, MarkExact, SweepExact, ExitExact,
        OutOfMemoryOnlyWhenFull, ExitFreesAll
<1>5. CASE /\ pc = "idle" /\ fault = "none"
           /\ UNCHANGED <<magic, color, next_run, pc, fault>>
  BY <1>3, <1>5 DEF ExactInv, AllWhite
\* a collection begins
<1>6. CASE /\ pc = "idle" /\ fault = "none" /\ pc' = "mark" /\ fault' = "none"
           /\ UNCHANGED <<magic, color, stack>> /\ next_run' <= MaxObjects
  <2>1. stack' = <<>> /\ Len(stack') = 0
    BY <1>1, <1>6, EmptySeq DEF PhaseInv
  <2>2. MarkExact'
    BY <1>6, <2>1 DEF ExactInv, AllWhite, MarkExact
  <2> QED
    BY <1>6, <2>2 DEF ExactInv, OutOfMemoryOnlyWhenFull, ExitFreesAll
<1>7. ASSUME NEW req \in Request, Allocate(req) PROVE ExactInv'
  <2>1. /\ pc = "idle" /\ fault = "none" /\ fault' = "none"
        /\ UNCHANGED <<nodes, magic, color, stack, is_paused>>
    BY <1>7 DEF Allocate, Running
  <2>2. CASE GCDue
    <3>1. next_run' <= MaxObjects
      <4>1. CapAt(next_run + RunInterval, MaxObjects) <= MaxObjects
        BY <1>1, GCAssumption DEF CapAt
      <4> QED
        BY <1>7, <2>2, <4>1 DEF Allocate
    <3>2. pc' = "mark"
      BY <1>7, <2>2 DEF Allocate
    <3> QED
      BY <1>6, <2>1, <3>1, <3>2
  <2>3. CASE ~GCDue
    <3>1. pc' = "take" /\ next_run' = next_run
      BY <1>7, <2>3 DEF Allocate
    <3>2. is_paused \/ Len(nodes["allocated"]) < MaxObjects
      BY <1>1, <2>3, GCAssumption DEF GCDue
    <3>3. RoomToTake' /\ AllWhite'
      BY <2>1, <3>2 DEF RoomToTake, ExactInv, AllWhite
    <3> QED
      BY <1>1, <2>1, <3>1, <3>3 DEF ExactInv, OutOfMemoryOnlyWhenFull, ExitFreesAll
  <2> QED
    BY <2>2, <2>3
<1>8. CASE ManualRun
  BY <1>1, <1>6, <1>8 DEF ManualRun, Running
\* the last sweep begins
<1>9. CASE Exit
  <2>1. /\ pc = "idle" /\ fault = "none" /\ fault' = "none" /\ pc' = "sweep"
        /\ after' = "exited" /\ raw' = nodes["allocated"] /\ cursor = 1 /\ cursor' = cursor
        /\ UNCHANGED <<magic, color, next_run>>
    BY <1>1, <1>9 DEF Exit, Running, PhaseInv
  <2>2. \A n \in Node : n \in Unvisited' <=> magic[n] = "allocated"
    BY <1>1, <2>1, UnvisitedStarts
  <2>3. ExitExact'
    BY <2>1, <2>2 DEF ExactInv, AllWhite, ExitExact
  <2> QED
    BY <1>1, <2>1, <2>3 DEF ExactInv, OutOfMemoryOnlyWhenFull, ExitFreesAll
<1>10. CASE MarkRoot \/ MarkField \/ MarkReturn
  <2>1. /\ pc = "mark" /\ fault = "none" /\ pc' = "mark" /\ next_run' = next_run
        /\ fault' \in {"none", "null fields"}
    BY <1>10 DEF MarkRoot, MarkField, MarkReturn, GcMark
  <2>2. CASE fault' = "none"
    <3>1. MarkExact'
      BY <1>1, <1>10, <2>1, <2>2, MarkExactNext DEF ExactInv
    <3> QED
      BY <1>1, <2>1, <2>2, <3>1 DEF ExactInv, OutOfMemoryOnlyWhenFull, ExitFreesAll
  <2> QED
    BY <1>2, <2>1, <2>2
<1>11. CASE MarkEnd
  <2>1. /\ pc = "mark" /\ fault = "none" /\ fault' = "none" /\ pc' = "sweep"
        /\ next_run' = next_run
    BY <1>11 DEF MarkEnd
  <2>2. SweepExact' /\ after' # "exited"
    BY <1>11, <2>1, SweepStartsExact DEF ExactInv
  <2> QED
    BY <1>1, <2>1, <2>2 DEF ExactInv, OutOfMemoryOnlyWhenFull, ExitFreesAll
<1>12. CASE SweepFree \/ SweepKeep
  <2>1. /\ pc = "sweep" /\ fault = "none" /\ pc' = "sweep" /\ next_run' = next_run
        /\ after' = after /\ fault' # "out of memory"
    BY <1>12 DEF SweepFree, SweepKeep, FreeFault
  <2>2. CASE fault' = "none"
    <3>1. IF after' = "exited" THEN ExitExact' ELSE SweepExact'
      BY <1>12, <2>1, <2>2, SweepExactNext DEF ExactInv
    <3> QED
      BY <1>1, <2>1, <2>2, <3>1 DEF ExactInv, OutOfMemoryOnlyWhenFull, ExitFreesAll
  <2> QED
    BY <1>2, <2>1, <2>2
<1>13. CASE SweepEnd
  <2>1. /\ pc = "sweep" /\ fault = "none" /\ fault' = "none" /\ pc' = after
        /\ after \in {"idle", "take", "exited"}
        /\ UNCHANGED <<nodes, magic, color, managed, field, root, next_run, is_paused>>
    BY <1>1, <1>13 DEF SweepEnd, TypeOK
  <2>2. CASE after = "exited"
    <3>1. nodes'["allocated"] = <<>>
      BY <1>13, <2>1, <2>2, SweepEndsExact DEF ExactInv
    <3> QED
      BY <1>1, <2>1, <2>2, <3>1 DEF ExactInv, OutOfMemoryOnlyWhenFull, ExitFreesAll
  <2>3. CASE after # "exited"
    <3>1. AllWhite /\ Allocated \subseteq InUse
      BY <1>13, <2>1, <2>3, SweepEndsExact DEF ExactInv
    <3>2. InUse' = InUse /\ Allocated' = Allocated
      BY <2>1 DEF InUse, Rooted, Closed, Allocated
    <3>3. AllWhite' /\ RoomToTake'
      BY <2>1, <3>1, <3>2 DEF AllWhite, RoomToTake
    <3> QED
      BY <1>1, <2>1, <2>3, <3>3 DEF ExactInv, OutOfMemoryOnlyWhenFull, ExitFreesAll
  <2> QED
    BY <2>2, <2>3
<1>14. ASSUME NEW n \in Node, NEW contents \in [Field -> Value], TakeObject(n, contents)
       PROVE  ExactInv'
  <2>1. /\ pc = "take" /\ fault = "none" /\ fault' = "none" /\ pc' = "idle"
        /\ next_run' = next_run /\ color' = [color EXCEPT ![n] = "white"]
        /\ \E t : magic' = [magic EXCEPT ![n] = t]
    BY <1>14 DEF TakeObject, TakeNode, Construct
  <2>2. AllWhite'
    BY <1>1, <2>1 DEF ExactInv, AllWhite, TypeOK, ListTypeOK
  <2> QED
    BY <1>3, <2>1, <2>2
<1>15. CASE OutOfMemory
  <2>1. /\ pc = "take" /\ pc' = "take" /\ fault = "none" /\ fault' = "out of memory"
        /\ Len(nodes["allocated"]) >= MaxObjects
        /\ UNCHANGED <<nodes, managed, field, root, is_paused, next_run>>
    BY <1>15 DEF OutOfMemory
  <2>2. is_paused \/ Allocated \subseteq InUse
    <3>1. RoomToTake
      BY <2>1 DEF ExactInv
    <3>2. \A k \in Nat : k >= MaxObjects => ~(k < MaxObjects)
      BY GCAssumption
    <3>3. ~(Len(nodes["allocated"]) < MaxObjects)
      BY <1>1, <2>1, <3>2
    <3> QED
      BY <3>1, <3>3 DEF RoomToTake
  <2>3. InUse' = InUse /\ Allocated' = Allocated
    BY <2>1 DEF InUse, Rooted, Closed, Allocated
  <2> QED
    BY <1>1, <2>1, <2>2, <2>3 DEF ExactInv, OutOfMemoryOnlyWhenFull, ExitFreesAll
<1>16. ASSUME NEW n \in Node, Deallocate(n) PROVE ExactInv'
  <2>1. /\ pc = "idle" /\ pc' = "idle" /\ fault = "none" /\ next_run' = next_run
        /\ fault' # "out of memory" /\ color' = color
        /\ fault' = "none" => magic' = magic \/ magic' = [magic EXCEPT ![n] = "free"]
    BY <1>16 DEF Deallocate, Running, FreeFault, MoveToFree
  <2>2. fault' = "none" => AllWhite'
    BY <1>1, <2>1 DEF ExactInv, AllWhite, TypeOK, ListTypeOK
  <2> QED
    BY <1>2, <1>3, <2>1, <2>2
<1>17. ASSUME NEW n \in Node, Manage(n) \/ Unmanage(n) PROVE ExactInv'
  <2>1. Unmanage(n)
    BY <1>17 DEF Manage, HostManagesNothing
  <2>2. /\ pc = "idle" /\ pc' = "idle" /\ next_run' = next_run
        /\ fault' \in {"unmanage", "remove", "remove unmanaged"}
    BY <2>1 DEF Unmanage, Running
  <2> QED
    BY <1>2, <2>2
<1> QED
  BY <1>4, <1>5, <1>7, <1>8, <1>9, <1>10, <1>11, <1>12, <1>13, <1>14, <1>15, <1>16, <1>17
  DEF Next, Program, Collector, Host, Ended, Running, Move, Load, Store, Paused

LEMMA ExactInvariance ==
  ASSUME HostManagesNothing
  PROVE  Spec => [](IInv /\ ExactInv)
<1>1. Init => IInv /\ ExactInv
  BY InvInit, ExactInit
<1>2. (IInv /\ ExactInv) /\ [Next]_vars => (IInv /\ ExactInv)'
  BY InvNext, ExactNext
<1> QED
  BY <1>1, <1>2, PTL DEF Spec

\* Between collections every managed object is white, whatever was allocated,
\* marked and swept before; a mark colours nothing that is not in use, a sweep
\* keeps what is coloured and nothing else (gc.cpp:111-190, 263-276).
THEOREM CollectionsStayExact ==
  ASSUME HostManagesNothing
  PROVE  Spec => []ExactInv
<1>1. IInv /\ ExactInv => ExactInv
  OBVIOUS
<1> QED
  BY <1>1, ExactInvariance, PTL

\* A sweep ends with exactly the objects in use left, all white again, although
\* each removal moves the last node into the vector the sweep is iterating over
\* (gc.cpp:168-190, 461-485).
THEOREM CollectionsAreExact ==
  ASSUME HostManagesNothing
  PROVE  Spec => CollectionExact
<1>1. ASSUME IInv, ExactInv, [Next]_vars, pc = "sweep", pc' \in {"idle", "take"}
      PROVE  OnlyObjectsInUse'
  <2>1. SweepEnd /\ pc' = after
    BY <1>1 DEF Next, Program, Collector, Host, Ended, Running, Move, Load, Store,
                Paused, Allocate, ManualRun, Exit, MarkRoot, MarkField, MarkReturn,
                MarkEnd, SweepFree, SweepKeep, SweepEnd, TakeObject, OutOfMemory,
                Manage, Unmanage, Deallocate, vars
  <2>2. after # "exited" /\ fault = "none"
    BY <1>1, <2>1 DEF SweepEnd
  <2>3. OnlyObjectsInUse
    BY <1>1, <2>1, <2>2, SweepEndsExact DEF ExactInv
  <2>4. InUse' = InUse /\ Allocated' = Allocated /\ UNCHANGED <<managed, freed, color>>
    BY <2>1 DEF SweepEnd, listVars, objectVars, InUse, Rooted, Closed, Allocated
  <2> QED
    BY <2>3, <2>4 DEF OnlyObjectsInUse
<1>2. (IInv /\ ExactInv) /\ [Next]_vars =>
        [pc = "sweep" /\ pc' \in {"idle", "take"} => OnlyObjectsInUse']_vars
  BY <1>1
<1> QED
  BY <1>2, ExactInvariance, PTL DEF Spec, CollectionExact

\* The panic for lack of memory comes only when the program has paused the
\* collector or really uses MaxObjects objects, whatever the run interval and
\* the order of allocations and collections (gc.cpp:263-276).
THEOREM MemoryRunsOutOnlyWhenFull ==
  ASSUME HostManagesNothing
  PROVE  Spec => []OutOfMemoryOnlyWhenFull
<1>1. IInv /\ ExactInv => OutOfMemoryOnlyWhenFull
  BY DEF ExactInv
<1> QED
  BY <1>1, ExactInvariance, PTL

\* The sweep of the destructor, which marks nothing, frees every managed object:
\* every collection before it has left all of them white (gc.cpp:86-94, 173-190).
THEOREM ExitFreesEverything ==
  ASSUME HostManagesNothing
  PROVE  Spec => []ExitFreesAll
<1>1. IInv /\ ExactInv => ExitFreesAll
  BY DEF ExactInv
<1> QED
  BY <1>1, ExactInvariance, PTL
=============================================================================
