-------------------------- MODULE MalangGC_proofs ---------------------------
(***************************************************************************)
(* Type correctness of MalangGC, for any number of nodes, roots and fields *)
(* and any limits, and its lists: they stay sound under every step of the  *)
(* program, the collector and the host, sweep included, and none of the    *)
(* checks in append, remove and free_object ever fails.                    *)
(***************************************************************************)
EXTENDS MalangGCInv, GCList_proofs

-----------------------------------------------------------------------------
(* What the operations on the stack of gc_mark return.                     *)

LEMMA PushSeq ==
  ASSUME NEW s \in Seq(Frame), NEW n \in Node
  PROVE  /\ Push(s, n) \in Seq(Frame)
         /\ Len(Push(s, n)) = Len(s) + 1
         /\ Push(s, n)[Len(s) + 1] = [node |-> n, next |-> 1]
         /\ \A i \in 1 .. Len(s) : Push(s, n)[i] = s[i]
<1>1. [node |-> n, next |-> 1] \in Frame
  BY GCAssumption DEF Frame
<1> QED
  BY <1>1, AppendProperties DEF Push

LEMMA AdvanceSeq ==
  ASSUME NEW s \in Seq(Frame), s # <<>>, s[Len(s)].next <= NFields
  PROVE  /\ Advance(s) \in Seq(Frame)
         /\ Len(Advance(s)) = Len(s)
         /\ \A i \in 1 .. (Len(s) - 1) : Advance(s)[i] = s[i]
         /\ Advance(s)[Len(s)] =
              [node |-> s[Len(s)].node, next |-> s[Len(s)].next + 1]
<1>1. Len(s) \in 1 .. Len(s)
  BY EmptySeq
<1>2. s[Len(s)] \in Frame
  BY <1>1, ElementOfSeq
<1>3. [s[Len(s)] EXCEPT !.next = @ + 1] =
        [node |-> s[Len(s)].node, next |-> s[Len(s)].next + 1]
  BY <1>2 DEF Frame
<1>4. [s[Len(s)] EXCEPT !.next = @ + 1] \in Frame
  BY <1>2, <1>3, GCAssumption DEF Frame
<1>5. Advance(s) = [s EXCEPT ![Len(s)] = [s[Len(s)] EXCEPT !.next = @ + 1]]
  BY DEF Advance
<1> QED
  BY <1>1, <1>3, <1>4, <1>5, ExceptSeq

-----------------------------------------------------------------------------
(* Type correctness.                                                       *)

\* A call of gc_mark keeps the types.
LEMMA GcMarkType ==
  ASSUME TypeOK, NEW n \in Node, NEW s \in Seq(Frame), GcMark(n, s)
  PROVE  color' \in [Node -> Color] /\ stack' \in Seq(Frame) /\ fault' \in Fault
<1>1. color' \in [Node -> Color]
  BY DEF GcMark, TypeOK, Color
<1>2. Push(s, n) \in Seq(Frame)
  BY PushSeq
<1>3. stack' \in Seq(Frame)
  BY <1>2 DEF GcMark
<1>4. fault' \in Fault
  BY DEF GcMark, TypeOK, Fault
<1> QED
  BY <1>1, <1>3, <1>4

\* Setting up a fresh object keeps the types of its header and fields.
LEMMA ConstructType ==
  ASSUME TypeOK, NEW n \in Node, NEW t \in Tag, NEW contents \in [Field -> Value],
         Construct(n, t, contents)
  PROVE  /\ tag' \in [Node -> Tag]
         /\ color' \in [Node -> Color]
         /\ freed' \in [Node -> BOOLEAN]
         /\ field' \in [Node -> [Field -> Value]]
         /\ stale' \subseteq Node \X Field
BY DEF Construct, TypeOK, Color, NoFields, Value

\* So does releasing the body of one.
LEMMA BodyFreedType ==
  ASSUME TypeOK, NEW n \in Node, BodyFreed(n)
  PROVE  /\ freed' \in [Node -> BOOLEAN]
         /\ field' \in [Node -> [Field -> Value]]
         /\ stale' \subseteq Node \X Field
BY DEF BodyFreed, TypeOK, NoFields, Value

LEMMA TypeInit == Init => TypeOK
<1> SUFFICES ASSUME Init PROVE TypeOK
  OBVIOUS
<1>1. ListTypeOK
  BY EmptySeq DEF Init, ListInit, ListTypeOK, ListId
<1>2. /\ 1 \in Root
      /\ NoRequest \in Request
      /\ NoFields \in [Field -> Value]
      /\ <<>> \in Seq(Frame) /\ <<>> \in Seq(Node)
  BY GCAssumption, EmptySeq DEF Root, NoRequest, Request, Tag, NoFields, Value
<1>3. root \in [Root -> Value] /\ stale \subseteq Node \X Field /\ next_run \in Nat
  BY GCAssumption DEF Init, Value
<1>4. tag \in [Node -> Tag] /\ color \in [Node -> Color] /\ freed \in [Node -> BOOLEAN]
  BY DEF Init, Tag, Color
<1>5. field \in [Node -> [Field -> Value]] /\ request \in Request
  BY <1>2 DEF Init
<1>6. root_pos \in 1 .. (NRoots + 1) /\ stack \in Seq(Frame) /\ raw \in Seq(Node)
  BY <1>2, GCAssumption DEF Init
<1>7. is_paused \in BOOLEAN
  BY DEF Init
<1>8. /\ cursor \in Nat \ {0} /\ fault \in Fault
      /\ pc \in {"idle", "mark", "sweep", "take", "exited"}
      /\ after \in {"idle", "take", "exited"}
  BY DEF Init, Fault
<1> QED
  BY <1>1, <1>3, <1>4, <1>5, <1>6, <1>7, <1>8 DEF TypeOK

LEMMA TypeNext == TypeOK /\ [Next]_vars => TypeOK'
<1> SUFFICES ASSUME TypeOK, [Next]_vars PROVE TypeOK'
  OBVIOUS
<1> USE DEF listVars, objectVars, markVars, sweepVars, triggerVars, callVars
<1>L. UNCHANGED listVars => ListTypeOK'
  BY DEF TypeOK, ListTypeOK
<1>1. CASE UNCHANGED vars
  BY <1>1 DEF vars, TypeOK, ListTypeOK
<1>2. ASSUME NEW dst \in Root, NEW v \in Value, Move(dst, v) PROVE TypeOK'
  BY <1>2, <1>L DEF Move, TypeOK
<1>3. ASSUME NEW dst \in Root, NEW n \in Node, NEW f \in Field, Load(dst, n, f)
      PROVE  TypeOK'
  BY <1>3, <1>L DEF Load, TypeOK
<1>4. ASSUME NEW n \in Node, NEW f \in Field, NEW v \in Value, Store(n, f, v)
      PROVE  TypeOK'
  BY <1>4, <1>L DEF Store, TypeOK
<1>5. ASSUME NEW value \in BOOLEAN, Paused(value) PROVE TypeOK'
  BY <1>5, <1>L DEF Paused, TypeOK
<1>6. ASSUME NEW req \in Request, Allocate(req) PROVE TypeOK'
  <2>1. next_run' \in Nat
    BY <1>6, GCAssumption DEF Allocate, CapAt, TypeOK
  <2> QED
    BY <1>6, <1>L, <2>1 DEF Allocate, TypeOK
<1>7. CASE ManualRun
  BY <1>7, <1>L DEF ManualRun, TypeOK
<1>8. CASE Exit
  BY <1>8, <1>L DEF Exit, TypeOK, ListTypeOK, ListId
<1>9. CASE MarkRoot
  <2>0. root_pos' \in 1 .. (NRoots + 1)
    BY <1>9, GCAssumption DEF MarkRoot, TypeOK
  <2>1. CASE root[root_pos] # Nil /\ managed[root[root_pos]]
    <3>1. root[root_pos] \in Node /\ GcMark(root[root_pos], stack)
      BY <1>9, <2>1, GCAssumption DEF MarkRoot, TypeOK, Root, Value
    <3>2. color' \in [Node -> Color] /\ stack' \in Seq(Frame) /\ fault' \in Fault
      BY <3>1, GcMarkType DEF TypeOK
    <3> QED
      BY <1>9, <1>L, <2>0, <3>2 DEF MarkRoot, TypeOK
  <2>2. CASE ~(root[root_pos] # Nil /\ managed[root[root_pos]])
    BY <1>9, <1>L, <2>0, <2>2 DEF MarkRoot, TypeOK
  <2> QED
    BY <2>1, <2>2
<1>10. CASE MarkField
  <2> DEFINE v == field[Top.node][Top.next]
  <2>0. /\ stack \in Seq(Frame) /\ stack # <<>>
        /\ stack[Len(stack)].next <= NFields
    BY <1>10 DEF MarkField, Top, TypeOK
  <2>1. Top \in Frame /\ Top.next <= NFields /\ Advance(stack) \in Seq(Frame)
    <3>1. Len(stack) \in 1 .. Len(stack)
      BY <2>0, EmptySeq
    <3>2. Advance(stack) \in Seq(Frame)
      BY <2>0, AdvanceSeq
    <3> QED
      BY <2>0, <3>1, <3>2, ElementOfSeq DEF Top
  <2>2. v \in Value
    BY <2>1, GCAssumption DEF Frame, TypeOK, Field
  <2>3. color' \in [Node -> Color] /\ stack' \in Seq(Frame) /\ fault' \in Fault
    <3>1. CASE v # Nil
      <4>1. v \in Node /\ GcMark(v, Advance(stack))
        BY <1>10, <2>2, <3>1 DEF MarkField, Value
      <4> QED
        BY <4>1, <2>1, GcMarkType
    <3>2. CASE v = Nil
      BY <1>10, <2>1, <3>2 DEF MarkField, TypeOK
    <3> QED
      BY <3>1, <3>2
  <2> QED
    BY <1>10, <1>L, <2>3 DEF MarkField, TypeOK
<1>11. CASE MarkReturn
  <2>1. PopBack(stack) \in Seq(Frame)
    BY <1>11, PopBackSeq DEF MarkReturn, TypeOK
  <2> QED
    BY <1>11, <1>L, <2>1 DEF MarkReturn, TypeOK, Color
<1>12. CASE MarkEnd
  BY <1>12, <1>L, GCAssumption DEF MarkEnd, TypeOK, ListTypeOK, ListId
<1>13. CASE SweepFree
  <2> DEFINE n == raw[cursor]
             a == nodes["allocated"]
  <2>1. n \in Node
    BY <1>13, ElementOfSeq DEF SweepFree, TypeOK
  <2>2. fault' \in Fault
    BY <1>13 DEF SweepFree, FreeFault, Fault
  <2>3. CASE fault' = "none"
    <3>1. BodyFreed(n) /\ MoveToFree(n) /\ ~RemovePanics("allocated", n)
      BY <1>13, <2>3 DEF SweepFree, FreeFault
    <3>2. ListTypeOK'
      BY <2>1, <3>1, MoveToFreeType DEF TypeOK
    <3>3. a[Len(a)] \in Node
      BY <3>1, EmptySeq, ElementOfSeq DEF RemovePanics, TypeOK, ListTypeOK, ListId
    <3>4. raw' \in Seq(Node)
      <4>1. raw' = [raw EXCEPT ![lookup_index[n] + 1] = a[Len(a)]]
        BY <1>13, <2>3 DEF SweepFree
      <4>2. raw' \in [1 .. Len(raw) -> Node] /\ Len(raw) \in Nat
        BY <4>1, <3>3, ElementOfSeq, LenProperties DEF TypeOK
      <4> QED
        BY <4>2, SeqDef
    <3> QED
      BY <1>13, <2>1, <2>2, <3>1, <3>2, <3>4, BodyFreedType DEF SweepFree, TypeOK
  <2>4. CASE fault' # "none"
    BY <1>13, <1>L, <2>2, <2>4 DEF SweepFree, TypeOK
  <2> QED
    BY <2>3, <2>4
<1>14. CASE SweepKeep
  BY <1>14, <1>L, ElementOfSeq DEF SweepKeep, TypeOK, Color
<1>15. CASE SweepEnd
  BY <1>15, <1>L, EmptySeq DEF SweepEnd, TypeOK
<1>16. ASSUME NEW n \in Node, NEW contents \in [Field -> Value],
              TakeObject(n, contents)
       PROVE  TypeOK'
  <2>1. /\ request.tag \in Tag /\ request.is_managed \in BOOLEAN
        /\ request.dst \in Root
    BY DEF TypeOK, Request
  <2>2. ListTypeOK'
    BY <1>16, <2>1, TakeNodeType DEF TakeObject, TypeOK
  <2>3. NoRequest \in Request
    BY GCAssumption DEF NoRequest, Request, Tag, Root
  <2>4. root' \in [Root -> Value]
    BY <1>16, <2>1 DEF TakeObject, TypeOK, Value
  <2> QED
    BY <1>16, <2>1, <2>2, <2>3, <2>4, ConstructType DEF TakeObject, TypeOK
<1>17. CASE OutOfMemory
  BY <1>17, <1>L DEF OutOfMemory, TypeOK, Fault
<1>18. ASSUME NEW n \in Node, Manage(n) PROVE TypeOK'
  <2>1. ListTypeOK'
    BY <1>18, <1>L, AppendAllocatedType DEF Manage, TypeOK
  <2> QED
    BY <1>18, <2>1 DEF Manage, TypeOK, Fault
<1>19. ASSUME NEW n \in Node, Unmanage(n) PROVE TypeOK'
  <2>1. ListTypeOK'
    BY <1>19 DEF Unmanage, TypeOK, ListTypeOK
  <2> QED
    BY <1>19, <2>1 DEF Unmanage, TypeOK, Fault
<1>20. ASSUME NEW n \in Node, Deallocate(n) PROVE TypeOK'
  <2>1. fault' \in Fault
    BY <1>20 DEF Deallocate, FreeFault, Fault, TypeOK
  <2>2. CASE BodyFreed(n) /\ UNCHANGED listVars
    BY <1>20, <1>L, <2>1, <2>2, BodyFreedType DEF Deallocate, TypeOK
  <2>3. CASE BodyFreed(n) /\ MoveToFree(n) /\ ~RemovePanics("allocated", n)
    BY <1>20, <2>1, <2>3, BodyFreedType, MoveToFreeType DEF Deallocate, TypeOK
  <2>4. CASE UNCHANGED <<listVars, freed, field, stale>>
    BY <1>20, <1>L, <2>1, <2>4 DEF Deallocate, TypeOK
  <2> QED
    BY <1>20, <2>2, <2>3, <2>4 DEF Deallocate, FreeFault
<1> QED
  BY <1>1, <1>2, <1>3, <1>4, <1>5, <1>6, <1>7, <1>8, <1>9, <1>10, <1>11, <1>12,
     <1>13, <1>14, <1>15, <1>16, <1>17, <1>18, <1>19, <1>20
  DEF Next, Program, Collector, Host, Ended

\* Every variable keeps its type: no index, cursor or reference of the
\* collector ever leaves its range.
THEOREM TypeCorrect == Spec => []TypeOK
BY TypeInit, TypeNext, PTL DEF Spec
-----------------------------------------------------------------------------
(* Lists and headers.                                                      *)

\* A step that touches neither lists nor headers.
LEMMA HeapUntouched ==
  ASSUME HeapInv, fault = "none",
         UNCHANGED <<listVars, tag, freed>>,
         request' = request \/ request'.is_managed \/ request'.tag = "Buffer"
  PROVE  HeapInv'
BY DEF HeapInv, HeadersAgree, ListsConsistent, SlotsAgree, MembersFound,
       LooseUnmanaged, listVars

\* A managed node that is not free is in the allocated list, and the checks of
\* remove and free_object pass; an unmanaged one is in no list.
LEMMA ManagedInList ==
  ASSUME TypeOK, ListsConsistent, HeadersAgree, NEW n \in Node
  PROVE  /\ managed[n] /\ ~freed[n] =>
              magic[n] = "allocated" /\ nodes["allocated"] # <<>>
         /\ ~managed[n] => magic[n] = "null"
         /\ magic[n] = "allocated" => managed[n] /\ FreeFault(n) = "none"
<1>1. magic[n] \in ListId => managed[n] /\ nodes[magic[n]] # <<>>
  <2> SUFFICES ASSUME magic[n] \in ListId
               PROVE  managed[n] /\ nodes[magic[n]] # <<>>
    OBVIOUS
  <2>1. /\ lookup_index[n] + 1 \in 1 .. Len(nodes[magic[n]])
        /\ nodes[magic[n]][lookup_index[n] + 1] = n
    BY DEF ListsConsistent, MembersFound, ListId
  <2>2. managed[n]
    BY <2>1 DEF ListsConsistent, SlotsAgree
  <2>3. nodes[magic[n]] # <<>>
    BY <2>1, EmptySeq DEF TypeOK, ListTypeOK
  <2> QED
    BY <2>2, <2>3
<1>2. magic[n] \in ListId \cup {"null"}
  BY DEF TypeOK, ListTypeOK
<1>3. managed[n] /\ ~freed[n] => magic[n] = "allocated"
  BY <1>2 DEF ListsConsistent, LooseUnmanaged, HeadersAgree, ListId
<1>4. magic[n] = "allocated" =>
        managed[n] /\ ~freed[n] /\ nodes["allocated"] # <<>>
  BY <1>1 DEF HeadersAgree, ListId
<1>5. magic[n] = "allocated" => FreeFault(n) = "none"
  BY <1>4 DEF FreeFault, RemovePanics
<1> QED
  BY <1>1, <1>2, <1>3, <1>4, <1>5

\* Freeing a managed node keeps lists and headers.
LEMMA FreeManagedHeap ==
  ASSUME TypeOK, HeapInv, fault = "none", NEW n \in Node, FreeFault(n) = "none",
         BodyFreed(n), MoveToFree(n), UNCHANGED <<tag, request>>
  PROVE  HeapInv'
<1>1. ~RemovePanics("allocated", n)
  BY DEF FreeFault
<1>2. ListsConsistent'
  BY <1>1, MoveToFreeConsistent DEF TypeOK, HeapInv
<1>3. HeadersAgree'
  <2>1. /\ magic' = [magic EXCEPT ![n] = "free"]
        /\ freed' = [freed EXCEPT ![n] = TRUE]
    BY DEF MoveToFree, BodyFreed
  <2> QED
    BY <2>1 DEF TypeOK, ListTypeOK, HeapInv, HeadersAgree
<1> QED
  BY <1>2, <1>3 DEF HeapInv

LEMMA HeapInit == Init => HeapInv
<1> SUFFICES ASSUME Init PROVE ListsConsistent /\ HeadersAgree
  BY DEF HeapInv
<1>1. ListsConsistent
  BY ListInitConsistent DEF Init
<1> QED
  BY <1>1 DEF Init, ListInit, HeadersAgree, NoRequest

LEMMA HeapNext == TypeOK /\ HeapInv /\ [Next]_vars => HeapInv'
<1> SUFFICES ASSUME TypeOK, HeapInv, [Next]_vars PROVE HeapInv'
  OBVIOUS
<1> USE DEF objectVars, markVars, sweepVars, triggerVars, callVars
<1>1. CASE UNCHANGED vars
  BY <1>1 DEF vars, listVars, HeapInv, HeadersAgree, ListsConsistent, SlotsAgree,
              MembersFound, LooseUnmanaged
<1>2. ASSUME NEW dst \in Root, NEW v \in Value, Move(dst, v) PROVE HeapInv'
  BY <1>2, HeapUntouched DEF Move, Running
<1>3. ASSUME NEW dst \in Root, NEW n \in Node, NEW f \in Field, Load(dst, n, f)
      PROVE  HeapInv'
  BY <1>3, HeapUntouched DEF Load, Running
<1>4. ASSUME NEW n \in Node, NEW f \in Field, NEW v \in Value, Store(n, f, v)
      PROVE  HeapInv'
  BY <1>4, HeapUntouched DEF Store, Running
<1>5. ASSUME NEW value \in BOOLEAN, Paused(value) PROVE HeapInv'
  BY <1>5, HeapUntouched DEF Paused, Running
<1>6. ASSUME NEW req \in Request, Allocate(req) PROVE HeapInv'
  BY <1>6, HeapUntouched DEF Allocate, Running
<1>7. CASE ManualRun
  BY <1>7, HeapUntouched DEF ManualRun, Running
<1>8. CASE Exit
  BY <1>8, HeapUntouched DEF Exit, Running
<1>9. CASE MarkRoot
  BY <1>9, HeapUntouched DEF MarkRoot
<1>10. CASE MarkField
  BY <1>10, HeapUntouched DEF MarkField
<1>11. CASE MarkReturn
  BY <1>11, HeapUntouched DEF MarkReturn
<1>12. CASE MarkEnd
  BY <1>12, HeapUntouched DEF MarkEnd
<1>13. CASE SweepFree
  <2> DEFINE n == raw[cursor]
  <2>1. n \in Node
    BY <1>13, ElementOfSeq DEF SweepFree, TypeOK
  <2>2. CASE fault' = "none"
    <3>1. /\ FreeFault(n) = "none" /\ BodyFreed(n) /\ MoveToFree(n)
          /\ UNCHANGED <<tag, request>> /\ fault = "none"
      BY <1>13, <2>2 DEF SweepFree
    <3> QED
      BY <2>1, <3>1, FreeManagedHeap
  <2>3. CASE fault' # "none"
    BY <2>3 DEF HeapInv
  <2> QED
    BY <2>2, <2>3
<1>14. CASE SweepKeep
  BY <1>14, HeapUntouched DEF SweepKeep
<1>15. CASE SweepEnd
  BY <1>15, HeapUntouched DEF SweepEnd
<1>16. ASSUME NEW n \in Node, NEW contents \in [Field -> Value],
              TakeObject(n, contents)
       PROVE  HeapInv'
  <2> DEFINE m == request.is_managed
  <2>1. m \in BOOLEAN /\ TakeNode(n, m) /\ fault = "none"
    BY <1>16 DEF TakeObject, TypeOK, Request
  <2>2. ListsConsistent'
    BY <2>1, TakeNodeConsistent DEF TypeOK, HeapInv
  <2>3. /\ magic' = [magic EXCEPT ![n] = IF m THEN "allocated" ELSE "null"]
        /\ tag' = [tag EXCEPT ![n] = request.tag]
        /\ freed' = [freed EXCEPT ![n] = FALSE]
        /\ request' = NoRequest
    BY <1>16, <2>1 DEF TakeObject, TakeNode, Construct
  <2>4. m \/ request.tag = "Buffer"
    BY <2>1 DEF HeapInv, HeadersAgree
  <2>5. request'.is_managed
    BY <2>3 DEF NoRequest
  <2>6. HeadersAgree'
    <3> SUFFICES ASSUME NEW x \in Node
                 PROVE  /\ magic'[x] = "allocated" => ~freed'[x]
                        /\ magic'[x] = "free" => freed'[x]
                        /\ magic'[x] = "null" => tag'[x] = "Buffer"
      BY <2>5 DEF HeadersAgree
    <3>1. CASE x = n
      BY <3>1, <2>1, <2>3, <2>4 DEF TypeOK, ListTypeOK
    <3>2. CASE x # n
      BY <3>2, <2>1, <2>3 DEF TypeOK, ListTypeOK, HeapInv, HeadersAgree
    <3> QED
      BY <3>1, <3>2
  <2> QED
    BY <2>2, <2>6 DEF HeapInv
<1>17. CASE OutOfMemory
  BY <1>17, HeapUntouched DEF OutOfMemory
<1>18. ASSUME NEW n \in Node, Manage(n) PROVE HeapInv'
  <2>1. CASE fault' # "none"
    BY <2>1 DEF HeapInv
  <2>2. CASE fault' = "none"
    <3>1. /\ AppendAllocated(n) /\ ~managed[n] /\ n \in created /\ ~freed[n]
          /\ fault = "none" /\ UNCHANGED <<tag, freed, request>>
      BY <1>18, <2>2 DEF Manage, Running, InUseByHost
    <3>2. magic[n] = "null"
      BY <3>1, ManagedInList DEF HeapInv
    <3>3. ListsConsistent'
      BY <3>1, <3>2, AppendAllocatedConsistent DEF TypeOK, HeapInv
    <3>4. HeadersAgree'
      BY <3>1 DEF AppendAllocated, TypeOK, ListTypeOK, HeapInv, HeadersAgree
    <3> QED
      BY <3>3, <3>4 DEF HeapInv
  <2> QED
    BY <2>1, <2>2
<1>19. ASSUME NEW n \in Node, Unmanage(n) PROVE HeapInv'
  BY <1>19 DEF Unmanage, HeapInv
<1>20. ASSUME NEW n \in Node, Deallocate(n) PROVE HeapInv'
  <2>1. fault = "none" /\ UNCHANGED <<tag, request>>
    BY <1>20 DEF Deallocate, Running
  <2>2. CASE ~managed[n]
    <3>1. magic[n] = "null"
      BY <2>1, <2>2, ManagedInList DEF HeapInv
    <3>2. UNCHANGED listVars /\ freed' = [freed EXCEPT ![n] = TRUE]
      BY <1>20, <2>2 DEF Deallocate, BodyFreed
    <3> QED
      BY <2>1, <3>1, <3>2
      DEF listVars, TypeOK, HeapInv, HeadersAgree, ListsConsistent, SlotsAgree,
          MembersFound, LooseUnmanaged
  <2>3. CASE managed[n] /\ fault' = "none"
    BY <1>20, <2>1, <2>3, FreeManagedHeap DEF Deallocate
  <2>4. CASE fault' # "none"
    BY <2>4 DEF HeapInv
  <2> QED
    BY <2>2, <2>3, <2>4
<1> QED
  BY <1>1, <1>2, <1>3, <1>4, <1>5, <1>6, <1>7, <1>8, <1>9, <1>10, <1>11, <1>12,
     <1>13, <1>14, <1>15, <1>16, <1>17, <1>18, <1>19, <1>20
  DEF Next, Program, Collector, Host, Ended

\* Whatever the program, the collector and the host do, a node is in the list
\* and at the position it claims, which is what remove and the reuse of freed
\* nodes rely on (gc.cpp:411-415, 463-485).
THEOREM ListsAlwaysSound == Spec => []ListsSound
<1>1. HeapInv => ListsSound
  BY DEF HeapInv, ListsSound
<1> QED
  BY <1>1, TypeInit, TypeNext, HeapInit, HeapNext, PTL DEF Spec

-----------------------------------------------------------------------------
(* The phases.                                                             *)

LEMMA PhaseInit == Init => PhaseInv
BY DEF Init, PhaseInv

LEMMA PhaseNext == TypeOK /\ PhaseInv /\ [Next]_vars => PhaseInv'
<1> SUFFICES ASSUME TypeOK, PhaseInv, [Next]_vars PROVE PhaseInv'
  OBVIOUS
<1> USE DEF markVars, sweepVars, callVars, PhaseInv
<1>1. CASE UNCHANGED vars
  BY <1>1 DEF vars
<1>2. ASSUME NEW dst \in Root, NEW v \in Value, Move(dst, v) PROVE PhaseInv'
  BY <1>2 DEF Move
<1>3. ASSUME NEW dst \in Root, NEW n \in Node, NEW f \in Field, Load(dst, n, f)
      PROVE  PhaseInv'
  BY <1>3 DEF Load
<1>4. ASSUME NEW n \in Node, NEW f \in Field, NEW v \in Value, Store(n, f, v)
      PROVE  PhaseInv'
  BY <1>4 DEF Store
<1>5. ASSUME NEW value \in BOOLEAN, Paused(value) PROVE PhaseInv'
  BY <1>5 DEF Paused
<1>6. ASSUME NEW req \in Request, Allocate(req) PROVE PhaseInv'
  BY <1>6 DEF Allocate, Running
<1>7. CASE ManualRun
  BY <1>7 DEF ManualRun, Running
<1>8. CASE Exit
  BY <1>8 DEF Exit, Running
<1>9. CASE MarkRoot
  BY <1>9 DEF MarkRoot
<1>10. CASE MarkField
  BY <1>10 DEF MarkField
<1>11. CASE MarkReturn
  BY <1>11 DEF MarkReturn
<1>12. CASE MarkEnd
  BY <1>12 DEF MarkEnd
<1>13. CASE SweepFree
  BY <1>13 DEF SweepFree
<1>14. CASE SweepKeep
  BY <1>14 DEF SweepKeep
<1>15. CASE SweepEnd
  BY <1>15 DEF SweepEnd, TypeOK
<1>16. ASSUME NEW n \in Node, NEW contents \in [Field -> Value],
              TakeObject(n, contents)
       PROVE  PhaseInv'
  BY <1>16 DEF TakeObject
<1>17. CASE OutOfMemory
  BY <1>17 DEF OutOfMemory
<1>18. ASSUME NEW n \in Node, Manage(n) PROVE PhaseInv'
  BY <1>18 DEF Manage
<1>19. ASSUME NEW n \in Node, Unmanage(n) PROVE PhaseInv'
  BY <1>19 DEF Unmanage
<1>20. ASSUME NEW n \in Node, Deallocate(n) PROVE PhaseInv'
  BY <1>20 DEF Deallocate
<1> QED
  BY <1>1, <1>2, <1>3, <1>4, <1>5, <1>6, <1>7, <1>8, <1>9, <1>10, <1>11, <1>12,
     <1>13, <1>14, <1>15, <1>16, <1>17, <1>18, <1>19, <1>20
  DEF Next, Program, Collector, Host, Ended

-----------------------------------------------------------------------------
(* The sweep.                                                              *)

\* A sweep that starts has every node of the allocated list before it.
LEMMA SweepStarts ==
  ASSUME TypeOK, HeapInv, fault = "none", cursor = 1,
         raw' = nodes["allocated"], UNCHANGED <<listVars, cursor>>
  PROVE  SweepInv'
<1> DEFINE a == nodes["allocated"]
<1>1. a \in Seq(Node) /\ Len(a) \in Nat
  BY LenProperties DEF TypeOK, ListTypeOK, ListId
<1>2. /\ nodes' = nodes /\ magic' = magic /\ lookup_index' = lookup_index
      /\ raw' = a /\ cursor' = 1
  BY DEF listVars
<1>3. \A j \in 1 .. Len(a) : magic[a[j]] = "allocated" /\ lookup_index[a[j]] = j - 1
  BY DEF HeapInv, ListsConsistent, SlotsAgree, ListId
<1>4. \A j \in 1 .. Len(a) : lookup_index[a[j]] < j
  BY <1>1, <1>3
<1>5. \A j, k \in 1 .. Len(a) : a[j] = a[k] => j = k
  BY <1>1, <1>3
<1> QED
  BY <1>1, <1>2, <1>3, <1>4, <1>5 DEF SweepInv

LEMMA SweepNext ==
  TypeOK /\ HeapInv /\ PhaseInv /\ SweepInv /\ [Next]_vars => SweepInv'
<1> SUFFICES ASSUME TypeOK, HeapInv, PhaseInv, SweepInv, [Next]_vars
             PROVE  SweepInv'
  OBVIOUS
<1> USE DEF sweepVars
<1>S. pc' # "sweep" => SweepInv'
  BY DEF SweepInv
<1>1. CASE UNCHANGED vars
  BY <1>1 DEF vars, listVars, SweepInv
<1>2. ASSUME NEW dst \in Root, NEW v \in Value, Move(dst, v) PROVE SweepInv'
  BY <1>2, <1>S DEF Move, Running
<1>3. ASSUME NEW dst \in Root, NEW n \in Node, NEW f \in Field, Load(dst, n, f)
      PROVE  SweepInv'
  BY <1>3, <1>S DEF Load, Running
<1>4. ASSUME NEW n \in Node, NEW f \in Field, NEW v \in Value, Store(n, f, v)
      PROVE  SweepInv'
  BY <1>4, <1>S DEF Store, Running
<1>5. ASSUME NEW value \in BOOLEAN, Paused(value) PROVE SweepInv'
  BY <1>5, <1>S DEF Paused, Running
<1>6. ASSUME NEW req \in Request, Allocate(req) PROVE SweepInv'
  BY <1>6, <1>S DEF Allocate
<1>7. CASE ManualRun
  BY <1>7, <1>S DEF ManualRun
<1>8. CASE Exit
  BY <1>8, SweepStarts DEF Exit, Running, PhaseInv
<1>9. CASE MarkRoot
  BY <1>9, <1>S DEF MarkRoot
<1>10. CASE MarkField
  BY <1>10, <1>S DEF MarkField
<1>11. CASE MarkReturn
  BY <1>11, <1>S DEF MarkReturn
<1>12. CASE MarkEnd
  BY <1>12, SweepStarts DEF MarkEnd, PhaseInv
<1>13. CASE SweepFree
  <2> DEFINE n == raw[cursor]
             a == nodes["allocated"]
             hole == lookup_index[n] + 1
  <2>1. CASE fault' # "none"
    BY <2>1 DEF SweepInv
  <2>2. CASE fault' = "none"
    <3>1. /\ pc = "sweep" /\ fault = "none" /\ cursor <= Len(raw)
          /\ MoveToFree(n) /\ ~RemovePanics("allocated", n)
          /\ raw' = [raw EXCEPT ![hole] = a[Len(a)]]
          /\ cursor' = cursor + 1
      BY <1>13, <2>2 DEF SweepFree, FreeFault
    <3>2. /\ raw \in Seq(Node) /\ Len(raw) \in Nat /\ cursor \in 1 .. Len(raw)
          /\ n \in Node
      BY <3>1, ElementOfSeq, LenProperties DEF TypeOK
    <3>3. /\ a \in Seq(Node) /\ Len(a) \in Nat \ {0} /\ hole \in 1 .. Len(a)
          /\ a[hole] = n /\ a[Len(a)] \in Node
          /\ lookup_index[a[Len(a)]] = Len(a) - 1
          /\ lookup_index[n] \in Nat
      BY <3>1, <3>2, RemoveFinds DEF TypeOK, HeapInv
    <3>4. /\ Len(a) <= Len(raw)
          /\ \A j \in 1 .. Len(a) : raw[j] = a[j]
          /\ \A j \in cursor .. Len(raw) :
               magic[raw[j]] = "allocated" /\ lookup_index[raw[j]] < j
          /\ \A j, k \in cursor .. Len(raw) : raw[j] = raw[k] => j = k
      BY <3>1 DEF SweepInv
    <3>5. hole <= cursor
      BY <3>2, <3>3, <3>4
    <3>6. /\ raw' \in Seq(Node) /\ Len(raw') = Len(raw)
          /\ \A j \in 1 .. Len(raw) :
               raw'[j] = IF j = hole THEN a[Len(a)] ELSE raw[j]
      <4>1. hole \in 1 .. Len(raw)
        BY <3>2, <3>3, <3>4
      <4> QED
        BY <3>1, <3>2, <3>3, <4>1, ExceptSeq
    <3>7. /\ nodes'["allocated"] = SwapRemove(a, hole)
          /\ Len(SwapRemove(a, hole)) = Len(a) - 1
          /\ \A j \in 1 .. (Len(a) - 1) :
               SwapRemove(a, hole)[j] = IF j = hole THEN a[Len(a)] ELSE a[j]
      <4>1. a # <<>>
        BY <3>3, EmptySeq
      <4>2. nodes'["allocated"] = SwapRemove(a, hole)
        BY <3>1 DEF MoveToFree, TypeOK, ListTypeOK, ListId
      <4> QED
        BY SMTT(30), <3>3, <4>1, <4>2, SwapRemoveSeq
    <3>8. /\ magic' = [magic EXCEPT ![n] = "free"]
          /\ lookup_index' = [lookup_index EXCEPT
               ![a[Len(a)]] = lookup_index[n], ![n] = Len(nodes["free"])]
      BY <3>1 DEF MoveToFree
    <3>9. \A j \in 1 .. Len(nodes'["allocated"]) : raw'[j] = nodes'["allocated"][j]
      <4> SUFFICES ASSUME NEW j \in 1 .. (Len(a) - 1)
                   PROVE  raw'[j] = SwapRemove(a, hole)[j]
        BY <3>7
      <4>1. j \in 1 .. Len(raw) /\ j \in 1 .. Len(a)
        BY <3>2, <3>3, <3>4
      <4> QED
        BY <4>1, <3>4, <3>6, <3>7
    <3>10. \A j \in cursor' .. Len(raw') :
             /\ j \in cursor .. Len(raw) /\ raw'[j] = raw[j]
             /\ raw[j] \in Node \ {n}
             /\ magic'[raw[j]] = "allocated" /\ lookup_index'[raw[j]] < j
      <4> SUFFICES ASSUME NEW j \in (cursor + 1) .. Len(raw)
                   PROVE  /\ j \in cursor .. Len(raw) /\ raw'[j] = raw[j]
                          /\ raw[j] \in Node \ {n}
                          /\ magic'[raw[j]] = "allocated"
                          /\ lookup_index'[raw[j]] < j
        BY <3>1, <3>6
      <4>1. /\ j \in cursor .. Len(raw) /\ j \in 1 .. Len(raw) /\ j # hole
            /\ cursor \in cursor .. Len(raw) /\ j # cursor
        BY <3>2, <3>5, <3>3
      <4>2. raw'[j] = raw[j] /\ raw[j] \in Node
        BY <4>1, <3>2, <3>6, ElementOfSeq
      <4>3. raw[j] # n
        BY <4>1, <3>4
      <4>4. magic'[raw[j]] = "allocated"
        BY <4>1, <4>2, <4>3, <3>4, <3>8 DEF TypeOK, ListTypeOK
      <4>5. lookup_index'[raw[j]] < j
        <5>1. CASE raw[j] = a[Len(a)]
          BY <5>1, <4>1, <4>2, <4>3, <3>2, <3>3, <3>5, <3>8 DEF TypeOK, ListTypeOK
        <5>2. CASE raw[j] # a[Len(a)]
          BY <5>2, <4>1, <4>2, <4>3, <3>4, <3>8 DEF TypeOK, ListTypeOK
        <5> QED
          BY <5>1, <5>2
      <4> QED
        BY <4>1, <4>2, <4>3, <4>4, <4>5
    <3>11. \A j, k \in cursor' .. Len(raw') : raw'[j] = raw'[k] => j = k
      BY <3>4, <3>10
    <3>12. Len(nodes'["allocated"]) <= Len(raw')
      BY <3>2, <3>3, <3>4, <3>6, <3>7
    <3> QED
      BY <3>9, <3>10, <3>11, <3>12 DEF SweepInv
  <2> QED
    BY <2>1, <2>2
<1>14. CASE SweepKeep
  <2>1. /\ UNCHANGED <<listVars, raw, pc, fault>> /\ cursor' = cursor + 1
        /\ cursor \in Nat /\ Len(raw) \in Nat
    BY <1>14, LenProperties DEF SweepKeep, TypeOK
  <2>2. \A j \in cursor' .. Len(raw) : j \in cursor .. Len(raw)
    BY <2>1
  <2> QED
    BY <2>1, <2>2 DEF SweepInv, listVars
<1>15. CASE SweepEnd
  BY <1>15, <1>S DEF SweepEnd, TypeOK
<1>16. ASSUME NEW n \in Node, NEW contents \in [Field -> Value],
              TakeObject(n, contents)
       PROVE  SweepInv'
  BY <1>16, <1>S DEF TakeObject
<1>17. CASE OutOfMemory
  BY <1>17, <1>S DEF OutOfMemory
<1>18. ASSUME NEW n \in Node, Manage(n) PROVE SweepInv'
  BY <1>18, <1>S DEF Manage, Running
<1>19. ASSUME NEW n \in Node, Unmanage(n) PROVE SweepInv'
  BY <1>19, <1>S DEF Unmanage, Running
<1>20. ASSUME NEW n \in Node, Deallocate(n) PROVE SweepInv'
  BY <1>20, <1>S DEF Deallocate, Running
<1> QED
  BY <1>1, <1>2, <1>3, <1>4, <1>5, <1>6, <1>7, <1>8, <1>9, <1>10, <1>11, <1>12,
     <1>13, <1>14, <1>15, <1>16, <1>17, <1>18, <1>19, <1>20
  DEF Next, Program, Collector, Host, Ended

-----------------------------------------------------------------------------
(* The panics.                                                             *)

LEMMA PanicNext ==
  TypeOK /\ HeapInv /\ SweepInv /\ NoCorruptionPanic /\ [Next]_vars
    => NoCorruptionPanic'
<1> SUFFICES ASSUME TypeOK, HeapInv, SweepInv, NoCorruptionPanic, [Next]_vars
             PROVE  NoCorruptionPanic'
  OBVIOUS
<1> USE DEF NoCorruptionPanic
<1>1. CASE UNCHANGED fault
  BY <1>1
<1>2. CASE MarkRoot
  BY <1>2 DEF MarkRoot, GcMark
<1>3. CASE MarkField
  BY <1>3 DEF MarkField, GcMark
<1>4. CASE SweepFree
  <2>1. /\ fault = "none" /\ pc = "sweep" /\ fault' = FreeFault(raw[cursor])
        /\ cursor \in Nat /\ Len(raw) \in Nat /\ cursor <= Len(raw)
    BY <1>4, LenProperties DEF SweepFree, TypeOK
  <2>2. raw[cursor] \in Node /\ magic[raw[cursor]] = "allocated"
    BY <2>1, ElementOfSeq DEF SweepInv, TypeOK
  <2> QED
    BY <2>1, <2>2, ManagedInList DEF HeapInv
<1>5. CASE OutOfMemory
  BY <1>5 DEF OutOfMemory
<1>6. ASSUME NEW n \in Node, Manage(n) PROVE NoCorruptionPanic'
  <2>1. fault = "none" /\ fault' \in {"manage", "append", "none"}
    BY <1>6 DEF Manage, Running
  <2>2. CASE fault' = "append"
    <3>1. ~managed[n] /\ AppendPanics(n, TRUE)
      BY <1>6, <2>1, <2>2 DEF Manage
    <3>2. lookup_index[n] = magic_index
      BY <2>1, <3>1, ManagedInList DEF HeapInv, ListsConsistent, LooseUnmanaged
    <3> QED
      BY <3>1, <3>2 DEF AppendPanics
  <2> QED
    BY <2>1, <2>2
<1>7. ASSUME NEW n \in Node, Unmanage(n) PROVE NoCorruptionPanic'
  <2>1. fault = "none" /\ ~freed[n]
    BY <1>7 DEF Unmanage, Running, InUseByHost
  <2> QED
    BY <1>7, <2>1, ManagedInList DEF Unmanage, HeapInv
<1>8. ASSUME NEW n \in Node, Deallocate(n) PROVE NoCorruptionPanic'
  <2>1. fault = "none" /\ ~freed[n]
    BY <1>8 DEF Deallocate, Running, InUseByHost
  <2>2. managed[n] => FreeFault(n) = "none"
    BY <2>1, ManagedInList DEF HeapInv
  <2> QED
    BY <1>8, <2>1, <2>2 DEF Deallocate
<1> QED
  BY <1>1, <1>2, <1>3, <1>4, <1>5, <1>6, <1>7, <1>8
  DEF Next, Program, Collector, Host, Ended, vars, Move, Load, Store, Paused,
      Allocate, ManualRun, Exit, MarkReturn, MarkEnd, SweepKeep, SweepEnd, TakeObject

\* The self-checks of the lists never fire, although sweep removes from the
\* vector it iterates over: every slot it has still to visit holds a node of
\* its own that is in the allocated list (gc.cpp:169-190, 450-479).
THEOREM NoCorruption == Spec => []NoCorruptionPanic
<1>1. Init => SweepInv /\ NoCorruptionPanic
  BY DEF Init, SweepInv, NoCorruptionPanic
<1> QED
  BY <1>1, TypeInit, TypeNext, HeapInit, HeapNext, PhaseInit, PhaseNext, SweepNext,
     PanicNext, PTL DEF Spec
=============================================================================
