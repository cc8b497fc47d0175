---------------------- MODULE MalangGC_refinement_proofs ---------------------
(***************************************************************************)
(* The collector implements the promise of TracingGC: every step of it is  *)
(* a step of the promise or leaves what the program sees unchanged.        *)
(***************************************************************************)
EXTENDS MalangGC_live_proofs

\* what the promise calls its variables
heap == {n \in created : ~freed[n]}
ref == [n \in Node |-> [f \in Field |-> StoredField(n, f)]]
running == after # "exited"

\* What the program reaches is the same in both.
LEMMA SameLive == ASSUME TypeOK PROVE Promise!Live = Live
<1>1. Promise!Held = Referenced
  BY NilAssumption DEF Promise!Held, Referenced, TypeOK, Value
<1>2. \A S \in SUBSET Node : Promise!Closed(S) <=> ClosedStored(S)
  BY DEF Promise!Closed, ClosedStored
<1> QED
  BY <1>1, <1>2 DEF Promise!Live, Live

\* A new node is one the program does not have.
LEMMA AvailableUnknown ==
  ASSUME TypeOK, HeapInv, fault = "none", NEW n \in Node, Available(n)
  PROVE  n \notin heap
<1>1. CASE nodes["free"] = <<>>
  BY <1>1 DEF Available, heap
<1>2. CASE nodes["free"] # <<>>
  <2>1. Len(nodes["free"]) \in 1 .. Len(nodes["free"]) /\ n = nodes["free"][Len(nodes["free"])]
    BY <1>2, EmptySeq DEF Available, TypeOK, ListTypeOK, ListId
  <2>2. magic[n] = "free"
    BY <2>1 DEF HeapInv, ListsConsistent, SlotsAgree, ListId
  <2> QED
    BY <2>2 DEF HeapInv, HeadersAgree, heap
<1> QED
  BY <1>1, <1>2

\* Freeing a node is a Reclaim.
LEMMA FreeIsReclaim ==
  ASSUME TypeOK, NEW n \in Node, n \in created, ~freed[n], BodyFreed(n),
         UNCHANGED <<created, root, after>>,
         after # "exited" => n \notin Live
  PROVE  Promise!Reclaim(n)
<1>1. heap' = heap \ {n}
  BY DEF heap, BodyFreed, TypeOK
<1>2. ref' = [ref EXCEPT ![n] = NoFields]
  <2>1. \A m \in Node, f \in Field :
          StoredField(m, f)' = IF m = n THEN Nil ELSE StoredField(m, f)
    <3> TAKE m \in Node, f \in Field
    <3>1. /\ field' = [field EXCEPT ![n] = NoFields]
          /\ stale' = stale \ ({n} \X Field)
      BY DEF BodyFreed
    <3>2. CASE m = n
      BY <3>1, <3>2 DEF StoredField, NoFields, TypeOK
    <3>3. CASE m # n
      <4>1. field'[m] = field[m] /\ (<<m, f>> \in stale' <=> <<m, f>> \in stale)
        BY <3>1, <3>3 DEF TypeOK
      <4> QED
        BY <3>3, <4>1 DEF StoredField
    <3> QED
      BY <3>2, <3>3
  <2> QED
    BY <2>1 DEF ref, NoFields
<1>3. n \in heap
  BY DEF heap
<1> QED
  BY <1>1, <1>2, <1>3, SameLive
  DEF Promise!Reclaim, Promise!NoFields, NoFields, heap, ref

LEMMA PromiseInit == Init => Promise!Init
<1> SUFFICES ASSUME Init PROVE Promise!Init
  OBVIOUS
<1>1. heap = {} /\ running
  BY DEF Init, ListInit, heap, running
<1>2. ref = [n \in Node |-> NoFields]
  BY DEF Init, ref, StoredField, NoFields
<1> QED
  BY <1>1, <1>2 DEF Init, Promise!Init, Promise!NoFields, NoFields, heap, ref, running

\* A step that leaves objects and roots alone is a stutter.
LEMMA PromiseStutter ==
  ASSUME UNCHANGED <<created, freed, field, stale, root>>,
         (after' # "exited") <=> (after # "exited")
  PROVE  UNCHANGED Promise!vars
BY DEF Promise!vars, StoredField

LEMMA PromiseNext == IInv /\ [Next]_vars => [Promise!Next]_(Promise!vars)
<1> SUFFICES ASSUME IInv, [Next]_vars
             PROVE  Promise!Next \/ UNCHANGED Promise!vars
  BY DEF Promise!vars
<1>0. TypeOK /\ HeapInv /\ PhaseInv /\ SweepInv /\ LiveInv
  BY DEF IInv
<1> USE DEF listVars, objectVars, callVars
<1>1. CASE UNCHANGED vars
  BY <1>1, PromiseStutter DEF vars
<1>2. ASSUME NEW dst \in Root, NEW v \in Value, Move(dst, v) PROVE Promise!Next
  <2>1. heap' = heap /\ ref' = ref
    BY <1>2 DEF Move, heap, ref, StoredField
  <2>2. pc = "idle" /\ after' = after /\ v \in Held \cup {Nil}
        /\ root' = [root EXCEPT ![dst] = v]
    BY <1>2 DEF Move, Running
  <2>3. Promise!Move(dst, v)
    BY <1>0, <2>1, <2>2 DEF Promise!Move, Promise!Held, Held, heap, ref, PhaseInv
  <2> QED
    BY <2>3 DEF Promise!Next, Value
<1>3. ASSUME NEW dst \in Root, NEW n \in Node, NEW f \in Field, Load(dst, n, f)
      PROVE  Promise!Next
  <2>1. heap' = heap /\ ref' = ref
    BY <1>3 DEF Load, heap, ref, StoredField
  <2>2. pc = "idle" /\ after' = after /\ n \in Held
        /\ root' = [root EXCEPT ![dst] = ref[n][f]]
    BY <1>3 DEF Load, Running, ref, StoredField
  <2>3. Promise!Load(dst, n, f)
    BY <1>0, <2>1, <2>2 DEF Promise!Load, Promise!Held, Held, heap, ref, PhaseInv
  <2> QED
    BY <2>3 DEF Promise!Next
<1>4. ASSUME NEW n \in Node, NEW f \in Field, NEW v \in Value, Store(n, f, v)
      PROVE  Promise!Next
  <2>1. /\ pc = "idle" /\ after' = after /\ n \in Held /\ v \in Held \cup {Nil}
        /\ root' = root /\ heap' = heap
        /\ field' = [field EXCEPT ![n][f] = v] /\ stale' = stale \ {<<n, f>>}
    BY <1>4 DEF Store, Running, heap
  <2>2. \A m \in Node, g \in Field :
          StoredField(m, g)' = IF m = n /\ g = f THEN v ELSE StoredField(m, g)
    <3> TAKE m \in Node, g \in Field
    <3>1. CASE m = n /\ g = f
      BY <1>0, <2>1, <3>1 DEF StoredField, TypeOK
    <3>2. CASE ~(m = n /\ g = f)
      <4>1. field'[m][g] = field[m][g] /\ (<<m, g>> \in stale' <=> <<m, g>> \in stale)
        BY <1>0, <2>1, <3>2 DEF TypeOK
      <4> QED
        BY <3>2, <4>1 DEF StoredField
    <3> QED
      BY <3>1, <3>2
  <2>3. ref' = [ref EXCEPT ![n][f] = v]
    BY <2>2 DEF ref
  <2>4. Promise!Store(n, f, v)
    BY <1>0, <2>1, <2>3 DEF Promise!Store, Promise!Held, Held, heap, ref, PhaseInv
  <2> QED
    BY <2>4 DEF Promise!Next, Value
<1>5. CASE Exit
  <2>1. pc = "idle" /\ after' = "exited"
        /\ UNCHANGED <<created, freed, field, stale, root>>
    BY <1>5 DEF Exit, Running
  <2>2. heap' = heap /\ ref' = ref
    BY <2>1 DEF heap, ref, StoredField
  <2>3. Promise!TearDown
    BY <1>0, <2>1, <2>2 DEF Promise!TearDown, heap, ref, PhaseInv
  <2> QED
    BY <2>3 DEF Promise!Next
<1>6. CASE SweepFree
  <2> DEFINE n == raw[cursor]
  <2>1. CASE fault' # "none"
    BY <1>6, <2>1, PromiseStutter DEF SweepFree
  <2>2. CASE fault' = "none"
    <3>1. /\ pc = "sweep" /\ fault = "none" /\ BodyFreed(n) /\ MoveToFree(n)
          /\ FreeFault(n) = "none" /\ UNCHANGED <<root, after>>
      BY <1>6, <2>2 DEF SweepFree
    <3>2. n \in Node
      BY <1>0, <1>6, <2>2, <3>1, SweepVisits
    <3>3. ~freed[n] /\ n \in created /\ created' = created
      BY <1>0, <3>1, <3>2, RemoveFinds DEF FreeFault, HeapInv, TypeOK, MoveToFree
    <3>4. after # "exited" => n \notin Live
      BY <1>0, <1>6, <2>2, SweepFreesGarbage
    <3> QED
      BY <1>0, <3>1, <3>2, <3>3, <3>4, FreeIsReclaim DEF Promise!Next
  <2> QED
    BY <2>1, <2>2
<1>7. ASSUME NEW n \in Node, NEW contents \in [Field -> Value],
             TakeObject(n, contents)
      PROVE  Promise!Next
  <2> PICK dst \in Root : dst = request.dst
    BY <1>0 DEF TypeOK, Request
  <2>1. /\ pc = "take" /\ fault = "none" /\ after' = "idle"
        /\ Available(n) /\ created' = created \cup {n}
        /\ freed' = [freed EXCEPT ![n] = FALSE]
        /\ field' = [field EXCEPT
             ![n] = IF request.tag = "Buffer" THEN NoFields ELSE contents]
        /\ stale' = IF request.tag = "Buffer" THEN stale ELSE stale \cup ({n} \X Field)
        /\ root' = [root EXCEPT ![dst] = n]
    BY <1>7 DEF TakeObject, TakeNode, Construct
  <2>3. n \notin heap
    BY <1>0, <2>1, AvailableUnknown
  <2>4. heap' = heap \cup {n}
    BY <1>0, <2>1 DEF heap, TypeOK
  <2>5. \A m \in Node, f \in Field :
          StoredField(m, f)' = IF m = n THEN Nil ELSE StoredField(m, f)
    <3> TAKE m \in Node, f \in Field
    <3>1. CASE m = n /\ request.tag = "Buffer"
      BY <1>0, <2>1, <3>1 DEF StoredField, NoFields, TypeOK
    <3>2. CASE m = n /\ request.tag # "Buffer"
      BY <2>1, <3>2 DEF StoredField
    <3>3. CASE m # n
      <4>1. field'[m] = field[m] /\ (<<m, f>> \in stale' <=> <<m, f>> \in stale)
        BY <1>0, <2>1, <3>3 DEF TypeOK
      <4> QED
        BY <3>3, <4>1 DEF StoredField
    <3> QED
      BY <3>1, <3>2, <3>3
  <2>6. ref' = [ref EXCEPT ![n] = NoFields]
    BY <2>5 DEF ref, NoFields
  <2>7. running /\ running'
    BY <1>0, <2>1 DEF running, PhaseInv
  <2>8. Promise!New(n, dst)
    BY <2>1, <2>3, <2>4, <2>6, <2>7
    DEF Promise!New, Promise!NoFields, NoFields, heap, ref, running
  <2> QED
    BY <2>8 DEF Promise!Next
<1>8. ASSUME NEW n \in Node, Deallocate(n)
      PROVE  Promise!Next \/ UNCHANGED Promise!vars
  <2>1. /\ n \in created /\ ~freed[n] /\ n \notin Live
        /\ UNCHANGED <<root, after>>
    BY <1>8 DEF Deallocate, InUseByHost
  <2>2. CASE BodyFreed(n) /\ created' = created
    BY <1>0, <2>1, <2>2, FreeIsReclaim DEF Promise!Next
  <2>3. CASE UNCHANGED <<listVars, freed, field, stale>>
    BY <2>1, <2>3, PromiseStutter
  <2> QED
    BY <1>8, <2>2, <2>3 DEF Deallocate, MoveToFree
<1>9. CASE \/ \E value \in BOOLEAN : Paused(value)
           \/ \E req \in Request : Allocate(req)
           \/ ManualRun \/ OutOfMemory
           \/ MarkRoot \/ MarkField \/ MarkReturn \/ MarkEnd
           \/ SweepKeep \/ SweepEnd
           \/ \E n \in Node : Manage(n) \/ Unmanage(n)
  <2>1. UNCHANGED <<created, freed, field, stale, root>>
    BY <1>9 DEF Paused, Allocate, ManualRun, OutOfMemory, MarkRoot, MarkField,
                MarkReturn, MarkEnd, SweepKeep, SweepEnd, Manage, Unmanage,
                AppendAllocated
  <2>2. (after' # "exited") <=> (after # "exited")
    BY <1>0, <1>9 DEF Paused, Allocate, ManualRun, OutOfMemory, MarkRoot, MarkField,
                MarkReturn, MarkEnd, SweepKeep, SweepEnd, Manage, Unmanage, PhaseInv,
                Running
  <2> QED
    BY <2>1, <2>2, PromiseStutter
<1> QED
  BY <1>1, <1>2, <1>3, <1>4, <1>5, <1>6, <1>7, <1>8, <1>9
  DEF Next, Program, Collector, Host, Ended

\* The collector implements TracingGC: an object vanishes only once the program
\* cannot reach it, and a new object is one the program does not have.
THEOREM PromiseKept == Spec => KeepsPromise
BY PromiseInit, PromiseNext, Invariance, PTL DEF Spec, KeepsPromise, Promise!Spec
=============================================================================
