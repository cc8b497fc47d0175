------------------------------ MODULE MalangGC ------------------------------
(***************************************************************************)
(* The collector of the malang virtual machine: Malang_GC (gc.cpp) and the *)
(* gc_mark methods of the heap objects (object.cpp), with the program that *)
(* runs on it reduced to what it does to references.                       *)
(*                                                                         *)
(* The collector is stop-the-world and runs inside an allocation or a      *)
(* gc_run call; its loops are nevertheless modelled one iteration at a     *)
(* time, `pc' saying which loop runs, because they mutate the very list    *)
(* and graph they iterate over.  The program moves only while pc = "idle". *)
(*                                                                         *)
(* Abstractions.  The three root areas of the machine are one array of     *)
(* NRoots slots.  Every traced object has NFields reference fields; an     *)
(* array of unmanaged elements is never traced and is a "Buffer" here.     *)
(* The memory of a fresh object or array is uninitialised (gc.cpp:203,     *)
(* 229): each of its fields holds any node ever created, or no reference.  *)
(***************************************************************************)
EXTENDS GCList

CONSTANTS
  NRoots,       \* slots of the root areas
  NFields,      \* reference fields of an Object, elements of an Array
  RunInterval,  \* m_run_interval
  MaxObjects,   \* m_max_objects
  HostCalls     \* the operations of the host interface the embedder uses

Root == 1 .. NRoots
Field == 1 .. NFields

ASSUME GCAssumption ==
  /\ NRoots \in Nat \ {0}
  /\ NFields \in Nat \ {0}
  /\ RunInterval \in Nat \ {0}
  /\ MaxObjects \in Nat
  /\ RunInterval <= MaxObjects       \* 500 and 100000 in main.cpp:554
  /\ HostCalls \subseteq {"manage", "unmanage", "deallocate"}

Tag == {"Object", "Array", "Buffer"}
Color == {"white", "grey", "black"}
Value == Node \cup {Nil}
Request == [tag : Tag, is_managed : BOOLEAN, dst : Root]
Frame == [node : Node, next : 1 .. (NFields + 1)]

VARIABLES
  tag,        \* header.object_tag
  color,      \* header.color
  freed,      \* header.free
  field,      \* Object.fields or Array.data
  stale,      \* the (object, field) pairs the program has not stored into yet
  root,       \* the root slots of the machine
  is_paused,  \* m_is_paused
  next_run,   \* m_next_run
  pc,         \* which part of the collector runs, "idle" when the program does
  after,      \* where the collection returns to
  request,    \* the arguments of the allocation under way
  root_pos,   \* the next root slot to mark
  stack,      \* the activations of gc_mark
  raw,        \* the memory of m_allocated's vector during a sweep
  cursor,     \* the iterator of the sweep
  fault       \* the panic or crash that ended the process, "none" before

objectVars == <<tag, color, freed, field, stale>>
markVars == <<root_pos, stack>>
sweepVars == <<raw, cursor>>
triggerVars == <<is_paused, next_run>>
callVars == <<after, request>>
vars == <<listVars, objectVars, markVars, sweepVars, triggerVars, callVars,
          root, pc, fault>>

Fault == {"none", "remove", "append", "double free", "out of memory",
          "manage", "unmanage", "remove unmanaged", "null fields"}

TypeOK ==
  /\ ListTypeOK
  /\ tag \in [Node -> Tag]
  /\ color \in [Node -> Color]
  /\ freed \in [Node -> BOOLEAN]
  /\ field \in [Node -> [Field -> Value]]
  /\ stale \subseteq Node \X Field
  /\ root \in [Root -> Value]
  /\ is_paused \in BOOLEAN
  /\ next_run \in Nat
  /\ pc \in {"idle", "mark", "sweep", "take", "exited"}
  /\ after \in {"idle", "take", "exited"}
  /\ request \in Request
  /\ root_pos \in 1 .. (NRoots + 1)
  /\ stack \in Seq(Frame)
  /\ raw \in Seq(Node)
  /\ cursor \in Nat \ {0}
  /\ fault \in Fault

NoFields == [f \in Field |-> Nil]
NoRequest == [tag |-> "Buffer", is_managed |-> TRUE, dst |-> 1]

Init ==
  /\ ListInit
  /\ tag = [n \in Node |-> "Buffer"]
  /\ color = [n \in Node |-> "white"]
  /\ freed = [n \in Node |-> FALSE]
  /\ field = [n \in Node |-> NoFields]
  /\ stale = {}
  /\ root = [r \in Root |-> Nil]
  /\ is_paused = FALSE
  /\ next_run = RunInterval
  /\ pc = "idle"
  /\ after = "idle"
  /\ request = NoRequest
  /\ root_pos = 1
  /\ stack = <<>>
  /\ raw = <<>>
  /\ cursor = 1
  /\ fault = "none"

-----------------------------------------------------------------------------
(* Reachability.  A set is closed when it contains what its members refer  *)
(* to; the nodes reachable from a set are those in every closed superset.  *)
Rooted == {n \in Node : managed[n] /\ \E r \in Root : root[r] = n}
Closed(S) == \A n \in S : \A f \in Field : field[n][f] \in S \cup {Nil}
InUse ==
  {n \in Node : \A S \in SUBSET Node : Rooted \subseteq S /\ Closed(S) => n \in S}

\* the same through the fields the program has stored into
StoredField(n, f) == IF <<n, f>> \in stale THEN Nil ELSE field[n][f]
ClosedStored(S) ==
  \A n \in S : \A f \in Field : StoredField(n, f) \in S \cup {Nil}
Referenced ==
  {n \in Node : \E r \in Root : root[r] = n}
Live ==
  {n \in Node : \A S \in SUBSET Node :
                  Referenced \subseteq S /\ ClosedStored(S) => n \in S}

-----------------------------------------------------------------------------
(* The program.                                                            *)
Running == pc = "idle" /\ fault = "none"

\* what the program holds: the references in its root slots
Held == {root[r] : r \in Root} \ {Nil}

Move(dst, v) ==
  /\ Running
  /\ v \in Held \cup {Nil}
  /\ root' = [root EXCEPT ![dst] = v]
  /\ UNCHANGED <<listVars, objectVars, markVars, sweepVars, triggerVars,
                 callVars, pc, fault>>

\* reads of a field or an element the program has not yet stored are left out:
\* constructors run the field initialisers, array elements are the program's
Load(dst, n, f) ==
  /\ Running
  /\ n \in Held
  /\ <<n, f>> \notin stale
  /\ root' = [root EXCEPT ![dst] = field[n][f]]
  /\ UNCHANGED <<listVars, objectVars, markVars, sweepVars, triggerVars,
                 callVars, pc, fault>>

\* the unmanaged objects are string constants, which hold no references
Store(n, f, v) ==
  /\ Running
  /\ n \in Held /\ tag[n] # "Buffer"
  /\ v \in Held \cup {Nil}
  /\ field' = [field EXCEPT ![n][f] = v]
  /\ stale' = stale \ {<<n, f>>}
  /\ UNCHANGED <<listVars, tag, color, freed, markVars, sweepVars, triggerVars,
                 callVars, root, pc, fault>>

\* gc_pause and gc_resume
Paused(value) ==
  /\ Running
  /\ is_paused' = value
  /\ UNCHANGED <<listVars, objectVars, markVars, sweepVars, next_run, callVars,
                 root, pc, fault>>

\* gc_run
ManualRun ==
  /\ Running
  /\ pc' = "mark"
  /\ after' = "idle"
  /\ UNCHANGED <<listVars, objectVars, markVars, sweepVars, triggerVars,
                 request, root, fault>>

\* ~Malang_GC: a last sweep, without marking
Exit ==
  /\ Running
  /\ pc' = "sweep"
  /\ after' = "exited"
  /\ raw' = nodes["allocated"]
  /\ UNCHANGED <<listVars, objectVars, markVars, cursor, triggerVars, request,
                 root, fault>>

-----------------------------------------------------------------------------
(* Allocation: the trigger of alloc_intern, then, in TakeObject, the rest  *)
(* of alloc_intern and of its six callers.                                 *)
GCDue == ~is_paused /\ Len(nodes["allocated"]) >= next_run
GrowUncapped(a, b) == a
CapAt(a, b) == IF a <= b THEN a ELSE b

\* bounds the model: the instance has a node to hand out
NodeBound == nodes["free"] # <<>> \/ created # Node

Allocate(req) ==
  /\ Running
  /\ NodeBound
  /\ req.is_managed \/ req.tag = "Buffer"
  /\ request' = req
  /\ IF GCDue
     THEN /\ next_run' = CapAt(next_run + RunInterval, MaxObjects)
          /\ pc' = "mark"
          /\ after' = "take"
     ELSE /\ pc' = "take"
          /\ UNCHANGED <<next_run, after>>
  /\ UNCHANGED <<listVars, objectVars, markVars, sweepVars, is_paused, root,
                 fault>>

\* whatever the block held before
FreshFields == [Field -> created \cup {Nil}]

\* construct_object, construct_array and construct_buffer
Construct(n, t, contents) ==
  /\ tag' = [tag EXCEPT ![n] = t]
  /\ color' = [color EXCEPT ![n] = "white"]
  /\ freed' = [freed EXCEPT ![n] = FALSE]
  /\ field' = [field EXCEPT ![n] = IF t = "Buffer" THEN NoFields ELSE contents]
  /\ stale' = IF t = "Buffer" THEN stale ELSE stale \cup ({n} \X Field)

TakeObject(n, contents) ==
  /\ pc = "take" /\ fault = "none"
  /\ Len(nodes["allocated"]) < MaxObjects
  /\ TakeNode(n, request.is_managed)
  /\ contents \in FreshFields
  /\ Construct(n, request.tag, contents)
  /\ root' = [root EXCEPT ![request.dst] = n]
  /\ pc' = "idle"
  /\ after' = "idle"
  /\ request' = NoRequest
  /\ UNCHANGED <<markVars, sweepVars, triggerVars, fault>>

OutOfMemory ==
  /\ pc = "take" /\ fault = "none"
  /\ Len(nodes["allocated"]) >= MaxObjects
  /\ fault' = "out of memory"
  /\ UNCHANGED <<listVars, objectVars, markVars, sweepVars, triggerVars,
                 callVars, root, pc>>

-----------------------------------------------------------------------------
(* Marking: the activations of gc_mark are frames of `stack', each with    *)
(* the field its loop reads next.                                          *)
Top == stack[Len(stack)]
PushPastFirst(s, n) == Append(s, [node |-> n, next |-> 2])
Push(s, n) == Append(s, [node |-> n, next |-> 1])
Advance(s) == [s EXCEPT ![Len(s)].next = @ + 1]

\* variants of gc_mark with a bug: one colours an object black on entry, the
\* other forgets the elements of arrays
GcMarkBlackFirst(n, s) ==
  /\ color' = [color EXCEPT ![n] = "black"]
  /\ stack' = IF color[n] = "white" /\ tag[n] # "Buffer" THEN Push(s, n) ELSE s
  /\ fault' = fault
GcMarkSkipArrays(n, s) ==
  IF color[n] # "white" \/ tag[n] # "Object"
  THEN /\ color' = [color EXCEPT ![n] = "black"]
       /\ stack' = s
       /\ fault' = fault
  ELSE /\ color' = [color EXCEPT ![n] = "grey"]
       /\ stack' = Push(s, n)
       /\ fault' = fault

\* what a call of gc_mark does before its loop, s being the callers' frames;
\* the fields of a freed Object are a null pointer, a freed Array is empty
GcMark(n, s) ==
  IF tag[n] = "Buffer" \/ (tag[n] = "Array" /\ freed[n] /\ color[n] = "white")
  THEN /\ color' = [color EXCEPT ![n] = "black"]
       /\ stack' = s
       /\ fault' = fault
  ELSE IF color[n] # "white"
  THEN /\ stack' = s
       /\ UNCHANGED <<color, fault>>
  ELSE /\ color' = [color EXCEPT ![n] = "grey"]
       /\ stack' = Push(s, n)
       /\ fault' = IF freed[n] THEN "null fields" ELSE fault

MarkRoot ==
  /\ pc = "mark" /\ fault = "none"
  /\ stack = <<>>
  /\ root_pos <= NRoots
  /\ root_pos' = root_pos + 1
  /\ IF root[root_pos] # Nil /\ managed[root[root_pos]]
     THEN GcMark(root[root_pos], stack)
     ELSE UNCHANGED <<color, stack, fault>>
  /\ UNCHANGED <<listVars, tag, freed, field, stale, sweepVars, triggerVars,
                 callVars, root, pc>>

\* a loop that does not step over a field holding no reference
MarkFieldStuck ==
  /\ pc = "mark" /\ fault = "none"
  /\ stack # <<>> /\ Top.next <= NFields
  /\ LET v == field[Top.node][Top.next]
     IN IF v # Nil
        THEN GcMark(v, Advance(stack))
        ELSE UNCHANGED <<stack, color, fault>>
  /\ UNCHANGED <<listVars, tag, freed, field, stale, root_pos, sweepVars,
                 triggerVars, callVars, root, pc>>

MarkField ==
  /\ pc = "mark" /\ fault = "none"
  /\ stack # <<>> /\ Top.next <= NFields
  /\ LET v == field[Top.node][Top.next]
     IN IF v # Nil
        THEN GcMark(v, Advance(stack))
        ELSE stack' = Advance(stack) /\ UNCHANGED <<color, fault>>
  /\ UNCHANGED <<listVars, tag, freed, field, stale, root_pos, sweepVars,
                 triggerVars, callVars, root, pc>>

MarkReturn ==
  /\ pc = "mark" /\ fault = "none"
  /\ stack # <<>> /\ Top.next > NFields
  /\ color' = [color EXCEPT ![Top.node] = "black"]
  /\ stack' = PopBack(stack)
  /\ UNCHANGED <<listVars, tag, freed, field, stale, root_pos, sweepVars,
                 triggerVars, callVars, root, pc, fault>>

\* a scan that stops one short of the end of the roots
MarkEndEarly ==
  /\ pc = "mark" /\ fault = "none"
  /\ stack = <<>> /\ root_pos > NRoots - 1
  /\ pc' = "sweep"
  /\ root_pos' = 1
  /\ raw' = nodes["allocated"]
  /\ UNCHANGED <<listVars, objectVars, stack, cursor, triggerVars, callVars,
                 root, fault>>

MarkEnd ==
  /\ pc = "mark" /\ fault = "none"
  /\ stack = <<>> /\ root_pos > NRoots
  /\ pc' = "sweep"
  /\ root_pos' = 1
  /\ raw' = nodes["allocated"]
  /\ UNCHANGED <<listVars, objectVars, stack, cursor, triggerVars, callVars,
                 root, fault>>

-----------------------------------------------------------------------------
(* Sweeping: a range-based for over m_allocated.nodes whose body removes   *)
(* from that vector.  The end iterator is read once, so the loop visits    *)
(* every slot the vector had, the ones pop_back has given up included;     *)
(* `raw' is that memory and a removal writes into it.                      *)
BodyFreed(n) ==
  /\ freed' = [freed EXCEPT ![n] = TRUE]
  /\ field' = [field EXCEPT ![n] = NoFields]
  /\ stale' = stale \ ({n} \X Field)

\* free_object on a managed node, the first check that fails panicking
FreeFault(n) ==
  IF freed[n] THEN "double free"
  ELSE IF RemovePanics("allocated", n) THEN "remove" ELSE "none"

SweepFree ==
  /\ pc = "sweep" /\ fault = "none" /\ cursor <= Len(raw)
  /\ LET n == raw[cursor] IN
     /\ color[n] = "white"
     /\ fault' = FreeFault(n)
     /\ IF fault' = "none"
        THEN /\ BodyFreed(n)
             /\ MoveToFree(n)
             /\ raw' = [raw EXCEPT ![lookup_index[n] + 1] =
                          nodes["allocated"][Len(nodes["allocated"])]]
        ELSE UNCHANGED <<listVars, freed, field, stale, raw>>
  /\ cursor' = cursor + 1
  /\ UNCHANGED <<tag, color, markVars, triggerVars, callVars, root, pc>>

\* a sweep that leaves its survivors black
SweepKeepBlack ==
  /\ pc = "sweep" /\ fault = "none" /\ cursor <= Len(raw)
  /\ color[raw[cursor]] # "white"
  /\ cursor' = cursor + 1
  /\ UNCHANGED <<listVars, objectVars, raw, markVars, triggerVars, callVars,
                 root, pc, fault>>

SweepKeep ==
  /\ pc = "sweep" /\ fault = "none" /\ cursor <= Len(raw)
  /\ color[raw[cursor]] # "white"
  /\ color' = [color EXCEPT ![raw[cursor]] = "white"]
  /\ cursor' = cursor + 1
  /\ UNCHANGED <<listVars, tag, freed, field, stale, raw, markVars, triggerVars,
                 callVars, root, pc, fault>>

\* a loop over indices below the current size, and one that restarts at -1
SweepEndAtSize ==
  /\ pc = "sweep" /\ fault = "none" /\ cursor > Len(nodes["allocated"])
  /\ pc' = after
  /\ raw' = <<>>
  /\ cursor' = 1
  /\ UNCHANGED <<listVars, objectVars, markVars, triggerVars, callVars, root,
                 fault>>
SweepEndBefore ==
  /\ pc = "sweep" /\ fault = "none" /\ cursor > Len(raw)
  /\ pc' = after
  /\ raw' = <<>>
  /\ cursor' = 0
  /\ UNCHANGED <<listVars, objectVars, markVars, triggerVars, callVars, root,
                 fault>>

SweepEnd ==
  /\ pc = "sweep" /\ fault = "none" /\ cursor > Len(raw)
  /\ pc' = after
  /\ raw' = <<>>
  /\ cursor' = 1
  /\ UNCHANGED <<listVars, objectVars, markVars, triggerVars, callVars, root,
                 fault>>

-----------------------------------------------------------------------------
(* The host interface, which nothing in the repository calls: manage,      *)
(* unmanage and deallocate.  A caller of deallocate must have dropped the  *)
(* object.                                                                 *)
InUseByHost(n) == n \in created /\ ~freed[n]

Manage(n) ==
  /\ Running /\ "manage" \in HostCalls /\ InUseByHost(n)
  /\ IF managed[n]
     THEN fault' = "manage" /\ UNCHANGED listVars
     ELSE IF AppendPanics(n, TRUE)
     THEN fault' = "append" /\ UNCHANGED listVars
     ELSE AppendAllocated(n) /\ UNCHANGED fault
  /\ UNCHANGED <<objectVars, markVars, sweepVars, triggerVars, callVars, root, pc>>

\* set_magic(get_magic(), false) comes first, so remove always finds the node
\* unmanaged and panics
Unmanage(n) ==
  /\ Running /\ "unmanage" \in HostCalls /\ InUseByHost(n)
  /\ IF ~managed[n]
     THEN fault' = "unmanage" /\ UNCHANGED managed
     ELSE /\ managed' = [managed EXCEPT ![n] = FALSE]
          /\ fault' = IF magic[n] # "allocated" \/ nodes["allocated"] = <<>>
                      THEN "remove" ELSE "remove unmanaged"
  /\ UNCHANGED <<nodes, magic, lookup_index, created, objectVars, markVars,
                 sweepVars, triggerVars, callVars, root, pc>>

Deallocate(n) ==
  /\ Running /\ "deallocate" \in HostCalls /\ InUseByHost(n)
  /\ n \notin Live
  /\ IF ~managed[n]
     THEN /\ BodyFreed(n)
          /\ UNCHANGED <<listVars, fault>>
     ELSE /\ fault' = FreeFault(n)
          /\ IF fault' = "none"
             THEN BodyFreed(n) /\ MoveToFree(n)
             ELSE UNCHANGED <<listVars, freed, field, stale>>
  /\ UNCHANGED <<tag, color, markVars, sweepVars, triggerVars, callVars, root, pc>>

-----------------------------------------------------------------------------
\* the process has ended: abort, a crash, or the end of main
Ended ==
  /\ fault # "none" \/ pc = "exited"
  /\ UNCHANGED vars

Program ==
  \/ \E dst \in Root, v \in Value : Move(dst, v)
  \/ \E dst \in Root, n \in Node, f \in Field : Load(dst, n, f)
  \/ \E n \in Node, f \in Field, v \in Value : Store(n, f, v)
  \/ \E value \in BOOLEAN : Paused(value)
  \/ \E req \in Request : Allocate(req)
  \/ ManualRun
  \/ Exit

Collector ==
  \/ MarkRoot \/ MarkField \/ MarkReturn \/ MarkEnd
  \/ SweepFree \/ SweepKeep \/ SweepEnd
  \/ \E n \in Node, contents \in [Field -> Value] : TakeObject(n, contents)
  \/ OutOfMemory

Host == \E n \in Node : Manage(n) \/ Unmanage(n) \/ Deallocate(n)

Next == Program \/ Collector \/ Host \/ Ended

Spec == Init /\ [][Next]_vars

\* a call into the collector runs to its end on the calling thread
FairSpec == Spec /\ WF_vars(Collector)

-----------------------------------------------------------------------------
(* Safety.                                                                 *)

(* A node is where it says it is, in the list it says (see GCList), as     *)
(* long as the process lives.                                              *)
ListsSound == fault = "none" => ListsConsistent

(* The self-checks of the lists never fire: no collection, allocation or   *)
(* call of manage finds a node whose magic, index or free bit disagrees    *)
(* with the list it is in (gc.cpp:450-457, 466-479, 369-372), although     *)
(* sweep removes from the vector it is iterating over.                     *)
NoCorruptionPanic == fault \notin {"remove", "append", "double free"}

(* Tri-colour invariant of gc_mark (object.cpp:22-79): the grey objects    *)
(* are those with an activation on the C++ stack, each has one, and a      *)
(* black object, or the part of a grey one its loop has passed, refers to  *)
(* no white object; the root slots already scanned hold no white one.      *)
(* Unmanaged and freed objects count, since gc_mark visits them too.       *)
OnStack(n, s) == \E i \in 1 .. Len(s) : s[i].node = n
Passed(n, s) ==
  IF color[n] = "black" THEN Field
  ELSE {f \in Field : \E i \in 1 .. Len(s) : s[i].node = n /\ f < s[i].next}

ActivatedOnce(s) == \A i, j \in 1 .. Len(s) : s[i].node = s[j].node => i = j
GreyIsActivated(s) == \A n \in Node : color[n] = "grey" <=> OnStack(n, s)
PassedNotWhite(s) ==
  \A n \in Node : \A f \in Passed(n, s) :
    field[n][f] # Nil => color[field[n][f]] # "white"
ScannedNotWhite ==
  \A r \in 1 .. (root_pos - 1) : root[r] \in Rooted => color[root[r]] # "white"

TriColour ==
  pc = "mark" /\ fault = "none" =>
    /\ ActivatedOnce(stack)
    /\ GreyIsActivated(stack)
    /\ PassedNotWhite(stack)
    /\ ScannedNotWhite

(* No reference the program can follow leads to freed memory, as long as   *)
(* the machine lives: neither its own slots nor the stored fields of what  *)
(* they reach.                                                             *)
NoDangling ==
  fault = "none" /\ after # "exited" => \A n \in Live : n \in created /\ ~freed[n]

(* A collection frees nothing the program can reach, and nothing that an   *)
(* uninitialised field could be taken to refer to (gc.cpp:128-190).        *)
NeverFreesLive ==
  [][\A n \in Node : freed'[n] /\ ~freed[n] /\ pc = "sweep" /\ after # "exited" =>
       n \notin Live \cup InUse]_vars

(* The collector implements the promise of TracingGC.                      *)
Promise == INSTANCE TracingGC WITH
  heap <- {n \in created : ~freed[n]},
  ref <- [n \in Node |-> [f \in Field |-> StoredField(n, f)]],
  running <- after # "exited"
KeepsPromise == Promise!Spec

(* A sweep visits every managed object once, whatever it removes on the    *)
(* way: at its end exactly the objects in use are left, all white again.   *)
OnlyObjectsInUse ==
  /\ Allocated = {n \in InUse : managed[n] /\ ~freed[n]}
  /\ \A n \in Allocated : color[n] = "white"
CollectionExact ==
  [][pc = "sweep" /\ pc' \in {"idle", "take"} => OnlyObjectsInUse']_vars

(* The process panics for lack of memory only when the program has paused  *)
(* the collector or really uses MaxObjects objects (gc.cpp:263-276).       *)
OutOfMemoryOnlyWhenFull ==
  fault = "out of memory" => is_paused \/ Allocated \subseteq InUse

(* The sweep of the destructor, which marks nothing, frees every managed   *)
(* object: it relies on the collections before it to leave all white.      *)
ExitFreesAll == pc = "exited" => nodes["allocated"] = <<>>

(* gc_mark only visits objects in use (the assertion of object.cpp:24):    *)
(* of a freed one it would read fields through a null pointer.             *)
MarksOnlyObjectsInUse == fault # "null fields"

(* Every collection ends, cycles in the graph or not.                      *)
CollectionEnds ==
  pc \in {"mark", "sweep"} ~> (pc \in {"idle", "take", "exited"} \/ fault # "none")
=============================================================================
