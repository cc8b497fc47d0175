---------------------------- MODULE MalangGCInv -----------------------------
(***************************************************************************)
(* The inductive invariant of MalangGC, in named parts.  The safety        *)
(* properties of MalangGC follow from it (see the modules that prove it);  *)
(* TLC checks it on a small instance.                                      *)
(***************************************************************************)
EXTENDS MalangGC

\* the header agrees with the list: what m_free holds is free and what
\* m_allocated holds is not; only a Buffer is allocated outside the lists
HeadersAgree ==
  /\ \A n \in Node : magic[n] = "allocated" => ~freed[n]
  /\ \A n \in Node : magic[n] = "free" => freed[n]
  /\ \A n \in Node : magic[n] = "null" => tag[n] = "Buffer"
  /\ request.is_managed \/ request.tag = "Buffer"

HeapInv == fault = "none" => ListsConsistent /\ HeadersAgree

\* only an Object or Array in use refers to anything
EmptyFields ==
  fault = "none" => \A n \in Node : tag[n] = "Buffer" \/ freed[n] => field[n] = NoFields

\* the variables of a loop outside that loop
PhaseInv ==
  /\ pc # "mark" => stack = <<>> /\ root_pos = 1
  /\ pc # "sweep" => raw = <<>> /\ cursor = 1
  /\ pc \in {"idle", "take", "mark"} => after # "exited"
  /\ pc = "exited" => after = "exited"

\* the slots the sweep has yet to visit
Unvisited == {raw[j] : j \in cursor .. Len(raw)}

\* raw is the memory of m_allocated; each unvisited slot still holds its own
\* managed node, which can only have moved towards the front
SweepInv ==
  pc = "sweep" /\ fault = "none" =>
    /\ Len(nodes["allocated"]) <= Len(raw)
    /\ \A j \in 1 .. Len(nodes["allocated"]) : raw[j] = nodes["allocated"][j]
    /\ \A j \in cursor .. Len(raw) :
         magic[raw[j]] = "allocated" /\ lookup_index[raw[j]] < j
    /\ \A j, k \in cursor .. Len(raw) : raw[j] = raw[k] => j = k

\* only what has fields is ever activated
TracedOnly(s) == \A i \in 1 .. Len(s) : tag[s[i].node] # "Buffer"
StackInv == TracedOnly(stack)

\* between collections what is not white is black and refers to nothing; in a
\* sweep the unvisited nodes may be black as well
ColourInv ==
  fault = "none" /\ pc # "mark" =>
    \A n \in Node : color[n] # "white" =>
      /\ color[n] = "black"
      /\ tag[n] = "Buffer" \/ freed[n] \/ (pc = "sweep" /\ n \in Unvisited)

\* what the program reaches is in use, and the sweep keeps it
LiveInv ==
  fault = "none" /\ after # "exited" =>
    /\ \A n \in Live : n \in created /\ ~freed[n]
    /\ pc = "sweep" =>
         \A n \in Live \cup InUse : n \in Unvisited => color[n] # "white"

(* Everything the collector's steps rely on from one to the next, host     *)
(* calls (gc.cpp:346-365, 442-445) between collections included: sound     *)
(* lists, headers that agree with them, a sweep cursor that has every      *)
(* unswept node ahead of it, tri-colour marking, and live objects in use.  *)
IInv ==
  /\ TypeOK
  /\ HeapInv
  /\ EmptyFields
  /\ PhaseInv
  /\ SweepInv
  /\ ColourInv
  /\ StackInv
  /\ TriColour
  /\ LiveInv

-----------------------------------------------------------------------------
(* A collection leaves exactly what is in use.                             *)

\* between collections
AllWhite == \A n \in Node : magic[n] = "allocated" => color[n] = "white"
RoomToTake ==
  is_paused \/ Len(nodes["allocated"]) < MaxObjects \/ Allocated \subseteq InUse

\* nothing is marked that is not in use
MarkExact ==
  /\ \A n \in Node : magic[n] = "allocated" /\ color[n] # "white" => n \in InUse
  /\ \A i \in 1 .. Len(stack) : stack[i].node \in InUse

\* the unvisited nodes that are not white are those in use, and those the
\* sweep has kept are in use and white again
SweepExact ==
  \A n \in Node : magic[n] = "allocated" =>
    IF n \in Unvisited THEN color[n] # "white" <=> n \in InUse
    ELSE color[n] = "white" /\ n \in InUse

\* the last sweep finds every managed node white and unvisited
ExitExact ==
  \A n \in Node : magic[n] = "allocated" => n \in Unvisited /\ color[n] = "white"

(* Beside IInv, when the host manages no object of its own accord: between *)
(* collections every managed object is white (gc.cpp:154, 186), so marking *)
(* and the sweep that follows keep what is in use and nothing else, and an *)
(* allocation finds the list full only in the two cases the panic is for.  *)
ExactInv ==
  /\ next_run <= MaxObjects
  /\ fault = "none" =>
       /\ pc \in {"idle", "take"} => AllWhite
       /\ pc = "mark" => MarkExact
       /\ pc = "sweep" => IF after = "exited" THEN ExitExact ELSE SweepExact
       /\ pc = "take" => RoomToTake
  /\ OutOfMemoryOnlyWhenFull
  /\ ExitFreesAll
=============================================================================
