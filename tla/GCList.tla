------------------------------- MODULE GCList -------------------------------
(***************************************************************************)
(* The two GC_List vectors of the collector and the bookkeeping of their   *)
(* GC_Nodes (src/src/vm/runtime/gc.cpp:9-45 and 447-498).                  *)
(*                                                                         *)
(* A node is in at most one list.  It carries the identity of that list    *)
(* (`magic', whose low bit says whether the node is managed) and its own   *)
(* position in it (`lookup_index'), so that remove runs in constant time   *)
(* by moving the last node into the hole.  The operators below are the     *)
(* moves the collector makes; MalangGC composes them with the rest.        *)
(* Sequences are 1-based: position lookup_index + 1 is nodes[lookup_index].*)
(***************************************************************************)
EXTENDS Integers, Sequences, FiniteSets

CONSTANTS
  Node,    \* addresses of GC_Nodes, which are never given back to malloc
  Nil      \* the null pointer

ASSUME NilAssumption == Nil \notin Node

ListId == {"allocated", "free"}
magic_index == -1

VARIABLES
  nodes,         \* the contents of m_allocated and m_free
  magic,         \* the list a node says it is in, "null" for none
  managed,       \* the low bit of the magic word
  lookup_index,  \* the position a node says it has in that list
  created        \* the nodes `new GC_Node' has returned so far

listVars == <<nodes, magic, managed, lookup_index, created>>

ListTypeOK ==
  /\ nodes \in [ListId -> Seq(Node)]
  /\ magic \in [Node -> ListId \cup {"null"}]
  /\ managed \in [Node -> BOOLEAN]
  /\ lookup_index \in [Node -> Nat \cup {magic_index}]
  /\ created \subseteq Node

ListInit ==
  /\ nodes = [l \in ListId |-> <<>>]
  /\ magic = [n \in Node |-> "null"]
  /\ managed = [n \in Node |-> FALSE]
  /\ lookup_index = [n \in Node |-> magic_index]
  /\ created = {}

Allocated == {nodes["allocated"][i] : i \in 1 .. Len(nodes["allocated"])}

-----------------------------------------------------------------------------
(* vector operations *)
PopBack(s) == [i \in 1 .. (Len(s) - 1) |-> s[i]]

\* nodes[i] = back; pop_back
SwapRemove(s, i) ==
  [j \in 1 .. (Len(s) - 1) |-> IF j = i THEN s[Len(s)] ELSE s[j]]

\* the checks of remove that panic, and those of append
RemovePanics(l, n) == magic[n] # l \/ nodes[l] = <<>> \/ ~managed[n]
AppendPanics(n, is_managed) == lookup_index[n] # magic_index \/ ~is_managed

\* an append that leaves the node's index alone
AppendUnindexed(n) ==
  /\ nodes' = [nodes EXCEPT !["allocated"] = Append(@, n)]
  /\ magic' = [magic EXCEPT ![n] = "allocated"]
  /\ managed' = [managed EXCEPT ![n] = TRUE]
  /\ UNCHANGED <<lookup_index, created>>

\* m_allocated.append(n)
AppendAllocated(n) ==
  /\ nodes' = [nodes EXCEPT !["allocated"] = Append(@, n)]
  /\ magic' = [magic EXCEPT ![n] = "allocated"]
  /\ managed' = [managed EXCEPT ![n] = TRUE]
  /\ lookup_index' = [lookup_index EXCEPT ![n] = Len(nodes["allocated"])]
  /\ UNCHANGED created

\* a remove that moves the last node without telling it its new position
MoveToFreeUntold(n) ==
  LET hole == lookup_index[n] + 1
  IN /\ nodes' = [nodes EXCEPT !["allocated"] = SwapRemove(@, hole),
                               !["free"] = Append(@, n)]
     /\ magic' = [magic EXCEPT ![n] = "free"]
     /\ lookup_index' = [lookup_index EXCEPT ![n] = Len(nodes["free"])]
     /\ UNCHANGED <<managed, created>>

\* free_node(n): m_allocated.remove(n), then m_free.append(n)
MoveToFree(n) ==
  LET hole == lookup_index[n] + 1
      back == nodes["allocated"][Len(nodes["allocated"])]
  IN /\ nodes' = [nodes EXCEPT !["allocated"] = SwapRemove(@, hole),
                               !["free"] = Append(@, n)]
     /\ magic' = [magic EXCEPT ![n] = "free"]
     /\ lookup_index' = [lookup_index EXCEPT ![back] = lookup_index[n],
                                             ![n] = Len(nodes["free"])]
     /\ UNCHANGED <<managed, created>>

\* the node alloc_intern hands out: the back of m_free, or a new one
Available(n) ==
  IF nodes["free"] # <<>>
  THEN n = nodes["free"][Len(nodes["free"])]
  ELSE n \in Node \ created

\* m_free.pop() or new GC_Node; set_magic; and, for a managed object, append
TakeNode(n, is_managed) ==
  /\ Available(n)
  /\ nodes' = [nodes EXCEPT
       !["free"] = IF @ = <<>> THEN @ ELSE PopBack(@),
       !["allocated"] = IF is_managed THEN Append(@, n) ELSE @]
  /\ magic' = [magic EXCEPT ![n] = IF is_managed THEN "allocated" ELSE "null"]
  /\ managed' = [managed EXCEPT ![n] = is_managed]
  /\ lookup_index' = [lookup_index EXCEPT
       ![n] = IF is_managed THEN Len(nodes["allocated"]) ELSE magic_index]
  /\ created' = created \cup {n}

-----------------------------------------------------------------------------
(* A node sits at the position it claims, in the list it claims, and a     *)
(* node in no list claims none: what makes the constant-time remove and    *)
(* the reuse of freed nodes sound (gc.cpp:480-484, 411-415).               *)
SlotsAgree ==
  \A l \in ListId : \A i \in 1 .. Len(nodes[l]) :
    /\ magic[nodes[l][i]] = l
    /\ lookup_index[nodes[l][i]] = i - 1
    /\ managed[nodes[l][i]]
    /\ nodes[l][i] \in created
MembersFound ==
  \A n \in Node : magic[n] # "null" =>
    /\ lookup_index[n] + 1 \in 1 .. Len(nodes[magic[n]])
    /\ nodes[magic[n]][lookup_index[n] + 1] = n
LooseUnmanaged ==
  \A n \in Node : magic[n] = "null" => ~managed[n] /\ lookup_index[n] = magic_index

ListsConsistent == SlotsAgree /\ MembersFound /\ LooseUnmanaged
=============================================================================
