---------------------------- MODULE GCList_proofs ----------------------------
(***************************************************************************)
(* The moves of GCList keep the types of the lists and the agreement       *)
(* between a list and the nodes in it.                                     *)
(***************************************************************************)
EXTENDS GCList, SequenceTheorems, TLAPS

-----------------------------------------------------------------------------
(* What the vector operations return.                                      *)

LEMMA PopBackSeq ==
  ASSUME NEW S, NEW s \in Seq(S), s # <<>>
  PROVE  /\ PopBack(s) \in Seq(S)
         /\ Len(PopBack(s)) = Len(s) - 1
         /\ \A i \in 1 .. (Len(s) - 1) : PopBack(s)[i] = s[i]
<1>1. Len(s) - 1 \in Nat
  BY EmptySeq
<1>2. PopBack(s) \in [1 .. (Len(s) - 1) -> S]
  BY <1>1, ElementOfSeq DEF PopBack
<1>3. PopBack(s) \in Seq(S)
  BY <1>1, <1>2, SeqDef
<1>4. Len(PopBack(s)) = Len(s) - 1
  BY <1>1, <1>2, <1>3, LenProperties
<1> QED
  BY <1>3, <1>4 DEF PopBack

LEMMA SwapRemoveSeq ==
  ASSUME NEW S, NEW s \in Seq(S), s # <<>>, NEW i
  PROVE  /\ SwapRemove(s, i) \in Seq(S)
         /\ Len(SwapRemove(s, i)) = Len(s) - 1
         /\ \A j \in 1 .. (Len(s) - 1) :
              SwapRemove(s, i)[j] = IF j = i THEN s[Len(s)] ELSE s[j]
<1>1. Len(s) - 1 \in Nat /\ Len(s) \in 1 .. Len(s)
  BY EmptySeq
<1>2. SwapRemove(s, i) \in [1 .. (Len(s) - 1) -> S]
  BY <1>1, ElementOfSeq DEF SwapRemove
<1>3. SwapRemove(s, i) \in Seq(S)
  BY <1>1, <1>2, SeqDef
<1>4. Len(SwapRemove(s, i)) = Len(s) - 1
  BY <1>1, <1>2, <1>3, LenProperties
<1> QED
  BY <1>3, <1>4 DEF SwapRemove

-----------------------------------------------------------------------------
(* Types.                                                                  *)

\* An append keeps the types of the lists.
LEMMA AppendAllocatedType ==
  ASSUME ListTypeOK, NEW n \in Node, AppendAllocated(n)
  PROVE  ListTypeOK'
<1>1. nodes' \in [ListId -> Seq(Node)]
  BY AppendProperties DEF ListTypeOK, AppendAllocated, ListId
<1>2. lookup_index' \in [Node -> Nat \cup {magic_index}]
  BY LenProperties DEF ListTypeOK, AppendAllocated, ListId
<1> QED
  BY <1>1, <1>2 DEF ListTypeOK, AppendAllocated, ListId

\* A node moved to the free list keeps the types of the lists.
LEMMA MoveToFreeType ==
  ASSUME ListTypeOK, NEW n \in Node, ~RemovePanics("allocated", n), MoveToFree(n)
  PROVE  ListTypeOK'
<1> DEFINE a == nodes["allocated"]
           f == nodes["free"]
           hole == lookup_index[n] + 1
<1>1. a \in Seq(Node) /\ a # <<>> /\ f \in Seq(Node)
  BY DEF ListTypeOK, RemovePanics, ListId
<1>2. SwapRemove(a, hole) \in Seq(Node) /\ Append(f, n) \in Seq(Node)
  BY <1>1, SwapRemoveSeq, AppendProperties
<1>3. nodes' = [nodes EXCEPT !["allocated"] = SwapRemove(a, hole),
                             !["free"] = Append(f, n)]
  BY DEF MoveToFree
<1>4. nodes' \in [ListId -> Seq(Node)]
  BY <1>2, <1>3 DEF ListTypeOK, ListId
<1>5. lookup_index' \in [Node -> Nat \cup {magic_index}]
  <2>1. a[Len(a)] \in Node
    BY <1>1, EmptySeq, ElementOfSeq
  <2>2. Len(f) \in Nat
    BY <1>1, LenProperties
  <2> QED
    BY <2>1, <2>2 DEF ListTypeOK, MoveToFree
<1> QED
  BY <1>4, <1>5 DEF ListTypeOK, MoveToFree, ListId

\* A node handed out keeps the types of the lists.
LEMMA TakeNodeType ==
  ASSUME ListTypeOK, NEW n \in Node, NEW m \in BOOLEAN, TakeNode(n, m)
  PROVE  ListTypeOK'
<1> DEFINE a == nodes["allocated"]
           f == nodes["free"]
<1>1. a \in Seq(Node) /\ f \in Seq(Node)
  BY DEF ListTypeOK, ListId
<1>2. Append(a, n) \in Seq(Node) /\ (f # <<>> => PopBack(f) \in Seq(Node))
  BY <1>1, PopBackSeq, AppendProperties
<1>3. nodes' = [nodes EXCEPT !["free"] = IF f = <<>> THEN f ELSE PopBack(f),
                             !["allocated"] = IF m THEN Append(a, n) ELSE a]
  BY DEF TakeNode
<1>4. nodes' \in [ListId -> Seq(Node)]
  BY <1>1, <1>2, <1>3 DEF ListTypeOK, ListId
<1>5. lookup_index' \in [Node -> Nat \cup {magic_index}]
  <2>1. Len(a) \in Nat
    BY <1>1, LenProperties
  <2> QED
    BY <2>1 DEF ListTypeOK, TakeNode
<1> QED
  BY <1>4, <1>5 DEF ListTypeOK, TakeNode, ListId

-----------------------------------------------------------------------------
(* Agreement of the lists with their nodes.                                *)

\* The lists start empty, and every node outside them.
LEMMA ListInitConsistent == ListInit => ListsConsistent
BY EmptySeq DEF ListInit, ListsConsistent, SlotsAgree, MembersFound,
                LooseUnmanaged, ListId, magic_index

\* A node has one position in one list.
LEMMA SlotsDistinct ==
  ASSUME ListTypeOK, SlotsAgree,
         NEW l \in ListId, NEW i \in 1 .. Len(nodes[l]), NEW j \in 1 .. Len(nodes[l]),
         nodes[l][i] = nodes[l][j]
  PROVE  i = j
<1>1. nodes[l] \in Seq(Node)
  BY DEF ListTypeOK
<1>2. Len(nodes[l]) \in Nat
  BY <1>1, LenProperties
<1> QED
  BY <1>2 DEF SlotsAgree

\* Appending a node of no list puts it where it says.
LEMMA AppendAllocatedConsistent ==
  ASSUME ListTypeOK, ListsConsistent, NEW n \in Node, n \in created,
         magic[n] = "null", AppendAllocated(n)
  PROVE  ListsConsistent'
<1> DEFINE a == nodes["allocated"]
<1>1. a \in Seq(Node) /\ Len(a) \in Nat /\ nodes["free"] \in Seq(Node)
  BY LenProperties DEF ListTypeOK, ListId
<1>2. /\ nodes'["free"] = nodes["free"]
      /\ nodes'["allocated"] = Append(a, n)
      /\ Len(Append(a, n)) = Len(a) + 1
      /\ Append(a, n)[Len(a) + 1] = n
      /\ \A i \in 1 .. Len(a) : Append(a, n)[i] = a[i]
  BY <1>1, AppendProperties DEF AppendAllocated, ListTypeOK, ListId
<1>3. /\ magic' = [magic EXCEPT ![n] = "allocated"]
      /\ managed' = [managed EXCEPT ![n] = TRUE]
      /\ lookup_index' = [lookup_index EXCEPT ![n] = Len(a)]
      /\ created' = created
  BY DEF AppendAllocated
<1>4. SlotsAgree'
  <2> SUFFICES ASSUME NEW l \in ListId, NEW i \in 1 .. Len(nodes'[l])
               PROVE  /\ magic'[nodes'[l][i]] = l
                      /\ lookup_index'[nodes'[l][i]] = i - 1
                      /\ managed'[nodes'[l][i]]
                      /\ nodes'[l][i] \in created'
    BY DEF SlotsAgree
  <2>1. CASE l = "allocated" /\ i = Len(a) + 1
    BY <2>1, <1>1, <1>2, <1>3 DEF ListTypeOK
  <2>2. CASE ~(l = "allocated" /\ i = Len(a) + 1)
    <3>1. i \in 1 .. Len(nodes[l]) /\ nodes'[l][i] = nodes[l][i]
      BY <2>2, <1>1, <1>2, LenProperties DEF ListId
    <3>2. nodes[l][i] \in Node /\ nodes[l][i] # n
      BY <3>1, ElementOfSeq DEF ListTypeOK, ListsConsistent, SlotsAgree, ListId
    <3> QED
      BY <3>1, <3>2, <1>3 DEF ListTypeOK, ListsConsistent, SlotsAgree
  <2> QED
    BY <2>1, <2>2
<1>5. MembersFound'
  BY <1>1, <1>2, <1>3 DEF ListTypeOK, ListsConsistent, MembersFound, ListId
<1>6. LooseUnmanaged'
  BY <1>3 DEF ListTypeOK, ListsConsistent, LooseUnmanaged
<1> QED
  BY <1>4, <1>5, <1>6 DEF ListsConsistent

\* What remove can rely on: the node it is given is where it says.
LEMMA RemoveFinds ==
  ASSUME ListTypeOK, ListsConsistent, NEW n \in Node,
         ~RemovePanics("allocated", n)
  PROVE  LET a == nodes["allocated"]
         IN /\ a \in Seq(Node)
            /\ Len(a) \in Nat \ {0}
            /\ lookup_index[n] + 1 \in 1 .. Len(a)
            /\ lookup_index[n] \in Nat
            /\ a[lookup_index[n] + 1] = n
            /\ a[Len(a)] \in Node
            /\ magic[n] = "allocated" /\ managed[n]
            /\ magic[a[Len(a)]] = "allocated" /\ managed[a[Len(a)]]
            /\ lookup_index[a[Len(a)]] = Len(a) - 1
            /\ n \in created /\ a[Len(a)] \in created
<1> DEFINE a == nodes["allocated"]
<1>1. a \in Seq(Node) /\ a # <<>> /\ magic[n] = "allocated" /\ managed[n]
  BY DEF ListTypeOK, ListId, RemovePanics
<1>2. Len(a) \in Nat \ {0}
  BY <1>1, EmptySeq, LenProperties
<1>3. lookup_index[n] + 1 \in 1 .. Len(a) /\ a[lookup_index[n] + 1] = n
  BY <1>1 DEF ListsConsistent, MembersFound, ListTypeOK
<1>4. lookup_index[n] \in Nat
  BY <1>2, <1>3 DEF ListTypeOK, magic_index
<1>5. Len(a) \in 1 .. Len(a) /\ a[Len(a)] \in Node
  BY <1>1, <1>2, ElementOfSeq
<1> QED
  BY <1>1, <1>2, <1>3, <1>4, <1>5 DEF ListsConsistent, SlotsAgree, ListId

\* Moving a node to the free list, the last one taking its place, leaves
\* every node where it says.
LEMMA MoveToFreeConsistent ==
  ASSUME ListTypeOK, ListsConsistent, NEW n \in Node,
         ~RemovePanics("allocated", n), MoveToFree(n)
  PROVE  ListsConsistent'
<1> DEFINE a == nodes["allocated"]
           f == nodes["free"]
           hole == lookup_index[n] + 1
           back == a[Len(a)]
<1>1. /\ a \in Seq(Node) /\ f \in Seq(Node)
      /\ Len(a) \in Nat \ {0} /\ Len(f) \in Nat
      /\ hole \in 1 .. Len(a) /\ a[hole] = n /\ hole - 1 = lookup_index[n]
      /\ lookup_index[n] \in Nat
      /\ back \in Node /\ lookup_index[back] = Len(a) - 1
      /\ magic[n] = "allocated" /\ magic[back] = "allocated"
      /\ managed[n] /\ managed[back]
      /\ n \in created /\ back \in created
  BY RemoveFinds, LenProperties DEF ListTypeOK, ListId
<1>2. /\ nodes'["free"] = Append(f, n)
      /\ nodes'["allocated"] = SwapRemove(a, hole)
      /\ Len(nodes'["allocated"]) = Len(a) - 1
      /\ \A j \in 1 .. (Len(a) - 1) :
           nodes'["allocated"][j] = IF j = hole THEN back ELSE a[j]
      /\ Len(nodes'["free"]) = Len(f) + 1
      /\ nodes'["free"][Len(f) + 1] = n
      /\ \A i \in 1 .. Len(f) : nodes'["free"][i] = f[i]
  <2>1. a # <<>>
    BY <1>1, EmptySeq
  <2>2. nodes' = [nodes EXCEPT !["allocated"] = SwapRemove(a, hole),
                               !["free"] = Append(f, n)]
    BY DEF MoveToFree
  <2>3. nodes'["free"] = Append(f, n) /\ nodes'["allocated"] = SwapRemove(a, hole)
    BY <2>2 DEF ListTypeOK, ListId
  <2>4. /\ Len(SwapRemove(a, hole)) = Len(a) - 1
        /\ \A j \in 1 .. (Len(a) - 1) :
             SwapRemove(a, hole)[j] = IF j = hole THEN a[Len(a)] ELSE a[j]
    BY <1>1, <2>1, SwapRemoveSeq
  <2>5. /\ Len(Append(f, n)) = Len(f) + 1
        /\ Append(f, n)[Len(f) + 1] = n
        /\ \A i \in 1 .. Len(f) : Append(f, n)[i] = f[i]
    BY <1>1, AppendProperties
  <2> QED
    BY <2>3, <2>4, <2>5
<1>3. /\ magic' = [magic EXCEPT ![n] = "free"]
      /\ managed' = managed /\ created' = created
      /\ lookup_index' = [lookup_index EXCEPT ![back] = lookup_index[n],
                                              ![n] = Len(f)]
  BY DEF MoveToFree
<1>4. /\ lookup_index'[n] = Len(f)
      /\ back # n => lookup_index'[back] = hole - 1
      /\ \A m \in Node \ {n, back} : lookup_index'[m] = lookup_index[m]
  BY <1>1, <1>3 DEF ListTypeOK
<1>5. \A i \in 1 .. Len(a) : a[i] \in Node /\ (a[i] = n <=> i = hole)
                                           /\ (a[i] = back <=> i = Len(a))
  <2> TAKE i \in 1 .. Len(a)
  <2>1. a[i] \in Node
    BY <1>1, ElementOfSeq
  <2>2. lookup_index[a[i]] = i - 1 /\ i \in Nat
    BY <1>1 DEF ListsConsistent, SlotsAgree, ListId
  <2> QED
    BY <1>1, <2>1, <2>2
<1>6. SlotsAgree'
  <2> SUFFICES ASSUME NEW l \in ListId, NEW i \in 1 .. Len(nodes'[l])
               PROVE  /\ magic'[nodes'[l][i]] = l
                      /\ lookup_index'[nodes'[l][i]] = i - 1
                      /\ managed'[nodes'[l][i]]
                      /\ nodes'[l][i] \in created'
    BY DEF SlotsAgree
  <2>1. CASE l = "free" /\ i = Len(f) + 1
    BY <2>1, <1>1, <1>2, <1>3, <1>4 DEF ListTypeOK
  <2>2. CASE l = "free" /\ i # Len(f) + 1
    <3>1. i \in 1 .. Len(f) /\ nodes'[l][i] = f[i] /\ f[i] \in Node
      BY <2>2, <1>1, <1>2, ElementOfSeq
    <3>2. magic[f[i]] = "free" /\ lookup_index[f[i]] = i - 1 /\ managed[f[i]]
          /\ f[i] \in created
      BY <3>1 DEF ListsConsistent, SlotsAgree, ListId
    <3>3. f[i] \notin {n, back}
      BY <3>2, <1>1
    <3> QED
      BY <2>2, <3>1, <3>2, <3>3, <1>3, <1>4 DEF ListTypeOK
  <2>3. CASE l = "allocated" /\ i = hole
    <3>1. i \in 1 .. (Len(a) - 1)
      BY <2>3, <1>2
    <3>2. nodes'[l][i] = back
      BY <2>3, <3>1, <1>2
    <3>3. back # n
      BY <2>3, <3>1, <1>1, <1>5
    <3> QED
      BY <2>3, <3>2, <3>3, <1>1, <1>3, <1>4 DEF ListTypeOK
  <2>4. CASE l = "allocated" /\ i # hole
    <3>1. i \in 1 .. (Len(a) - 1) /\ nodes'[l][i] = a[i]
      BY SMTT(30), <2>4, <1>1, <1>2
    <3>2. a[i] \in Node \ {n, back} /\ i \in 1 .. Len(a)
      BY <2>4, <3>1, <1>1, <1>5
    <3>3. magic[a[i]] = "allocated" /\ lookup_index[a[i]] = i - 1
          /\ managed[a[i]] /\ a[i] \in created
      BY <3>2 DEF ListsConsistent, SlotsAgree, ListId
    <3> QED
      BY <2>4, <3>1, <3>2, <3>3, <1>3, <1>4 DEF ListTypeOK
  <2> QED
    BY <2>1, <2>2, <2>3, <2>4 DEF ListId
<1>7. MembersFound'
  <2> SUFFICES ASSUME NEW m \in Node, magic'[m] # "null"
               PROVE  /\ lookup_index'[m] + 1 \in 1 .. Len(nodes'[magic'[m]])
                      /\ nodes'[magic'[m]][lookup_index'[m] + 1] = m
    BY DEF MembersFound
  <2>1. CASE m = n
    BY <2>1, <1>1, <1>2, <1>3, <1>4 DEF ListTypeOK
  <2>2. CASE m = back /\ m # n
    <3>1. hole \in 1 .. (Len(a) - 1)
      BY <2>2, <1>1, <1>5
    <3> QED
      BY <2>2, <3>1, <1>1, <1>2, <1>3, <1>4 DEF ListTypeOK
  <2>3. CASE m \notin {n, back}
    <3>1. magic'[m] = magic[m] /\ lookup_index'[m] = lookup_index[m]
      BY <2>3, <1>3, <1>4 DEF ListTypeOK
    <3>2. magic[m] \in ListId /\ lookup_index[m] + 1 \in 1 .. Len(nodes[magic[m]])
          /\ nodes[magic[m]][lookup_index[m] + 1] = m
      BY <3>1 DEF ListTypeOK, ListsConsistent, MembersFound
    <3>3. CASE magic[m] = "free"
      BY <3>1, <3>2, <3>3, <1>1, <1>2
    <3>4. CASE magic[m] = "allocated"
      <4>1. lookup_index[m] + 1 \in 1 .. Len(a) /\ a[lookup_index[m] + 1] = m
        BY <3>2, <3>4
      <4>2. lookup_index[m] + 1 # hole /\ lookup_index[m] + 1 # Len(a)
        BY <4>1, <2>3, <1>1, <1>5
      <4>3. lookup_index[m] + 1 \in 1 .. (Len(a) - 1)
        BY <4>1, <4>2, <1>1
      <4> QED
        BY <3>1, <3>4, <4>1, <4>2, <4>3, <1>2
    <3> QED
      BY <3>2, <3>3, <3>4 DEF ListId
  <2> QED
    BY <2>1, <2>2, <2>3
<1>8. LooseUnmanaged'
  BY <1>1, <1>3, <1>4 DEF ListTypeOK, ListsConsistent, LooseUnmanaged
<1> QED
  BY <1>6, <1>7, <1>8 DEF ListsConsistent

\* Handing out a node that is in no list, or at the back of the free list,
\* leaves every node where it says.
LEMMA TakeNodeConsistent ==
  ASSUME ListTypeOK, ListsConsistent, NEW n \in Node, NEW m \in BOOLEAN,
         TakeNode(n, m)
  PROVE  ListsConsistent'
<1> DEFINE a == nodes["allocated"]
           f == nodes["free"]
           rest == IF f = <<>> THEN f ELSE PopBack(f)
<1>1. /\ a \in Seq(Node) /\ f \in Seq(Node)
      /\ Len(a) \in Nat /\ Len(f) \in Nat
  BY LenProperties DEF ListTypeOK, ListId
<1>2. /\ nodes'["free"] = rest
      /\ nodes'["allocated"] = IF m THEN Append(a, n) ELSE a
      /\ magic' = [magic EXCEPT ![n] = IF m THEN "allocated" ELSE "null"]
      /\ managed' = [managed EXCEPT ![n] = m]
      /\ lookup_index' = [lookup_index EXCEPT ![n] = IF m THEN Len(a) ELSE magic_index]
      /\ created' = created \cup {n}
  BY DEF TakeNode, ListTypeOK, ListId
<1>3. /\ Len(Append(a, n)) = Len(a) + 1
      /\ Append(a, n)[Len(a) + 1] = n
      /\ \A i \in 1 .. Len(a) : Append(a, n)[i] = a[i]
  BY <1>1, AppendProperties
<1>4. /\ rest \in Seq(Node) /\ Len(rest) \in Nat /\ Len(rest) <= Len(f)
      /\ \A i \in 1 .. Len(rest) : rest[i] = f[i] /\ f[i] # n
      /\ \A x \in Node \ {n} : magic[x] = "free" =>
           lookup_index[x] + 1 \in 1 .. Len(rest)
  <2>1. CASE f = <<>>
    <3>1. rest = f /\ Len(f) = 0
      BY <2>1, EmptySeq
    <3>2. \A x \in Node : magic[x] # "free"
      BY <3>1 DEF ListsConsistent, MembersFound, ListTypeOK
    <3> QED
      BY <1>1, <3>1, <3>2
  <2>2. CASE f # <<>>
    <3>1. /\ rest \in Seq(Node) /\ Len(rest) = Len(f) - 1
          /\ \A i \in 1 .. (Len(f) - 1) : rest[i] = f[i]
      BY <2>2, <1>1, PopBackSeq
    <3>2. Len(f) \in Nat \ {0} /\ n = f[Len(f)]
      BY <2>2, <1>1, EmptySeq DEF TakeNode, Available
    <3>3. \A i \in 1 .. Len(f) : lookup_index[f[i]] = i - 1
      BY DEF ListsConsistent, SlotsAgree, ListId
    <3>4. \A i \in 1 .. (Len(f) - 1) : f[i] # n
      BY <3>2, <3>3
    <3>5. \A x \in Node \ {n} : magic[x] = "free" =>
            lookup_index[x] + 1 \in 1 .. Len(rest)
      <4> SUFFICES ASSUME NEW x \in Node \ {n}, magic[x] = "free"
                   PROVE  lookup_index[x] + 1 \in 1 .. Len(rest)
        OBVIOUS
      <4>1. lookup_index[x] + 1 \in 1 .. Len(f) /\ f[lookup_index[x] + 1] = x
        BY DEF ListsConsistent, MembersFound
      <4>2. lookup_index[x] + 1 # Len(f)
        BY <4>1, <3>2
      <4> QED
        BY <4>1, <4>2, <3>1, <3>2
    <3> QED
      BY <3>1, <3>2, <3>4, <3>5
  <2> QED
    BY <2>1, <2>2
<1>5. magic[n] # "allocated"
  <2>1. CASE f = <<>>
    <3>1. n \notin created
      BY <2>1 DEF TakeNode, Available
    <3> QED
      BY <3>1 DEF ListsConsistent, MembersFound, SlotsAgree, ListId
  <2>2. CASE f # <<>>
    <3>1. Len(f) \in 1 .. Len(f) /\ n = f[Len(f)]
      BY <2>2, <1>1, EmptySeq DEF TakeNode, Available
    <3> QED
      BY <3>1 DEF ListsConsistent, SlotsAgree, ListId
  <2> QED
    BY <2>1, <2>2
<1>6. \A i \in 1 .. Len(a) : a[i] \in Node \ {n}
  BY <1>1, <1>5, ElementOfSeq DEF ListsConsistent, SlotsAgree, ListId
<1>7. SlotsAgree'
  <2> SUFFICES ASSUME NEW l \in ListId, NEW i \in 1 .. Len(nodes'[l])
               PROVE  /\ magic'[nodes'[l][i]] = l
                      /\ lookup_index'[nodes'[l][i]] = i - 1
                      /\ managed'[nodes'[l][i]]
                      /\ nodes'[l][i] \in created'
    BY DEF SlotsAgree
  <2>1. CASE l = "allocated" /\ m /\ i = Len(a) + 1
    BY <2>1, <1>1, <1>2, <1>3 DEF ListTypeOK
  <2>2. CASE ~(l = "allocated" /\ m /\ i = Len(a) + 1)
    <3>1. /\ i \in 1 .. Len(nodes[l]) /\ nodes'[l][i] = nodes[l][i]
          /\ nodes[l][i] \in Node \ {n}
      <4>1. CASE l = "free"
        <5>1. i \in 1 .. Len(rest) /\ i \in 1 .. Len(f)
          BY <4>1, <1>1, <1>2, <1>4
        <5> QED
          BY <4>1, <5>1, <1>1, <1>2, <1>4, ElementOfSeq
      <4>2. CASE l = "allocated"
        <5>1. i \in 1 .. Len(a)
          BY <4>2, <2>2, <1>1, <1>2, <1>3
        <5> QED
          BY <4>2, <5>1, <1>2, <1>3, <1>6
      <4> QED
        BY <4>1, <4>2 DEF ListId
    <3> QED
      BY <3>1, <1>2 DEF ListTypeOK, ListsConsistent, SlotsAgree
  <2> QED
    BY <2>1, <2>2
<1>8. MembersFound'
  <2> SUFFICES ASSUME NEW x \in Node, magic'[x] # "null"
               PROVE  /\ lookup_index'[x] + 1 \in 1 .. Len(nodes'[magic'[x]])
                      /\ nodes'[magic'[x]][lookup_index'[x] + 1] = x
    BY DEF MembersFound
  <2>1. CASE x = n
    <3>1. magic'[n] = IF m THEN "allocated" ELSE "null"
      BY <1>2 DEF ListTypeOK
    <3>2. m /\ magic'[n] = "allocated"
      BY <2>1, <3>1
    <3>3. lookup_index'[n] = Len(a) /\ nodes'["allocated"] = Append(a, n)
      BY <3>2, <1>2 DEF ListTypeOK
    <3> QED
      BY <2>1, <3>2, <3>3, <1>1, <1>3
  <2>2. CASE x # n
    <3>1. magic'[x] = magic[x] /\ lookup_index'[x] = lookup_index[x]
      BY <2>2, <1>2 DEF ListTypeOK
    <3>2. magic[x] \in ListId /\ lookup_index[x] + 1 \in 1 .. Len(nodes[magic[x]])
          /\ nodes[magic[x]][lookup_index[x] + 1] = x
      BY <3>1 DEF ListTypeOK, ListsConsistent, MembersFound
    <3>3. CASE magic[x] = "free"
      BY <2>2, <3>1, <3>2, <3>3, <1>2, <1>4
    <3>4. CASE magic[x] = "allocated"
      BY <3>1, <3>2, <3>4, <1>1, <1>2, <1>3
    <3> QED
      BY <3>2, <3>3, <3>4 DEF ListId
  <2> QED
    BY <2>1, <2>2
<1>9. LooseUnmanaged'
  BY <1>2 DEF ListTypeOK, ListsConsistent, LooseUnmanaged
<1> QED
  BY <1>7, <1>8, <1>9 DEF ListsConsistent
=============================================================================
