----------------------------- MODULE TracingGC ------------------------------
(***************************************************************************)
(* What the collector promises a program, in the words of thoughts.txt:    *)
(* it "checks the system for memory that is no longer reachable by the     *)
(* program and frees it for reuse".  The program sees objects that refer   *)
(* to each other and the references it holds itself; an object may vanish  *)
(* at any moment, but only once the program cannot reach it any more, and  *)
(* a new object is one the program does not have yet.  Once the machine    *)
(* is being torn down, everything may go.                                  *)
(***************************************************************************)
EXTENDS Integers

CONSTANTS
  Node,    \* the identities of objects
  Nil,     \* no reference
  Root,    \* where the program holds references
  Field    \* the reference fields of an object

VARIABLES
  heap,    \* the objects that exist
  ref,     \* the references in their fields
  root,    \* the references the program holds
  running  \* FALSE once the machine is being torn down

vars == <<heap, ref, root, running>>

NoFields == [f \in Field |-> Nil]
Held == {root[r] : r \in Root} \ {Nil}
Closed(S) == \A n \in S : \A f \in Field : ref[n][f] \in S \cup {Nil}
Live == {n \in Node : \A S \in SUBSET Node : Held \subseteq S /\ Closed(S) => n \in S}

TypeOK ==
  /\ heap \subseteq Node
  /\ ref \in [Node -> [Field -> Node \cup {Nil}]]
  /\ root \in [Root -> Node \cup {Nil}]
  /\ running \in BOOLEAN

Init ==
  /\ heap = {}
  /\ ref = [n \in Node |-> NoFields]
  /\ root = [r \in Root |-> Nil]
  /\ running = TRUE

Move(dst, v) ==
  /\ running
  /\ v \in Held \cup {Nil}
  /\ root' = [root EXCEPT ![dst] = v]
  /\ UNCHANGED <<heap, ref, running>>

Load(dst, n, f) ==
  /\ running
  /\ n \in Held
  /\ root' = [root EXCEPT ![dst] = ref[n][f]]
  /\ UNCHANGED <<heap, ref, running>>

Store(n, f, v) ==
  /\ running
  /\ n \in Held
  /\ v \in Held \cup {Nil}
  /\ ref' = [ref EXCEPT ![n][f] = v]
  /\ UNCHANGED <<heap, root, running>>

New(n, dst) ==
  /\ running
  /\ n \in Node \ heap
  /\ heap' = heap \cup {n}
  /\ ref' = [ref EXCEPT ![n] = NoFields]
  /\ root' = [root EXCEPT ![dst] = n]
  /\ UNCHANGED running

Reclaim(n) ==
  /\ n \in heap
  /\ running => n \notin Live
  /\ heap' = heap \ {n}
  /\ ref' = [ref EXCEPT ![n] = NoFields]
  /\ UNCHANGED <<root, running>>

TearDown == running /\ running' = FALSE /\ UNCHANGED <<heap, ref, root>>

Next ==
  \/ \E dst \in Root, v \in Node \cup {Nil} : Move(dst, v)
  \/ \E dst \in Root, n \in Node, f \in Field : Load(dst, n, f)
  \/ \E n \in Node, f \in Field, v \in Node \cup {Nil} : Store(n, f, v)
  \/ \E n \in Node, dst \in Root : New(n, dst)
  \/ \E n \in Node : Reclaim(n)
  \/ TearDown

Spec == Init /\ [][Next]_vars

(* No reference leads to memory that has been freed.                       *)
NoDangling == running => Live \subseteq heap
=============================================================================
