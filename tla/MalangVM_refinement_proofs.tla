--------------------- MODULE MalangVM_refinement_proofs ----------------------
(***************************************************************************)
(* The interpreter implements CallStack, for the programs MalangVMInv      *)
(* describes: one array of locals and one data stack give every activation *)
(* variables and operands of its own.                                      *)
(***************************************************************************)
EXTENDS MalangVM_proofs

-----------------------------------------------------------------------------
(***************************************************************************)
(* The upper part of a sequence, while its top changes.                    *)
(***************************************************************************)
LEMMA CutFacts ==
  ASSUME NEW S, NEW s \in Seq(S), NEW a \in Nat, NEW b \in Nat, a <= b, b <= Len(s)
  PROVE  /\ SubSeq(s, a + 1, b) \in Seq(S) /\ Len(SubSeq(s, a + 1, b)) = b - a
         /\ \A i \in 1 .. b - a : SubSeq(s, a + 1, b)[i] = s[a + i] /\ s[a + i] \in S
<1>1. \A i \in a + 1 .. b : s[i] \in S
  BY ElementOfSeq
<1>2. \A i \in 1 .. b - a : a + i \in a + 1 .. b /\ a + 1 + i - 1 = a + i
  OBVIOUS
<1>3. /\ SubSeq(s, a + 1, b) \in Seq(S)
      /\ Len(SubSeq(s, a + 1, b)) = IF a + 1 <= b THEN b - (a + 1) + 1 ELSE 0
      /\ \A i \in 1 .. b - (a + 1) + 1 : SubSeq(s, a + 1, b)[i] = s[a + 1 + i - 1]
  BY <1>1, SubSeqProperties
<1>4. b - (a + 1) + 1 = b - a /\ (~(a + 1 <= b) => b - a = 0)
  OBVIOUS
<1> QED BY <1>1, <1>2, <1>3, <1>4

LEMMA CutPush ==
  ASSUME NEW S, NEW s \in Seq(S), NEW v \in S, NEW b \in Nat, b <= Len(s)
  PROVE  SubSeq(Append(s, v), b + 1, Len(Append(s, v))) = Append(SubSeq(s, b + 1, Len(s)), v)
<1>0. PICK n, q : n = Len(s) /\ q = Append(s, v)
  OBVIOUS
<1>1. /\ n \in Nat /\ b <= n /\ q \in Seq(S) /\ Len(q) = n + 1
      /\ \A i \in 1 .. n : q[i] = s[i]
      /\ q[n + 1] = v
  BY <1>0, AppendProperties
<1>2. PICK l, r : l = SubSeq(q, b + 1, n + 1) /\ r = SubSeq(s, b + 1, n)
  OBVIOUS
<1>3. /\ l \in Seq(S) /\ Len(l) = n + 1 - b
      /\ \A i \in 1 .. n + 1 - b : l[i] = q[b + i]
  BY SMTT(30), <1>1, <1>2, CutFacts
<1>4. /\ r \in Seq(S) /\ Len(r) = n - b
      /\ \A i \in 1 .. n - b : r[i] = s[b + i]
  BY <1>0, <1>1, <1>2, CutFacts
<1>5. PICK t : t = Append(r, v)
  OBVIOUS
<1>6. /\ t \in Seq(S) /\ Len(t) = n + 1 - b
      /\ \A i \in 1 .. n - b : t[i] = r[i]
      /\ t[n + 1 - b] = v
  <2>1. /\ t \in Seq(S) /\ Len(t) = n - b + 1
        /\ \A i \in 1 .. n - b : t[i] = r[i]
        /\ t[n - b + 1] = v
    BY <1>4, <1>5, AppendProperties
  <2>2. n - b + 1 = n + 1 - b
    BY <1>1
  <2> QED BY <2>1, <2>2
<1>7. \A i \in 1 .. n + 1 - b : l[i] = t[i]
  <2> TAKE i \in 1 .. n + 1 - b
  <2>1. CASE i = n + 1 - b
    <3>1. b + i = n + 1
      BY <1>1, <2>1
    <3> QED BY <1>1, <1>3, <1>6, <2>1, <3>1
  <2>2. CASE i # n + 1 - b
    <3>1. i \in 1 .. n - b /\ b + i \in 1 .. n
      BY <1>1, <2>2
    <3> QED BY <1>1, <1>3, <1>4, <1>6, <3>1
  <2> QED BY <2>1, <2>2
<1>8. l = t
  BY <1>3, <1>6, <1>7, SeqEqual
<1> QED BY <1>0, <1>1, <1>2, <1>5, <1>8

LEMMA CutPop ==
  ASSUME NEW S, NEW s \in Seq(S), NEW b \in Nat, b < Len(s)
  PROVE  /\ SubSeq(Front(s), b + 1, Len(Front(s))) = Front(SubSeq(s, b + 1, Len(s)))
         /\ Last(SubSeq(s, b + 1, Len(s))) = Last(s)
         /\ SubSeq(s, b + 1, Len(s)) # <<>>
<1>0. PICK n, q : n = Len(s) /\ q = Front(s)
  OBVIOUS
<1>1. n \in Nat /\ b < n /\ n - 1 \in Nat /\ b <= n - 1 /\ s # <<>>
  <2>1. n \in Nat /\ b < n
    BY <1>0
  <2> QED BY <1>0, <2>1, EmptySeq
<1>2. /\ q \in Seq(S) /\ Len(q) = n - 1
      /\ \A i \in 1 .. n - 1 : q[i] = s[i]
      /\ Last(s) = s[n]
  BY <1>0, <1>1, FrontSeq
<1>3. PICK l, r : l = SubSeq(q, b + 1, n - 1) /\ r = SubSeq(s, b + 1, n)
  OBVIOUS
<1>4. /\ l \in Seq(S) /\ Len(l) = n - 1 - b
      /\ \A i \in 1 .. n - 1 - b : l[i] = q[b + i]
  BY <1>1, <1>2, <1>3, CutFacts
<1>5. /\ r \in Seq(S) /\ Len(r) = n - b
      /\ \A i \in 1 .. n - b : r[i] = s[b + i]
  BY <1>0, <1>1, <1>3, CutFacts
<1>6. r # <<>>
  <2>1. n - b # 0
    BY <1>1
  <2> QED BY <1>5, <2>1, EmptySeq
<1>7. PICK t : t = Front(r)
  OBVIOUS
<1>8. /\ t \in Seq(S) /\ Len(t) = n - 1 - b
      /\ \A i \in 1 .. n - 1 - b : t[i] = r[i]
      /\ Last(r) = r[n - b]
  <2>1. /\ t \in Seq(S) /\ Len(t) = n - b - 1
        /\ \A i \in 1 .. n - b - 1 : t[i] = r[i]
        /\ Last(r) = r[n - b]
    BY <1>5, <1>6, <1>7, FrontSeq
  <2>2. n - b - 1 = n - 1 - b
    BY <1>1
  <2> QED BY <2>1, <2>2
<1>9. \A i \in 1 .. n - 1 - b : l[i] = t[i]
  <2> TAKE i \in 1 .. n - 1 - b
  <2>1. i \in 1 .. n - b /\ b + i \in 1 .. n - 1
    BY <1>1
  <2> QED BY <1>2, <1>4, <1>5, <1>8, <2>1
<1>10. l = t
  BY <1>4, <1>8, <1>9, SeqEqual
<1>11. Last(r) = s[n]
  <2>1. n - b \in 1 .. n - b /\ b + (n - b) = n
    BY <1>1
  <2> QED BY <1>5, <1>8, <2>1
<1> QED BY <1>0, <1>2, <1>3, <1>6, <1>7, <1>10, <1>11

Swapped(s) == [s EXCEPT ![Len(s)] = s[Len(s) - 1], ![Len(s) - 1] = s[Len(s)]]

LEMMA SwappedFacts ==
  ASSUME NEW S, NEW s \in Seq(S), 2 <= Len(s)
  PROVE  /\ Swapped(s) \in Seq(S) /\ Len(Swapped(s)) = Len(s)
         /\ \A i \in 1 .. Len(s) :
              Swapped(s)[i] = IF i = Len(s) THEN s[Len(s) - 1]
                              ELSE IF i = Len(s) - 1 THEN s[Len(s)] ELSE s[i]
<1> PICK n : n = Len(s)
  OBVIOUS
<1>1. /\ n \in Nat /\ n \in 1 .. n /\ n - 1 \in 1 .. n /\ n - 1 # n
  <2>1. n \in Nat
    OBVIOUS
  <2> QED BY <2>1
<1>2. s[n] \in S /\ s[n - 1] \in S
  BY <1>1, ElementOfSeq
<1>3. PICK one : one = [s EXCEPT ![n] = s[n - 1]]
  OBVIOUS
<1>4. /\ one \in Seq(S) /\ Len(one) = n
      /\ \A i \in 1 .. n : one[i] = IF i = n THEN s[n - 1] ELSE s[i]
  BY <1>1, <1>2, <1>3, ReplaceOne
<1>5. Swapped(s) = [one EXCEPT ![n - 1] = s[n]]
  BY <1>3 DEF Swapped
<1>6. /\ Swapped(s) \in Seq(S) /\ Len(Swapped(s)) = n
      /\ \A i \in 1 .. n : Swapped(s)[i] = IF i = n - 1 THEN s[n] ELSE one[i]
  BY <1>1, <1>2, <1>4, <1>5, ReplaceOne
<1> QED BY <1>1, <1>4, <1>6

LEMMA CutSwap ==
  ASSUME NEW S, NEW s \in Seq(S), NEW b \in Nat, NEW n, n = Len(s), b + 2 <= n
  PROVE  /\ Swapped(s) \in Seq(S) /\ Len(Swapped(s)) = n
         /\ \A i \in 1 .. b : Swapped(s)[i] = s[i]
         /\ SubSeq(Swapped(s), b + 1, n) = Swapped(SubSeq(s, b + 1, n))
<1>1. n \in Nat /\ b <= n /\ 2 <= n
  <2>1. n \in Nat
    OBVIOUS
  <2> QED BY <2>1
<1>2. /\ Swapped(s) \in Seq(S) /\ Len(Swapped(s)) = n
      /\ \A i \in 1 .. n :
           Swapped(s)[i] = IF i = n THEN s[n - 1] ELSE IF i = n - 1 THEN s[n] ELSE s[i]
  BY <1>1, SwappedFacts
<1>3. PICK r, l, k : r = SubSeq(s, b + 1, n) /\ l = SubSeq(Swapped(s), b + 1, n) /\ k = n - b
  OBVIOUS
<1>4. r \in Seq(S) /\ Len(r) = k /\ \A i \in 1 .. k : r[i] = s[b + i]
  BY <1>1, <1>3, CutFacts
<1>5. l \in Seq(S) /\ Len(l) = k /\ \A i \in 1 .. k : l[i] = Swapped(s)[b + i]
  BY <1>1, <1>2, <1>3, CutFacts
<1>6. /\ k \in Nat /\ 2 <= k /\ k \in 1 .. k /\ k - 1 \in 1 .. k
      /\ b + k = n /\ b + (k - 1) = n - 1
  BY <1>1, <1>3
<1>7. /\ Swapped(r) \in Seq(S) /\ Len(Swapped(r)) = k
      /\ \A i \in 1 .. k :
           Swapped(r)[i] = IF i = k THEN r[k - 1] ELSE IF i = k - 1 THEN r[k] ELSE r[i]
  <2>1. 2 <= Len(r)
    BY <1>4, <1>6
  <2>2. /\ Swapped(r) \in Seq(S) /\ Len(Swapped(r)) = Len(r)
        /\ \A i \in 1 .. Len(r) :
             Swapped(r)[i] = IF i = Len(r) THEN r[Len(r) - 1]
                             ELSE IF i = Len(r) - 1 THEN r[Len(r)] ELSE r[i]
    BY <1>4, <2>1, SwappedFacts
  <2> QED BY <1>4, <2>2
<1>8. \A i \in 1 .. k : l[i] = Swapped(r)[i]
  <2> TAKE i \in 1 .. k
  <2>1. b + i \in 1 .. n /\ (b + i = n <=> i = k) /\ (b + i = n - 1 <=> i = k - 1)
    BY <1>1, <1>6
  <2>2. l[i] = Swapped(s)[b + i] /\ r[i] = s[b + i] /\ r[k] = s[n] /\ r[k - 1] = s[n - 1]
    BY <1>4, <1>5, <1>6
  <2> QED BY <1>2, <1>7, <2>1, <2>2
<1>9. l = Swapped(r)
  BY <1>5, <1>7, <1>8, SeqEqual
<1>10. \A i \in 1 .. b : Swapped(s)[i] = s[i]
  <2>1. \A i \in 1 .. b : i \in 1 .. n /\ i # n /\ i # n - 1
    BY <1>1
  <2> QED BY <1>2, <2>1
<1> QED BY <1>2, <1>3, <1>9, <1>10

-----------------------------------------------------------------------------
(***************************************************************************)
(* The activations of the promise, out of the state of the machine.        *)
(***************************************************************************)
Abs(i) == [fn |-> acts[i].fn, vars |-> Variables(i), operands |-> Operands(i)]

\* Where the operands of an activation lie: above its base and the arguments
\* that wait there, below the next activation.
LEMMA OperandPlaces ==
  ASSUME IInv, NEW i \in 1 .. Len(acts)
  PROVE  /\ Waiting(i) \in Nat /\ acts[i].base \in Nat /\ OperandEnd(i) \in Nat
         /\ acts[i].base + Waiting(i) <= OperandEnd(i) /\ OperandEnd(i) <= Len(data)
         /\ InBody \/ i < Len(acts) => Waiting(i) = 0
         /\ i < Len(acts) => OperandEnd(i) <= Act.base
         /\ i < Len(acts) => OperandEnd(i) = acts[i + 1].base /\ i + 1 \in 1 .. Len(acts)
         /\ i = Len(acts) => OperandEnd(i) = Len(data) /\ acts[i].base = Act.base
<1>1. TypeOK /\ CallsAgree /\ OperandsNest
  BY DEF IInv
<1>2. /\ Len(acts) \in Nat /\ Len(acts) \in 1 .. Len(acts) /\ Act = acts[Len(acts)]
      /\ \A j \in 1 .. Len(acts) : acts[j].base \in Nat
      /\ Len(data) \in Nat /\ ip.left \in Nat
  BY <1>1, ActFacts
<1>3. CASE i < Len(acts)
  <2>1. i + 1 \in 1 .. Len(acts) /\ i < i + 1
    BY <1>2, <1>3
  <2>2. OperandEnd(i) = acts[i + 1].base /\ Waiting(i) = 0
    BY <1>2, <1>3 DEF OperandEnd, Waiting
  <2>3. acts[i].base <= acts[i + 1].base /\ acts[i + 1].base <= Len(data)
    BY <1>1, <2>1 DEF OperandsNest
  <2>4. acts[i + 1].base <= Act.base
    <3>1. CASE i + 1 = Len(acts)
      BY <1>2, <2>1, <3>1
    <3>2. CASE i + 1 < Len(acts)
      BY <1>1, <1>2, <2>1, <3>2 DEF OperandsNest
    <3> QED BY <1>2, <2>1, <3>1, <3>2
  <2> QED BY <1>2, <1>3, <2>1, <2>2, <2>3, <2>4
<1>4. CASE i = Len(acts)
  <2>1. OperandEnd(i) = Len(data)
    BY <1>2, <1>4 DEF OperandEnd
  <2>2. acts[i].base <= Len(data) /\ acts[i].base = Act.base
    BY <1>1, <1>2, <1>4 DEF OperandsNest
  <2>3. /\ Waiting(i) \in Nat /\ acts[i].base + Waiting(i) <= Len(data)
        /\ InBody => Waiting(i) = 0
    <3>1. CASE ip.fn = "script"
      BY <1>2, <2>2, <3>1 DEF Waiting
    <3>2. CASE ip.fn # "script"
      <4>1. Waiting(i) = ArgumentsLeft
        BY <1>4, <3>2 DEF Waiting
      <4>2. source[ip.fn].params \in Nat
        BY <1>1, <3>2, ActFacts, FunctionFacts
      <4>3. ArgumentsLeft \in Nat /\ (ip.left = 0 => ArgumentsLeft = 0)
        BY <1>2, <4>2 DEF ArgumentsLeft
      <4>4. ip.left > 0 => Own = ArgumentsLeft
        BY <1>1 DEF OperandsNest
      <4>5. Len(data) = Act.base + Own /\ Own \in Nat /\ Act.base \in Nat
        BY OwnOperands
      <4>6. Own >= ArgumentsLeft
        BY <1>2, <4>3, <4>4, <4>5
      <4> QED BY <1>2, <2>2, <4>1, <4>3, <4>5, <4>6 DEF InBody
    <3> QED BY <3>1, <3>2
  <2> QED BY <1>2, <1>4, <2>1, <2>2, <2>3
<1> QED BY <1>2, <1>3, <1>4

LEMMA AbsFacts ==
  ASSUME IInv
  PROVE  /\ Len(Activations) = Len(acts) /\ Len(acts) \in 1 .. Len(acts)
         /\ \A i \in 1 .. Len(acts) : Activations[i] = Abs(i)
         /\ \A i \in 1 .. Len(acts) : Operands(i) \in Seq(Value)
         /\ Stack!Running = Abs(Len(acts)) /\ Stack!Operands = Operands(Len(acts))
         /\ InBody => Operands(Len(acts)) = SubSeq(data, Act.base + 1, Len(data))
         /\ InBody => Len(Operands(Len(acts))) = Own
<1>1. Len(acts) \in Nat /\ Len(acts) \in 1 .. Len(acts)
  BY ActFacts DEF IInv
<1>2. Activations = [i \in 1 .. Len(acts) |-> Abs(i)]
  BY DEF Activations, Abs
<1>3. Len(Activations) = Len(acts)
  BY <1>1, <1>2
<1>4. \A i \in 1 .. Len(acts) : Activations[i] = Abs(i)
  BY <1>2
<1>5. data \in Seq(Value) /\ Act.base \in Nat /\ Len(data) \in Nat /\ Len(data) = Act.base + Own
  BY OwnOperands
<1>6. \A i \in 1 .. Len(acts) : Operands(i) \in Seq(Value)
  <2> TAKE i \in 1 .. Len(acts)
  <2>1. PICK a, b : a = acts[i].base + Waiting(i) /\ b = OperandEnd(i)
    OBVIOUS
  <2>2. a \in Nat /\ b \in Nat /\ a <= b /\ b <= Len(data)
    BY <2>1, OperandPlaces
  <2>3. Operands(i) = SubSeq(data, a + 1, b)
    BY <2>1 DEF Operands
  <2> QED BY <1>5, <2>2, <2>3, CutFacts
<1>7. Stack!Running = Abs(Len(acts)) /\ Stack!Operands = Operands(Len(acts))
  BY <1>1, <1>3, <1>4 DEF Stack!Running, Stack!Operands, Abs
<1>8. InBody => Operands(Len(acts)) = SubSeq(data, Act.base + 1, Len(data))
  <2>1. InBody => /\ Waiting(Len(acts)) = 0 /\ OperandEnd(Len(acts)) = Len(data)
                  /\ acts[Len(acts)].base = Act.base
    BY <1>1, OperandPlaces
  <2>2. Act.base + 0 + 1 = Act.base + 1
    BY <1>5
  <2> QED BY <2>1, <2>2 DEF Operands
<1>9. InBody => Len(Operands(Len(acts))) = Own
  <2>1. Own \in Nat
    BY OwnOperands
  <2>2. Act.base <= Len(data) /\ Len(data) - Act.base = Own
    BY <1>5, <2>1
  <2>3. Len(SubSeq(data, Act.base + 1, Len(data))) = Len(data) - Act.base
    BY <1>5, <2>2, CutFacts
  <2> QED BY <1>8, <2>2, <2>3
<1> QED BY <1>1, <1>3, <1>4, <1>6, <1>7, <1>8, <1>9

LEMMA InitRefines == Init => Stack!Init
<1> SUFFICES ASSUME Init PROVE Stack!Init
  OBVIOUS
<1>1. IInv /\ Len(acts) = 1 /\ acts[1] = [fn |-> "script", base |-> 0, assigned |-> {}]
      /\ data = <<>> /\ ip = [fn |-> "script", left |-> 0]
  BY InitIInv DEF Init
<1>2. Operands(1) = <<>>
  <2>1. Operands(1) = SubSeq(<<>>, 1, 0)
    BY <1>1 DEF Operands, OperandEnd, Waiting
  <2> QED BY <2>1, SubSeqEmpty
<1>3. Variables(1) = [s \in VarSlot |-> Unset]
  <2>1. \A s \in VarSlot : ~(s < 0)
    BY SlotBound DEF VarSlot
  <2> QED BY <1>1, <2>1 DEF Variables, Var, Waiting
<1>4. Activations = << Abs(1) >>
  <2>1. Activations = [i \in 1 .. 1 |-> Abs(i)]
    BY <1>1 DEF Activations, Abs
  <2> QED BY <2>1
<1>5. Abs(1) = [fn |-> "script", vars |-> [s \in Stack!Slot |-> Unset], operands |-> <<>>]
  <2>1. Stack!Slot = VarSlot
    BY DEF Stack!Slot, VarSlot
  <2>2. acts[1].fn = "script"
    BY <1>1
  <2> QED BY <1>2, <1>3, <2>1, <2>2 DEF Abs
<1> QED BY <1>4, <1>5 DEF Stack!Init, Stack!Global, Global, Init

\* A step in which only the running activation changes.
LEMMA RunningStep ==
  ASSUME IInv, IInv', NEW n, n = Len(acts), Len(acts') = n,
         \A i \in 1 .. n : acts'[i].fn = acts[i].fn /\ acts'[i].base = acts[i].base,
         \A i \in 1 .. n - 1 : Variables(i)' = Variables(i),
         \A k \in 1 .. Act.base : data'[k] = data[k],
         NEW a, a = [fn |-> acts[n].fn, vars |-> Variables(n)', operands |-> Operands(n)']
  PROVE  Stack!Become(a)
<1>1. n \in Nat /\ n \in 1 .. n
  BY ActFacts DEF IInv
<1>2. \A i \in 1 .. n - 1 : Operands(i)' = Operands(i)
  <2> TAKE i \in 1 .. n - 1
  <2>1. i \in 1 .. n /\ i < n /\ i + 1 \in 1 .. n
    BY <1>1
  <2>2. PICK b, e : b = acts[i].base /\ e = acts[i + 1].base
    OBVIOUS
  <2>3. /\ b \in Nat /\ e \in Nat /\ e <= Len(data) /\ e <= Act.base
        /\ Waiting(i) = 0 /\ OperandEnd(i) = e
    BY <2>1, <2>2, OperandPlaces
  <2>4. OperandEnd(i)' = e /\ Waiting(i)' = 0
    BY <2>1, <2>2 DEF OperandEnd, Waiting
  <2>5. b + 0 + 1 = b + 1
    BY <2>3
  <2>6. Operands(i) = SubSeq(data, b + 1, e) /\ Operands(i)' = SubSeq(data', b + 1, e)
    BY <2>1, <2>2, <2>3, <2>4, <2>5 DEF Operands
  <2>7. data \in Seq(Value) /\ data' \in Seq(Value) /\ Act.base \in Nat
    BY OwnOperands DEF IInv, TypeOK
  <2>8. e <= Len(data')
    <3>1. \A j \in 1 .. Len(acts') : acts'[j].base <= Len(data')
      BY DEF IInv, OperandsNest
    <3> QED BY <2>1, <2>2, <3>1
  <2>9. \A k \in 1 .. e : data[k] = data'[k]
    <3>1. \A k \in 1 .. e : k \in 1 .. Act.base
      BY <2>3, <2>7
    <3> QED BY <3>1
  <2> QED BY <2>3, <2>6, <2>7, <2>8, <2>9, SameCut
<1>3. Activations' = [i \in 1 .. n |->
         [fn |-> acts'[i].fn, vars |-> Variables(i)', operands |-> Operands(i)']]
  BY DEF Activations
<1>4. Activations = [i \in 1 .. n |->
         [fn |-> acts[i].fn, vars |-> Variables(i), operands |-> Operands(i)]]
  BY DEF Activations
<1>5. \A i \in 1 .. n : i # n => i \in 1 .. n - 1
  BY <1>1
<1>6. Activations' = [Activations EXCEPT ![n] = a]
  <2>1. \A i \in 1 .. n :
          [fn |-> acts'[i].fn, vars |-> Variables(i)', operands |-> Operands(i)']
            = IF i = n THEN a
              ELSE [fn |-> acts[i].fn, vars |-> Variables(i), operands |-> Operands(i)]
    <3> TAKE i \in 1 .. n
    <3>1. CASE i = n
      BY <3>1
    <3>2. CASE i # n
      <4>1. Variables(i)' = Variables(i) /\ Operands(i)' = Operands(i)
        BY <1>2, <1>5, <3>2
      <4> QED BY <3>2, <4>1
    <3> QED BY <3>1, <3>2
  <2> QED BY <1>3, <1>4, <2>1
<1>7. Len(Activations) = n
  BY AbsFacts
<1> QED BY <1>6, <1>7 DEF Stack!Become

\* An instruction on the operands of the running activation.
LEMMA OperandStep ==
  ASSUME IInv, IInv', InBody, Framed' = Framed,
         UNCHANGED <<ip, locals, frameVars, acts>>,
         Act.base <= Len(data'), \A k \in 1 .. Act.base : data'[k] = data[k]
  PROVE  Stack!Become([Stack!Running EXCEPT
           !.operands = SubSeq(data', Act.base + 1, Len(data'))])
<1> PICK n : n = Len(acts)
  OBVIOUS
<1>1. /\ n \in 1 .. n /\ n \in Nat /\ Act = acts[n]
      /\ \A i \in 1 .. n : acts[i].base \in Nat
  BY ActFacts DEF IInv
<1>2. \A i \in 1 .. n : Waiting(i) = 0 /\ Waiting(i)' = 0
  <2>1. \A i \in 1 .. n : Waiting(i) = 0
    <3>1. \A i \in 1 .. n : i < n \/ i = n
      BY <1>1
    <3> QED BY <3>1, OperandPlaces
  <2>2. \A i \in 1 .. n : Waiting(i)' = Waiting(i)
    BY DEF Waiting, ArgumentsLeft
  <2> QED BY <2>1, <2>2
<1>3. \A i \in 1 .. n : Variables(i)' = Variables(i)
  <2> TAKE i \in 1 .. n
  <2>1. FrameBase(i)' = FrameBase(i)
    BY DEF FrameBase, FrameNo, frameVars
  <2>2. \A s \in VarSlot : ~(s < 0)
    BY SlotBound DEF VarSlot
  <2>3. \A s \in VarSlot : Var(i, s)' = Var(i, s)
    BY <1>2, <2>1, <2>2 DEF Var
  <2> QED BY <2>3 DEF Variables
<1>4. Operands(n)' = SubSeq(data', Act.base + 1, Len(data'))
  <2>1. Act.base + 0 + 1 = Act.base + 1
    BY <1>1
  <2>2. Operands(n)' = SubSeq(data', acts'[n].base + Waiting(n)' + 1, OperandEnd(n)')
    BY DEF Operands
  <2>3. Waiting(n)' = 0
    BY <1>1, <1>2
  <2>4. acts'[n].base = Act.base
    BY <1>1 DEF Act
  <2>5. OperandEnd(n)' = Len(data')
    BY <1>1 DEF OperandEnd
  <2>6. PICK b, w, e : b = acts'[n].base /\ w = Waiting(n)' /\ e = OperandEnd(n)'
    OBVIOUS
  <2>7. w = 0 /\ b = Act.base /\ e = Len(data')
    BY <2>3, <2>4, <2>5, <2>6
  <2>8. b + w + 1 = Act.base + 1
    BY <2>1, <2>7
  <2> QED BY <2>2, <2>6, <2>7, <2>8
<1>5. PICK a : a = [fn |-> acts[n].fn, vars |-> Variables(n)', operands |-> Operands(n)']
  OBVIOUS
<1>6. Stack!Become(a)
  <2>1. \A i \in 1 .. n - 1 : Variables(i)' = Variables(i)
    <3>1. \A i \in 1 .. n - 1 : i \in 1 .. n
      BY <1>1
    <3> QED BY <1>3, <3>1
  <2> QED BY <1>5, <2>1, RunningStep
<1>7. a = [Stack!Running EXCEPT !.operands = SubSeq(data', Act.base + 1, Len(data'))]
  <2>1. Stack!Running = [fn |-> acts[n].fn, vars |-> Variables(n), operands |-> Operands(n)]
    BY AbsFacts DEF Abs
  <2>2. Variables(n)' = Variables(n)
    BY <1>1, <1>3
  <2>4. a = [fn |-> acts[n].fn, vars |-> Variables(n),
             operands |-> SubSeq(data', Act.base + 1, Len(data'))]
    BY <1>4, <1>5, <2>2
  <2>5. PICK f, v, o, p : /\ f = acts[n].fn /\ v = Variables(n) /\ o = Operands(n)
                          /\ p = SubSeq(data', Act.base + 1, Len(data'))
    OBVIOUS
  <2>6. a = [fn |-> f, vars |-> v, operands |-> p]
    BY <2>4, <2>5
  <2>7. Stack!Running = [fn |-> f, vars |-> v, operands |-> o]
    BY <2>1, <2>5
  <2>8. [Stack!Running EXCEPT !.operands = p] = [fn |-> f, vars |-> v, operands |-> p]
    BY <2>7
  <2> QED BY <2>5, <2>6, <2>8
<1> QED BY <1>6, <1>7

\* A push, a pop and a swap of operands are what they are in the promise.
LEMMA PushStep ==
  ASSUME IInv, IInv', InBody, Framed' = Framed,
         UNCHANGED <<ip, locals, frameVars, acts>>,
         NEW v \in Value, data' = Append(data, v)
  PROVE  Stack!Push(v)
<1> PICK b, q : b = Act.base /\ q = Append(data, v)
  OBVIOUS
<1>1. data \in Seq(Value) /\ b \in Nat /\ b <= Len(data) /\ Len(data) \in Nat
  BY OwnOperands
<1>2. /\ Len(q) = Len(data) + 1 /\ \A k \in 1 .. Len(data) : q[k] = data[k]
  BY <1>1, AppendProperties
<1>3. b <= Len(q) /\ \A k \in 1 .. b : q[k] = data[k]
  BY <1>1, <1>2
<1>4. Stack!Become([Stack!Running EXCEPT !.operands = SubSeq(q, b + 1, Len(q))])
  BY <1>3, OperandStep
<1>5. SubSeq(q, b + 1, Len(q)) = Append(SubSeq(data, b + 1, Len(data)), v)
  BY <1>1, CutPush
<1>6. Stack!Running.operands = SubSeq(data, b + 1, Len(data))
  <2>1. Stack!Running.operands = Operands(Len(acts))
    BY AbsFacts DEF Abs
  <2>2. Operands(Len(acts)) = SubSeq(data, Act.base + 1, Len(data))
    BY AbsFacts
  <2> QED BY <2>1, <2>2
<1> QED BY <1>4, <1>5, <1>6 DEF Stack!Push

LEMMA PopStep ==
  ASSUME IInv, IInv', InBody, Framed' = Framed, Own >= 1,
         UNCHANGED <<ip, locals, frameVars, acts>>, data' = Front(data)
  PROVE  /\ Stack!Operands # <<>> /\ Last(Stack!Operands) = Last(data)
         /\ Stack!Become([Stack!Running EXCEPT !.operands = Front(Stack!Operands)])
         /\ Stack!Operands = Stack!Running.operands
<1> PICK b, q : b = Act.base /\ q = Front(data)
  OBVIOUS
<1>1. data \in Seq(Value) /\ b \in Nat /\ b < Len(data) /\ Len(data) \in Nat
  <2>1. data \in Seq(Value) /\ b \in Nat /\ Len(data) = b + Own /\ Own \in Nat
    BY OwnOperands
  <2> QED BY <2>1
<1>2. Len(q) = Len(data) - 1 /\ \A k \in 1 .. Len(data) - 1 : q[k] = data[k]
  BY OwnOperands
<1>3. b <= Len(q) /\ \A k \in 1 .. b : q[k] = data[k]
  BY <1>1, <1>2
<1>4. Stack!Become([Stack!Running EXCEPT !.operands = SubSeq(q, b + 1, Len(q))])
  BY <1>3, OperandStep
<1>5. /\ SubSeq(q, b + 1, Len(q)) = Front(SubSeq(data, b + 1, Len(data)))
      /\ Last(SubSeq(data, b + 1, Len(data))) = Last(data)
      /\ SubSeq(data, b + 1, Len(data)) # <<>>
  BY <1>1, CutPop
<1>6. /\ Stack!Operands = SubSeq(data, b + 1, Len(data))
      /\ Stack!Operands = Stack!Running.operands
  BY AbsFacts DEF Abs
<1> QED BY <1>4, <1>5, <1>6

LEMMA ComputeRefines ==
  ASSUME IInv, CountedSlots, Literal \/ Dup_1 \/ Drop_1 \/ Swap_1
  PROVE  Stack!Literal \/ Stack!Dup \/ Stack!Drop \/ Stack!Swap
<1>1. IInv' /\ Framed' = Framed
  BY StacksIInv
<1>2. /\ InBody /\ UNCHANGED <<ip, locals, frameVars, acts>>
      /\ UNCHANGED <<globals, alive>>
  BY DEF Literal, Dup_1, Drop_1, Swap_1, Operate, globalVars
<1>3. Stack!Operands = Stack!Running.operands /\ Len(Stack!Operands) = Own
  BY <1>2, AbsFacts DEF Abs
<1>4. CASE Literal
  <2>1. data' = Append(data, Nil) /\ Nil \in Value
    BY <1>4 DEF Literal, Operate, Value
  <2>2. Stack!Push(Nil)
    BY <1>1, <1>2, <2>1, PushStep
  <2> QED BY <1>2, <1>3, <2>2 DEF Stack!Literal, Stack!Compute, Stack!Push
<1>5. Own >= 1 => Stack!Operands # <<>> /\ Last(Stack!Operands) = Last(data)
  <2> SUFFICES ASSUME Own >= 1
               PROVE Stack!Operands # <<>> /\ Last(Stack!Operands) = Last(data)
    OBVIOUS
  <2>1. data \in Seq(Value) /\ Act.base \in Nat /\ Len(data) = Act.base + Own /\ Own \in Nat
    BY OwnOperands
  <2>2. Act.base < Len(data)
    BY <2>1
  <2>3. Stack!Operands = SubSeq(data, Act.base + 1, Len(data))
    BY <1>2, AbsFacts
  <2> QED BY <2>1, <2>2, <2>3, CutPop
<1>6. CASE Dup_1
  <2>1. data' = Append(data, Last(data)) /\ Last(data) \in Value /\ Own >= 1
    BY <1>6, OwnOperands DEF Dup_1, Operate
  <2>2. Stack!Push(Last(data))
    BY <1>1, <1>2, <2>1, PushStep
  <2> QED BY <1>2, <1>3, <1>5, <2>1, <2>2 DEF Stack!Dup, Stack!Compute, Stack!Push, Stack!Last, Last
<1>7. CASE Drop_1
  <2>1. data' = Front(data) /\ Own >= 1
    BY <1>7 DEF Drop_1, Operate
  <2>2. /\ Stack!Operands # <<>>
        /\ Stack!Become([Stack!Running EXCEPT !.operands = Front(Stack!Operands)])
    BY <1>1, <1>2, <2>1, PopStep
  <2>3. Stack!Compute(Front(Stack!Operands))
    BY <1>2, <2>2 DEF Stack!Compute
  <2> QED BY <2>2, <2>3 DEF Stack!Drop, Stack!Front, Front
<1>8. CASE Swap_1
  <2> PICK b, n : b = Act.base /\ n = Len(data)
    OBVIOUS
  <2>1. data' = Swapped(data) /\ Own >= 2
    BY <1>8 DEF Swap_1, Operate, Swapped
  <2>2. data \in Seq(Value) /\ b \in Nat /\ n = b + Own /\ Own \in Nat /\ n \in Nat
    BY OwnOperands
  <2>3. b + 2 <= n /\ b <= n
    BY <2>1, <2>2
  <2>4. /\ Len(data') = n /\ \A i \in 1 .. b : data'[i] = data[i]
        /\ SubSeq(data', b + 1, n) = Swapped(SubSeq(data, b + 1, n))
    <3>1. n = Len(data) /\ data \in Seq(Value) /\ b \in Nat /\ b + 2 <= n
      BY <2>2, <2>3
    <3>2. /\ Len(Swapped(data)) = n
          /\ \A i \in 1 .. b : Swapped(data)[i] = data[i]
          /\ SubSeq(Swapped(data), b + 1, n) = Swapped(SubSeq(data, b + 1, n))
      BY <3>1, CutSwap
    <3> QED BY <2>1, <3>2
  <2>5. Stack!Become([Stack!Running EXCEPT !.operands = SubSeq(data', b + 1, n)])
    BY <1>1, <1>2, <2>3, <2>4, OperandStep
  <2>6. Stack!Operands = SubSeq(data, b + 1, n)
    BY <1>2, AbsFacts
  <2>7. Stack!Become([Stack!Running EXCEPT !.operands = Swapped(Stack!Operands)])
    BY <2>4, <2>5, <2>6
  <2>8. Stack!Compute(Swapped(Stack!Operands))
    BY <1>2, <2>7 DEF Stack!Compute
  <2> QED BY <1>3, <2>1, <2>8 DEF Stack!Swap, Swapped
<1> QED BY <1>4, <1>6, <1>7, <1>8

LEMMA LoadRefines ==
  ASSUME IInv, CountedSlots,
         (\E s \in VarSlot : Load_Local(s)) \/ (\E g \in Global : Load_Global(g))
  PROVE  \/ \E s \in Stack!Slot : Stack!LoadLocal(s)
         \/ \E g \in Stack!Global : Stack!LoadGlobal(g)
<1>1. IInv' /\ Framed' = Framed
  BY LoadsIInv
<1>2. /\ InBody /\ UNCHANGED <<ip, locals, frameVars, acts>>
      /\ UNCHANGED <<globals, alive>>
  BY DEF Load_Local, Load_Global, Operate, globalVars
<1>3. ASSUME NEW s \in VarSlot, Load_Local(s)
      PROVE  s \in Stack!Slot /\ Stack!LoadLocal(s)
  <2> PICK n : n = Len(acts)
    OBVIOUS
  <2>1. n \in 1 .. n /\ Act = acts[n] /\ s \in acts[n].assigned
    BY <1>3, ActFacts DEF IInv, Load_Local
  <2>2. Waiting(n) = 0 /\ ~(s < 0)
    BY <1>2, <2>1, OperandPlaces, SlotBound DEF VarSlot
  <2>3. Var(n, s) = locals[fast_locals + s]
    BY <2>1, <2>2, RunningBase DEF Var
  <2>4. locals[fast_locals + s] \in Value
    <3>1. n \in Framed /\ s \in SlotsOf(acts[n].fn)
      BY <2>1, AssignedFramed
    <3>2. fast_locals + s \in Slot
      BY <3>1, VariablesInFrames, RunningBase
    <3> QED BY <3>2 DEF IInv, TypeOK
  <2>5. Stack!Running.vars[s] = locals[fast_locals + s]
    BY <2>3, AbsFacts DEF Abs, Variables
  <2>6. Stack!Push(locals[fast_locals + s])
    BY <1>1, <1>2, <1>3, <2>4, PushStep DEF Load_Local, Operate
  <2>7. locals[fast_locals + s] # Unset
    BY <2>4, VMAssumption DEF Value
  <2>8. s \in Stack!Slot
    BY DEF Stack!Slot, VarSlot
  <2> QED BY <1>2, <2>5, <2>6, <2>7, <2>8 DEF Stack!LoadLocal
<1>4. ASSUME NEW g \in Global, Load_Global(g)
      PROVE  g \in Stack!Global /\ Stack!LoadGlobal(g)
  <2>1. globals[g] \in Value
    BY DEF IInv, TypeOK
  <2>2. Stack!Push(globals[g])
    BY <1>1, <1>2, <1>4, <2>1, PushStep DEF Load_Global, Operate
  <2> QED BY <1>2, <2>2 DEF Stack!LoadGlobal, Stack!Global, Global
<1> QED BY <1>3, <1>4

LEMMA StoreGlobalRefines ==
  ASSUME IInv, NEW g \in Global, Store_Global(g)
  PROVE  g \in Stack!Global /\ Stack!StoreGlobal(g)
<1>1. IInv' /\ Framed' = Framed
  BY StoreGlobalIInv
<1>2. /\ InBody /\ UNCHANGED <<ip, locals, frameVars, acts>> /\ Own >= 1
      /\ data' = Front(data) /\ alive' = alive
      /\ globals' = [globals EXCEPT ![g] = Last(data)]
  BY DEF Store_Global
<1>3. /\ Stack!Operands # <<>> /\ Last(Stack!Operands) = Last(data)
      /\ Stack!Become([Stack!Running EXCEPT !.operands = Front(Stack!Operands)])
      /\ Stack!Operands = Stack!Running.operands
  BY <1>1, <1>2, PopStep
<1>4. g \in Stack!Global
  BY DEF Stack!Global, Global
<1>5. Stack!Become([Stack!Running EXCEPT !.operands = Front(@)])
  BY <1>3
<1> QED BY <1>2, <1>3, <1>4, <1>5 DEF Stack!StoreGlobal, Stack!Front, Front, Stack!Last, Last

-----------------------------------------------------------------------------
(***************************************************************************)
(* Stores.                                                                 *)
(***************************************************************************)
LEMMA RunningFramed ==
  ASSUME IInv, CountedSlots, ip.fn # "script", NEW s \in SlotsOf(ip.fn),
         ip.left <= source[ip.fn].params
  PROVE  Len(acts) \in Framed
<1>1. /\ ip.fn \in Fn /\ ip.left \in Nat /\ Len(acts) \in 1 .. Len(acts)
      /\ acts[Len(acts)].fn = ip.fn
  BY ActFacts DEF IInv, CallsAgree
<1>2. /\ source[ip.fn].params \in Nat /\ source[ip.fn].decls \in Nat
      /\ source[ip.fn].literals = 0 /\ LocalsToAllocate(ip.fn) \in Nat
      /\ source[ip.fn].decls <= LocalsToAllocate(ip.fn)
  BY <1>1, FunctionFacts DEF CountedSlots
<1>3. LocalsToAllocate(ip.fn) > 0
  <2>1. source[ip.fn].decls > 0
    BY <1>2 DEF SlotsOf
  <2> QED BY <1>2, <2>1
<1>4. Leaves(ip.fn)
  BY <1>3 DEF Leaves
<1>5. Prologue(ip.fn) = source[ip.fn].params + 1
  BY <1>1, <1>4, FunctionFacts
<1>6. ip.left < Prologue(ip.fn)
  BY <1>1, <1>2, <1>5
<1> QED BY <1>1, <1>4, <1>6 DEF Framed

\* What a store does to the variables: no activation but the running one sees it.
LEMMA StoredVariables ==
  ASSUME IInv, CountedSlots, ip.fn # "script", NEW s \in SlotsOf(ip.fn),
         ip.left <= source[ip.fn].params, StoreTop(s), Framed' = Framed,
         NEW n, n = Len(acts)
  PROVE  /\ s \in VarSlot /\ n \in 1 .. n /\ n \in Nat
         /\ Len(acts') = n
         /\ \A i \in 1 .. n : acts'[i].fn = acts[i].fn /\ acts'[i].base = acts[i].base
         /\ \A i \in 1 .. n - 1 : Variables(i)' = Variables(i)
         /\ \A t \in VarSlot :
              IF t = s THEN t \in acts'[n].assigned /\ locals'[FrameBase(n)' + t] = Last(data)
              ELSE /\ t \in acts'[n].assigned <=> t \in acts[n].assigned
                   /\ locals'[FrameBase(n)' + t] = locals[FrameBase(n) + t]
<1>1. s \in VarSlot /\ fast_locals + s \in Slot /\ s \in Nat /\ fast_locals \in Nat
  BY VariableInArray
<1>2. /\ n \in 1 .. n /\ n \in Nat /\ acts[n].fn = ip.fn /\ Len(acts') = n
      /\ \A i \in 1 .. n :
            /\ acts'[i].fn = acts[i].fn /\ acts'[i].base = acts[i].base
            /\ acts'[i].assigned = IF i = n THEN acts[i].assigned \cup {s}
                                   ELSE acts[i].assigned
  <2>1. n \in 1 .. n /\ n \in Nat /\ acts[n].fn = ip.fn
    BY ActFacts DEF IInv, CallsAgree
  <2>2. acts' = [acts EXCEPT ![Len(acts)].assigned = @ \cup {s}]
    BY DEF StoreTop
  <2>3. /\ Len(acts') = Len(acts)
        /\ \A i \in 1 .. Len(acts) :
             /\ acts'[i].fn = acts[i].fn /\ acts'[i].base = acts[i].base
             /\ acts'[i].assigned = IF i = Len(acts) THEN acts[i].assigned \cup {s}
                                    ELSE acts[i].assigned
    BY <1>1, <2>2, StoredActs
  <2> QED BY <2>1, <2>3
<1>3. n \in Framed
  BY RunningFramed
<1>4. locals' = [locals EXCEPT ![fast_locals + s] = Last(data)] /\ locals \in [Slot -> Value]
  BY DEF StoreTop, IInv, TypeOK
<1>5. \A i : FrameBase(i)' = FrameBase(i)
  BY DEF FrameBase, FrameNo, frameVars, StoreTop
<1>6. FrameBase(n) = fast_locals
  BY RunningBase
<1>7. \A k : k # fast_locals + s => locals'[k] = locals[k]
  BY <1>4
<1>8. \A i \in 1 .. n - 1 : Variables(i)' = Variables(i)
  <2> TAKE i \in 1 .. n - 1
  <2>1. i \in 1 .. n /\ i # n /\ i < n
    BY <1>2
  <2>2. Waiting(i) = 0 /\ Waiting(i)' = 0
    BY <1>2, <2>1 DEF Waiting
  <2>3. ASSUME NEW t \in VarSlot PROVE Var(i, t)' = Var(i, t)
    <3>1. ~(t < 0)
      BY SlotBound DEF VarSlot
    <3>2. t \in acts'[i].assigned <=> t \in acts[i].assigned
      BY <1>2, <2>1
    <3>3. CASE t \in acts[i].assigned
      <4>1. i \in Framed /\ t \in SlotsOf(acts[i].fn)
        BY <2>1, <3>3, AssignedFramed
      <4>2. FrameBase(i) + t # FrameBase(n) + s
        BY <1>2, <1>3, <2>1, <4>1, VariablesDistinct
      <4>3. locals'[FrameBase(i)' + t] = locals[FrameBase(i) + t]
        BY <1>5, <1>6, <1>7, <4>2
      <4> QED BY <2>2, <3>1, <3>2, <4>3 DEF Var
    <3>4. CASE t \notin acts[i].assigned
      BY <2>2, <3>1, <3>2, <3>4 DEF Var
    <3> QED BY <3>3, <3>4
  <2> QED BY <2>3 DEF Variables
<1>9. ASSUME NEW t \in VarSlot
      PROVE  IF t = s THEN t \in acts'[n].assigned /\ locals'[FrameBase(n)' + t] = Last(data)
             ELSE /\ t \in acts'[n].assigned <=> t \in acts[n].assigned
                  /\ locals'[FrameBase(n)' + t] = locals[FrameBase(n) + t]
  <2>1. CASE t = s
    BY <1>1, <1>2, <1>4, <1>5, <1>6, <2>1
  <2>2. CASE t # s
    <3>1. t \in Nat
      BY SlotBound DEF VarSlot
    <3>2. fast_locals + t # fast_locals + s
      BY <1>1, <2>2, <3>1
    <3> QED BY <1>2, <1>5, <1>6, <1>7, <2>2, <3>2
  <2> QED BY <2>1, <2>2
<1> QED BY <1>1, <1>2, <1>8, <1>9

LEMMA StoreLocalRefines ==
  ASSUME IInv, CountedSlots, NEW s \in VarSlot, Store_Local(s)
  PROVE  s \in Stack!Slot /\ Stack!StoreLocal(s)
<1> PICK n : n = Len(acts)
  OBVIOUS
<1>1. IInv' /\ Framed' = Framed
  BY StoresIInv
<1>2. /\ InBody /\ ip.left = 0 /\ Own >= 1 /\ ip.fn # "script" /\ s \in SlotsOf(ip.fn)
      /\ StoreTop(s) /\ ip' = ip /\ data' = Front(data) /\ UNCHANGED <<globals, alive>>
  BY DEF Store_Local, StoreTop, InBody, globalVars
<1>3. 0 <= source[ip.fn].params
  BY <1>2, ActFacts, FunctionFacts DEF IInv
<1>4. /\ n \in 1 .. n /\ n \in Nat /\ Len(acts') = n
      /\ \A i \in 1 .. n : acts'[i].fn = acts[i].fn /\ acts'[i].base = acts[i].base
      /\ \A i \in 1 .. n - 1 : Variables(i)' = Variables(i)
      /\ \A t \in VarSlot :
              IF t = s THEN t \in acts'[n].assigned /\ locals'[FrameBase(n)' + t] = Last(data)
              ELSE /\ t \in acts'[n].assigned <=> t \in acts[n].assigned
                   /\ locals'[FrameBase(n)' + t] = locals[FrameBase(n) + t]
  BY <1>1, <1>2, <1>3, StoredVariables
<1>5. Waiting(n) = 0 /\ Waiting(n)' = 0
  <2>1. Waiting(n) = 0
    BY <1>2, <1>4, OperandPlaces
  <2>2. Waiting(n)' = Waiting(n)
    BY <1>2, <1>4 DEF Waiting, ArgumentsLeft
  <2> QED BY <2>1, <2>2
<1>6. Variables(n)' = [Variables(n) EXCEPT ![s] = Last(data)]
  <2>1. \A t \in VarSlot : Var(n, t)' = IF t = s THEN Last(data) ELSE Var(n, t)
    <3> TAKE t \in VarSlot
    <3>1. ~(t < 0)
      BY SlotBound DEF VarSlot
    <3> QED BY <1>4, <1>5, <3>1 DEF Var
  <2> QED BY <2>1 DEF Variables
<1>7. PICK b : b = Act.base
  OBVIOUS
<1>8. /\ data \in Seq(Value) /\ b \in Nat /\ b < Len(data) /\ Len(data) \in Nat
      /\ Len(Front(data)) = Len(data) - 1
      /\ \A k \in 1 .. Len(data) - 1 : Front(data)[k] = data[k]
      /\ acts[n].base = b
  <2>1. data \in Seq(Value) /\ b \in Nat /\ Len(data) = b + Own /\ Own \in Nat
    BY <1>7, OwnOperands
  <2>2. b < Len(data) /\ Len(data) \in Nat
    BY <1>2, <2>1
  <2> QED BY <1>2, <1>7, <2>1, <2>2, OwnOperands DEF Act
<1>9. Operands(n)' = Front(Operands(n)) /\ Last(Operands(n)) = Last(data) /\ Operands(n) # <<>>
  <2>1. Operands(n) = SubSeq(data, b + 1, Len(data))
    BY <1>2, <1>7, AbsFacts
  <2>2. b + 0 + 1 = b + 1
    BY <1>8
  <2>3. Operands(n)' = SubSeq(Front(data), b + 1, Len(Front(data)))
    BY SMTT(30), <1>2, <1>4, <1>5, <1>8, <2>2 DEF Operands, OperandEnd
  <2> QED BY <1>8, <2>1, <2>3, CutPop
<1>10. \A k \in 1 .. Act.base : data'[k] = data[k]
  BY <1>2, <1>7, <1>8
<1>11. PICK f, v, w, o, p : /\ f = acts[n].fn /\ v = Variables(n) /\ o = Operands(n)
                            /\ w = Variables(n)' /\ p = Operands(n)'
  OBVIOUS
<1>12. Stack!Become([fn |-> f, vars |-> w, operands |-> p])
  BY <1>1, <1>4, <1>10, <1>11, RunningStep
<1>13. Stack!Running = [fn |-> f, vars |-> v, operands |-> o] /\ Stack!Operands = o
  BY <1>11, AbsFacts DEF Abs
<1>14. w = [v EXCEPT ![s] = Last(o)] /\ p = Front(o) /\ o # <<>>
  BY <1>6, <1>9, <1>11
<1>15. [Stack!Running EXCEPT !.operands = p, !.vars[s] = Last(o)]
         = [fn |-> f, vars |-> w, operands |-> p]
  <2>1. PICK r, x : r = Stack!Running /\ x = Last(o)
    OBVIOUS
  <2>2. /\ r = [fn |-> f, vars |-> v, operands |-> o] /\ r.fn = f /\ r.vars = v /\ r.operands = o
    BY <1>13, <2>1
  <2>3. PICK q : q = [r EXCEPT !.operands = p]
    OBVIOUS
  <2>4. q = [fn |-> f, vars |-> v, operands |-> p]
    BY <2>2, <2>3
  <2>5. PICK t : t = [q EXCEPT !.vars[s] = x]
    OBVIOUS
  <2>6. t = [fn |-> f, vars |-> [v EXCEPT ![s] = x], operands |-> p]
    BY <2>4, <2>5
  <2>7. t = [r EXCEPT !.operands = p, !.vars[s] = x]
    BY <2>3, <2>5
  <2> QED BY <1>14, <2>1, <2>6, <2>7
<1>16. Stack!Become([Stack!Running EXCEPT
          !.operands = Front(@), !.vars[s] = Last(Stack!Operands)])
  <2>1. Stack!Running.operands = o
    BY <1>13
  <2> QED BY <1>12, <1>13, <1>14, <1>15, <2>1
<1>17. s \in Stack!Slot
  BY DEF Stack!Slot, VarSlot
<1> QED
  BY <1>2, <1>13, <1>14, <1>16, <1>17 DEF Stack!StoreLocal, Stack!Front, Front, Stack!Last, Last

\* The prologue moves an argument from the stack to its variable: nothing that
\* the promise speaks of.
LEMMA StoreArgumentStutters ==
  ASSUME IInv, CountedSlots, StoreArgument
  PROVE  UNCHANGED Stack!vars
<1> PICK n, l, b, p : n = Len(acts) /\ l = ip.left /\ b = Act.base /\ p = source[ip.fn].params
  OBVIOUS
<1>1. IInv' /\ Framed' = Framed
  BY StoresIInv
<1>2. /\ ip.fn # "script" /\ ip.fn \in Fn /\ l \in 1 .. p /\ StoreTop(l - 1)
      /\ ip' = [ip EXCEPT !.left = @ - 1] /\ data' = Front(data) /\ UNCHANGED <<globals, alive>>
  BY ActFacts DEF StoreArgument, StoreTop, globalVars, IInv
<1>3. /\ p \in Nat /\ l \in Nat /\ l >= 1 /\ l <= p /\ l - 1 \in SlotsOf(ip.fn)
  <2>1. /\ p \in Nat /\ source[ip.fn].decls \in Nat /\ p <= source[ip.fn].decls
        /\ source[ip.fn].literals \in Nat
    BY <1>2, FunctionFacts
  <2>2. l \in Nat /\ l >= 1 /\ l <= p
    BY <1>2, <2>1
  <2>3. l - 1 \in 0 .. (source[ip.fn].decls + source[ip.fn].literals - 1)
    <3>1. PICK d, e : d = source[ip.fn].decls /\ e = source[ip.fn].literals
      OBVIOUS
    <3>2. d \in Nat /\ e \in Nat /\ p <= d
      BY <2>1, <3>1
    <3>3. PICK low, high : low = l - 1 /\ high = d + e - 1
      OBVIOUS
    <3>4. low \in Int /\ high \in Int /\ 0 <= low /\ low <= high
      BY <2>1, <2>2, <3>2, <3>3
    <3>5. low \in 0 .. high
      BY <3>4
    <3> QED BY <3>1, <3>3, <3>5
  <2> QED BY <2>1, <2>2, <2>3 DEF SlotsOf
<1>4. ip'.fn = ip.fn /\ ip'.left = l - 1
  BY <1>2 DEF IInv, TypeOK
<1>5. /\ n \in 1 .. n /\ n \in Nat /\ Len(acts') = n
      /\ \A i \in 1 .. n : acts'[i].fn = acts[i].fn /\ acts'[i].base = acts[i].base
      /\ \A i \in 1 .. n - 1 : Variables(i)' = Variables(i)
      /\ \A t \in VarSlot :
              IF t = l - 1 THEN t \in acts'[n].assigned /\ locals'[FrameBase(n)' + t] = Last(data)
              ELSE /\ t \in acts'[n].assigned <=> t \in acts[n].assigned
                   /\ locals'[FrameBase(n)' + t] = locals[FrameBase(n) + t]
  BY <1>1, <1>2, <1>3, StoredVariables
<1>6. Waiting(n) = l /\ Waiting(n)' = l - 1
  <2>1. l - 1 <= p
    BY <1>3
  <2> QED BY <1>2, <1>3, <1>4, <1>5, <2>1 DEF Waiting, ArgumentsLeft
<1>7. /\ data \in Seq(Value) /\ Len(data) = b + l /\ b \in Nat /\ acts[n].base = b
      /\ Last(data) = data[b + l]
      /\ Len(data') = b + l - 1 /\ \A k \in 1 .. b + l - 1 : data'[k] = data[k]
  <2>1. Own = l
    BY <1>3 DEF IInv, OperandsNest, ArgumentsLeft
  <2> QED BY SMTT(30), <1>2, <1>3, <2>1, OwnOperands DEF Act
<1>8. Operands(n) = <<>> /\ Operands(n)' = <<>>
  <2>1. Operands(n) = SubSeq(data, b + l + 1, b + l)
    BY <1>6, <1>7 DEF Operands, OperandEnd
  <2>2. Operands(n)' = SubSeq(data', b + (l - 1) + 1, b + l - 1)
    BY <1>5, <1>6, <1>7 DEF Operands, OperandEnd
  <2>3. /\ b + l + 1 \in Int /\ b + l \in Int /\ b + l < b + l + 1
        /\ b + (l - 1) + 1 \in Int /\ b + l - 1 \in Int /\ b + l - 1 < b + (l - 1) + 1
    BY <1>3, <1>7
  <2> QED BY <2>1, <2>2, <2>3, SubSeqEmpty
<1>9. ASSUME NEW t \in VarSlot PROVE Var(n, t)' = Var(n, t)
  <2>0. t \in Nat
    BY SlotBound DEF VarSlot
  <2>1. CASE t < l - 1
    <3>1. b + t + 1 \in 1 .. b + l - 1 /\ t < l
      BY SMTT(30), <1>3, <1>7, <2>0, <2>1
    <3> QED BY <1>5, <1>6, <1>7, <2>1, <3>1 DEF Var
  <2>2. CASE t = l - 1
    <3>1. b + t + 1 = b + l /\ t < l /\ ~(t < l - 1)
      BY <1>3, <1>7, <2>0, <2>2
    <3> QED BY <1>5, <1>6, <1>7, <2>2, <3>1 DEF Var
  <2>3. CASE t > l - 1
    <3>1. ~(t < l - 1) /\ ~(t < l) /\ t # l - 1
      BY <1>3, <2>0, <2>3
    <3> QED BY <1>5, <1>6, <3>1 DEF Var
  <2> QED BY <1>3, <2>0, <2>1, <2>2, <2>3
<1>10. Variables(n)' = Variables(n)
  BY <1>9 DEF Variables
<1>11. \A k \in 1 .. Act.base : data'[k] = data[k]
  <2>1. \A k \in 1 .. b : k \in 1 .. b + l - 1
    BY <1>3, <1>7
  <2> QED BY <1>7, <2>1
<1>12. Stack!Become([fn |-> acts[n].fn, vars |-> Variables(n), operands |-> Operands(n)])
  <2>1. PICK a : a = [fn |-> acts[n].fn, vars |-> Variables(n)', operands |-> Operands(n)']
    OBVIOUS
  <2>2. Stack!Become(a)
    BY <1>1, <1>5, <1>11, <2>1, RunningStep
  <2> QED BY <1>8, <1>10, <2>1, <2>2
<1>13. Activations' = Activations
  <2>1. Activations' = [Activations EXCEPT ![n] = Abs(n)]
    BY <1>12, AbsFacts DEF Stack!Become, Abs
  <2>2. Activations[n] = Abs(n)
    BY <1>5, AbsFacts
  <2>3. Activations = [i \in 1 .. n |-> Abs(i)]
    BY DEF Activations, Abs
  <2> QED BY <2>1, <2>2, <2>3
<1> QED BY <1>2, <1>13 DEF Stack!vars

-----------------------------------------------------------------------------
(***************************************************************************)
(* Frames, calls and returns.                                              *)
(***************************************************************************)
\* Variables that no step of a frame touches.
LEMMA SameVariables ==
  ASSUME IInv, CountedSlots, NEW i \in 1 .. Len(acts),
         acts'[i].assigned = acts[i].assigned, locals' = locals,
         Waiting(i) = 0, Waiting(i)' = 0,
         i \in Framed => FrameBase(i)' = FrameBase(i)
  PROVE  Variables(i)' = Variables(i)
<1>1. ASSUME NEW s \in VarSlot PROVE Var(i, s)' = Var(i, s)
  <2>1. ~(s < 0)
    BY SlotBound DEF VarSlot
  <2>2. CASE s \in acts[i].assigned
    <3>1. FrameBase(i)' = FrameBase(i)
      BY <2>2, AssignedFramed
    <3> QED BY <2>1, <2>2, <3>1 DEF Var
  <2>3. CASE s \notin acts[i].assigned
    BY <2>1, <2>3 DEF Var
  <2> QED BY <2>2, <2>3
<1> QED BY <1>1 DEF Variables

\* A frame that is there but has nothing assigned in it changes nothing.
LEMMA AllocStutters ==
  ASSUME IInv, CountedSlots, Alloc_Locals
  PROVE  UNCHANGED Stack!vars
<1> PICK n, p : n = Len(acts) /\ p = source[ip.fn].params
  OBVIOUS
<1>1. /\ Leaves(ip.fn) /\ ip.left = Prologue(ip.fn) /\ ip' = [ip EXCEPT !.left = @ - 1]
      /\ UNCHANGED <<data, locals, globals, alive, acts>>
  BY DEF Alloc_Locals, globalVars
<1>2. /\ n \in Nat /\ n \in 1 .. n /\ acts[n].fn = ip.fn /\ ip.fn # "script" /\ ip.fn \in Fn
  BY <1>1, ActFacts DEF IInv, CallsAgree, Leaves
<1>3. Framed' = Framed \cup {n} /\ n \notin Framed
  BY AllocIInv
<1>4. p \in Nat /\ ip.left = p + 1 /\ ip'.fn = ip.fn /\ ip'.left = p
  <2>1. p \in Nat /\ ip.left = p + 1
    BY <1>1, <1>2, FunctionFacts
  <2>2. p + 1 - 1 = p
    BY <2>1
  <2> QED BY <1>1, <2>1, <2>2 DEF IInv, TypeOK
<1>5. ArgumentsLeft = p /\ ArgumentsLeft' = p
  BY <1>4 DEF ArgumentsLeft
<1>6. \A i \in 1 .. n : Waiting(i)' = Waiting(i)
  BY <1>1, <1>4, <1>5 DEF Waiting
<1>7. \A i \in Framed : FrameBase(i)' = FrameBase(i)
  BY <1>3, KeptBases
<1>8. acts[n].assigned = {}
  BY <1>1, <1>2, <1>3 DEF IInv, AssignedOwn
<1>9. \A i \in 1 .. n : Variables(i)' = Variables(i)
  <2> TAKE i \in 1 .. n
  <2>1. CASE i = n
    BY <1>1, <1>6, <1>8, <2>1 DEF Variables, Var
  <2>2. CASE i # n
    <3>1. Waiting(i) = 0
      BY <2>2 DEF Waiting
    <3> QED BY <1>1, <1>6, <1>7, <3>1, SameVariables
  <2> QED BY <2>1, <2>2
<1>10. \A i \in 1 .. n : Operands(i)' = Operands(i)
  BY <1>1, <1>6 DEF Operands, OperandEnd
<1>11. Activations' = Activations
  BY <1>1, <1>9, <1>10 DEF Activations
<1> QED BY <1>1, <1>11 DEF Stack!vars

(***************************************************************************)
(* A call consumes the arguments on top of the caller's operands, and with *)
(* Call_Dyn the function above them; what is below stays.                  *)
(***************************************************************************)
Consumes(operands, extra) ==
  /\ Len(data) = Len(operands) + extra
  /\ \A k \in 1 .. Len(operands) : operands[k] = data[k]

LEMMA EnterArithmetic ==
  ASSUME NEW p \in Nat, NEW extra \in {0, 1}, NEW b \in Nat, NEW m \in Nat, NEW d \in Nat,
         d = m + extra, NEW e, e = m - p, b <= e
  PROVE  /\ e \in Nat /\ e <= m /\ e + p = m /\ b <= d
         /\ e - b \in Nat /\ d - b \in Nat /\ e - b <= d - b
         /\ d - b - p - extra = e - b /\ d - b >= p + extra
         /\ \A k \in 1 .. e - b : k \in 1 .. d - b /\ b + k \in 1 .. m
         /\ \A s \in Nat : s < p => /\ e - b + s + 1 \in 1 .. d - b
                                   /\ b + (e - b + s + 1) = e + s + 1
                                   /\ e + s + 1 \in 1 .. m
<1>1. extra \in Nat
  OBVIOUS
<1>2. e \in Nat /\ e <= m /\ e + p = m /\ b <= d
  BY <1>1
<1> QED BY <1>1, <1>2

LEMMA EnterRefines ==
  ASSUME IInv, CountedSlots, NEW f \in Fn, NEW operands \in Seq(Value),
         Enter(f, operands), NEW extra \in {0, 1}, Consumes(operands, extra),
         IInv', Framed' = Framed
  PROVE  Stack!Call(f, extra)
<1>0. PICK n, p, b, d, m : /\ n = Len(acts) /\ p = source[f].params /\ b = Act.base
                         /\ d = Len(data) /\ m = Len(operands)
  OBVIOUS
<1>1. /\ d \in Nat /\ m \in Nat /\ b \in Nat /\ data \in Seq(Value) /\ d = b + Own /\ Own \in Nat
      /\ m <= d /\ d = m + extra
  BY <1>0, OwnOperands DEF Consumes
<1>2. /\ Len(acts') = n + 1 /\ \A i \in 1 .. n : acts'[i] = acts[i]
      /\ acts'[n + 1].fn = f /\ acts'[n + 1].assigned = {}
      /\ acts'[n + 1].base = m - p /\ p \in Nat /\ b <= m - p
  BY <1>0, <1>1, EnteredActs
<1>3. /\ InBody /\ Own >= p + extra /\ data' = operands
      /\ ip' = [fn |-> f, left |-> Prologue(f)]
      /\ UNCHANGED <<locals, frameVars, globals, alive>>
  <2>1. Own >= p + Len(data) - Len(operands)
    BY <1>0 DEF Enter
  <2>2. p \in Nat /\ d = m + extra /\ m \in Nat /\ extra \in Nat
    BY <1>1, <1>2
  <2>3. p + d - m = p + extra
    BY <2>2
  <2>4. Own >= p + extra
    BY <1>0, <2>1, <2>3
  <2>5. /\ InBody /\ data' = operands /\ ip' = [fn |-> f, left |-> Prologue(f)]
        /\ UNCHANGED <<locals, frameVars, globals, alive>>
    BY DEF Enter, globalVars
  <2> QED BY <2>4, <2>5
<1>4. n \in Nat /\ n \in 1 .. n /\ Act = acts[n] /\ \A i \in 1 .. n : acts[i].base \in Nat
  BY <1>0, ActFacts DEF IInv
<1>5. ip'.fn = f /\ ip'.left = Prologue(f) /\ f # "script" /\ ArgumentsLeft' = p
  <2>1. Prologue(f) = p \/ Prologue(f) = p + 1
    BY <1>0, FunctionFacts
  <2>2. f # "script"
    BY FunctionFacts
  <2>3. ArgumentsLeft' = IF Prologue(f) <= p THEN Prologue(f) ELSE p
    BY <1>0, <1>3 DEF ArgumentsLeft
  <2> QED BY <1>2, <1>3, <2>1, <2>2, <2>3
<1>6. \A i \in 1 .. n : Waiting(i) = 0 /\ Waiting(i)' = 0
  <2> TAKE i \in 1 .. n
  <2>1. i # n + 1 /\ (i < n \/ i = n)
    BY <1>4
  <2> QED BY <1>2, <1>3, <1>4, <2>1, OperandPlaces DEF Waiting
<1>7. Waiting(n + 1)' = p
  BY <1>2, <1>5 DEF Waiting
<1>8. \A i \in 1 .. n : Variables(i)' = Variables(i)
  <2> TAKE i \in 1 .. n
  <2>1. FrameBase(i)' = FrameBase(i)
    BY <1>3 DEF FrameBase, FrameNo, frameVars
  <2> QED BY <1>0, <1>2, <1>3, <1>6, <2>1, SameVariables
<1>e. PICK e : e = m - p
  OBVIOUS
<1>9. /\ e \in Nat /\ e <= m /\ e + p = m /\ b <= d /\ b <= e
      /\ e - b \in Nat /\ d - b \in Nat /\ e - b <= d - b
      /\ d - b - p - extra = e - b /\ d - b >= p + extra
      /\ \A k \in 1 .. e - b : k \in 1 .. d - b /\ b + k \in 1 .. m
      /\ \A s \in Nat : s < p => /\ e - b + s + 1 \in 1 .. d - b
                                /\ b + (e - b + s + 1) = e + s + 1
                                /\ e + s + 1 \in 1 .. m
  <2>1. b <= e
    BY <1>2, <1>e
  <2>2. /\ p \in Nat /\ b \in Nat /\ m \in Nat /\ d \in Nat /\ d = m + extra
        /\ e = m - p
    BY <1>1, <1>2, <1>e
  <2> QED BY <2>1, <2>2, EnterArithmetic
<1>10. \A i \in 1 .. n - 1 : Operands(i)' = Operands(i)
  <2> TAKE i \in 1 .. n - 1
  <2>1. i \in 1 .. n /\ i < n /\ i + 1 \in 1 .. n
    BY <1>4
  <2>2. PICK x, y : x = acts[i].base /\ y = acts[i + 1].base
    OBVIOUS
  <2>3. /\ x \in Nat /\ y \in Nat /\ y <= d /\ y <= b /\ OperandEnd(i) = y
    <3>1. \A j \in 1 .. n : acts[j].base \in Nat /\ acts[j].base <= OperandEnd(j)
      BY <1>0, OperandPlaces
    <3> QED BY <1>0, <2>1, <2>2, <3>1, OperandPlaces
  <2>4. OperandEnd(i)' = y
    BY <1>2, <1>4, <2>1, <2>2 DEF OperandEnd
  <2>5. x + 0 + 1 = x + 1
    BY <2>3
  <2>6. Operands(i) = SubSeq(data, x + 1, y) /\ Operands(i)' = SubSeq(operands, x + 1, y)
    BY <1>2, <1>3, <1>6, <2>1, <2>2, <2>3, <2>4, <2>5 DEF Operands
  <2>7. y <= m /\ \A k \in 1 .. y : data[k] = operands[k]
    <3>1. y <= m
      BY <1>1, <1>9, <2>3
    <3>2. \A k \in 1 .. y : k \in 1 .. m
      BY <1>1, <2>3, <3>1
    <3> QED BY <1>0, <3>1, <3>2 DEF Consumes
  <2> QED BY <1>0, <1>1, <2>3, <2>6, <2>7, SameCut
<1>o. PICK o, rest : o = Operands(n) /\ rest = e - b
  OBVIOUS
<1>11. /\ o = SubSeq(data, b + 1, d) /\ o \in Seq(Value) /\ Len(o) = d - b
       /\ \A k \in 1 .. d - b : o[k] = data[b + k]
       /\ rest = Len(o) - p - extra /\ rest \in Nat /\ rest <= Len(o)
       /\ Len(o) >= p + extra
  <2>1. o = SubSeq(data, b + 1, d)
    BY <1>0, <1>3, <1>o, AbsFacts
  <2>2. /\ SubSeq(data, b + 1, d) \in Seq(Value) /\ Len(SubSeq(data, b + 1, d)) = d - b
        /\ \A k \in 1 .. d - b : SubSeq(data, b + 1, d)[k] = data[b + k]
    <3>1. b \in Nat /\ d \in Nat /\ b <= d /\ d <= Len(data) /\ data \in Seq(Value)
      BY <1>0, <1>1, <1>9
    <3> QED BY <3>1, CutFacts
  <2>3. /\ o \in Seq(Value) /\ Len(o) = d - b /\ \A k \in 1 .. d - b : o[k] = data[b + k]
    BY <2>1, <2>2
  <2> QED BY <1>9, <1>o, <2>1, <2>3
<1>12. Operands(n)' = SubSeq(o, 1, rest)
  <2>1. Operands(n)' = SubSeq(operands, b + 1, e)
    <3>1. OperandEnd(n)' = e
      BY <1>2, <1>4, <1>e DEF OperandEnd
    <3>2. b + 0 + 1 = b + 1
      BY <1>1
    <3> QED BY <1>0, <1>2, <1>3, <1>4, <1>6, <3>1, <3>2 DEF Operands
  <2>2. PICK l, r : l = SubSeq(operands, b + 1, e) /\ r = SubSeq(o, 1, rest)
    OBVIOUS
  <2>3. l \in Seq(Value) /\ Len(l) = rest /\ \A k \in 1 .. rest : l[k] = operands[b + k]
    <3>1. /\ SubSeq(operands, b + 1, e) \in Seq(Value)
          /\ Len(SubSeq(operands, b + 1, e)) = e - b
          /\ \A k \in 1 .. e - b : SubSeq(operands, b + 1, e)[k] = operands[b + k]
      <4>1. b \in Nat /\ e \in Nat /\ b <= e /\ e <= Len(operands)
        BY <1>0, <1>1, <1>9
      <4> QED BY <4>1, CutFacts
    <3> QED BY <1>o, <2>2, <3>1
  <2>4. r \in Seq(Value) /\ Len(r) = rest /\ \A k \in 1 .. rest : r[k] = o[k]
    <3>1. o \in Seq(Value) /\ rest \in Nat /\ rest <= Len(o)
      BY <1>11
    <3>2. /\ SubSeq(o, 1, rest) \in Seq(Value) /\ Len(SubSeq(o, 1, rest)) = rest
          /\ \A k \in 1 .. rest : SubSeq(o, 1, rest)[k] = o[k]
      BY <3>1, PrefixSeq
    <3> QED BY <2>2, <3>2
  <2>5. \A k \in 1 .. rest : k \in 1 .. d - b /\ b + k \in 1 .. m
    BY <1>9, <1>o
  <2>6. \A k \in 1 .. rest : operands[b + k] = data[b + k]
    BY <1>0, <2>5 DEF Consumes
  <2>7. \A k \in 1 .. rest : l[k] = r[k]
    BY <1>11, <2>3, <2>4, <2>5, <2>6
  <2>8. l = r
    BY <1>11, <2>3, <2>4, <2>7, SeqEqual
  <2> QED BY <2>1, <2>2, <2>8
<1>13. Operands(n + 1)' = <<>>
  <2>1. Operands(n + 1)' = SubSeq(operands, e + p + 1, m)
    <3>1. acts'[n + 1].base = e /\ Waiting(n + 1)' = p /\ data' = operands
      BY <1>2, <1>3, <1>7, <1>e
    <3>2. ~(n + 1 < n + 1)
      BY <1>4
    <3>3. OperandEnd(n + 1)' = m
      BY <1>0, <1>2, <3>1, <3>2 DEF OperandEnd
    <3> QED BY <3>1, <3>3 DEF Operands
  <2>2. m < m + 1 /\ m \in Int /\ m + 1 \in Int
    BY <1>1
  <2> QED BY <1>9, <2>1, <2>2, SubSeqEmpty
<1>14. Variables(n + 1)' =
         [s \in VarSlot |-> IF s < p THEN o[rest + s + 1] ELSE Unset]
  <2>1. ASSUME NEW s \in VarSlot
        PROVE  Var(n + 1, s)' = IF s < p THEN o[rest + s + 1] ELSE Unset
    <3>1. CASE s < p
      <4>1. s \in Nat
        BY SlotBound DEF VarSlot
      <4>2. rest + s + 1 \in 1 .. d - b /\ b + (rest + s + 1) = e + s + 1 /\ e + s + 1 \in 1 .. m
        BY <1>9, <1>o, <3>1, <4>1
      <4>3. o[rest + s + 1] = operands[e + s + 1]
        <5>1. o[rest + s + 1] = data[b + (rest + s + 1)]
          BY <1>11, <4>2
        <5>2. operands[e + s + 1] = data[e + s + 1]
          BY <1>0, <4>2 DEF Consumes
        <5> QED BY <4>2, <5>1, <5>2
      <4> QED BY <1>2, <1>3, <1>e, <1>7, <3>1, <4>3 DEF Var
    <3>2. CASE ~(s < p)
      BY <1>2, <1>7, <3>2 DEF Var
    <3> QED BY <3>1, <3>2
  <2> QED BY <2>1 DEF Variables
<1>n. PICK new, a, q : /\ new = [fn |-> f, operands |-> <<>>,
                               vars |-> [s \in VarSlot |-> IF s < p THEN o[rest + s + 1] ELSE Unset]]
                     /\ a = [Activations[n] EXCEPT !.operands = SubSeq(o, 1, rest)]
                     /\ q = [Activations EXCEPT ![n] = a]
  OBVIOUS
<1>15. Activations = [i \in 1 .. n |-> Abs(i)] /\ Len(Activations) = n
  BY <1>0, AbsFacts DEF Activations, Abs
<1>16. Activations' = [i \in 1 .. n + 1 |->
         [fn |-> acts'[i].fn, vars |-> Variables(i)', operands |-> Operands(i)']]
  BY <1>2 DEF Activations
<1>17. \A i \in 1 .. n - 1 : Activations'[i] = Abs(i)
  <2> TAKE i \in 1 .. n - 1
  <2>1. i \in 1 .. n /\ i \in 1 .. n + 1
    BY <1>4
  <2>2. Operands(i)' = Operands(i) /\ Variables(i)' = Variables(i)
    BY <1>8, <1>10, <2>1
  <2> QED BY <1>2, <1>16, <2>1, <2>2 DEF Abs
<1>18. Activations'[n] = a
  <2>1. n \in 1 .. n + 1
    BY <1>4
  <2>2. Activations'[n] = [fn |-> acts[n].fn, vars |-> Variables(n), operands |-> SubSeq(o, 1, rest)]
    BY <1>2, <1>4, <1>8, <1>12, <1>16, <2>1
  <2>3. PICK g, v, t : g = acts[n].fn /\ v = Variables(n) /\ t = SubSeq(o, 1, rest)
    OBVIOUS
  <2>4. Activations[n] = [fn |-> g, vars |-> v, operands |-> o]
    BY <1>4, <1>15, <1>o, <2>3 DEF Abs
  <2>5. PICK r : r = Activations[n]
    OBVIOUS
  <2>6. /\ r = [fn |-> g, vars |-> v, operands |-> o] /\ r.fn = g /\ r.vars = v /\ r.operands = o
    BY <2>4, <2>5
  <2>7. PICK z : z = [r EXCEPT !.operands = t]
    OBVIOUS
  <2>8. z = [fn |-> g, vars |-> v, operands |-> t]
    BY <2>6, <2>7
  <2>9. z = [Activations[n] EXCEPT !.operands = SubSeq(o, 1, rest)]
    BY <2>3, <2>5, <2>7
  <2> QED BY <1>n, <2>2, <2>3, <2>8, <2>9
<1>19. Activations'[n + 1] = new
  <2>1. n + 1 \in 1 .. n + 1
    BY <1>4
  <2> QED BY <1>2, <1>13, <1>14, <1>16, <1>n, <2>1
<1>20. Activations' = Append(q, new)
  <2>1. /\ q = [i \in 1 .. n |-> IF i = n THEN a ELSE Abs(i)]
    BY <1>15, <1>n
  <2>2. PICK S : S = {a, new} \cup {Abs(i) : i \in 1 .. n}
    OBVIOUS
  <2>3. new \in S /\ \A i \in 1 .. n : (IF i = n THEN a ELSE Abs(i)) \in S
    BY <2>2
  <2>4. q \in [1 .. n -> S]
    BY <2>1, <2>3
  <2>5. q \in Seq(S) /\ Len(q) = n
    BY <1>4, <2>4, SeqDef, LenProperties
  <2>6. PICK t : t = Append(q, new)
    OBVIOUS
  <2>7. /\ t \in Seq(S) /\ Len(t) = n + 1 /\ \A i \in 1 .. n : t[i] = q[i]
        /\ t[n + 1] = new
    BY <2>3, <2>5, <2>6, AppendProperties
  <2>8. \A i \in 1 .. n : i # n => i \in 1 .. n - 1
    BY <1>4
  <2>9. \A i \in 1 .. n : Activations'[i] = t[i]
    BY <1>17, <1>18, <2>1, <2>7, <2>8
  <2>10. \A i \in 1 .. n + 1 : i = n + 1 \/ i \in 1 .. n
    BY <1>4
  <2>11. \A i \in 1 .. n + 1 : Activations'[i] = t[i]
    BY <1>19, <2>7, <2>9, <2>10
  <2>12. DOMAIN t = 1 .. n + 1 /\ t = [i \in 1 .. n + 1 |-> t[i]]
    BY <2>7, LenProperties
  <2> QED BY <1>16, <2>6, <2>11, <2>12
<1>21. /\ Stack!Operands = o /\ Stack!Slot = VarSlot
       /\ [g \in Fn |-> source[g].params][f] = p
  BY <1>0, <1>o, AbsFacts DEF Stack!Slot, VarSlot
<1>22. q = [Activations EXCEPT ![Len(Activations)].operands = SubSeq(@, 1, rest)]
  <2>1. Activations[n].operands = o
    BY <1>4, <1>15, <1>o DEF Abs
  <2> QED BY <1>15, <1>n, <2>1
<1>23. Len(o) >= [g \in Fn |-> source[g].params][f] + extra
  BY <1>11, <1>21
<1> QED
  <2>1. Activations' =
          Append([Activations EXCEPT ![Len(Activations)].operands = SubSeq(@, 1, rest)],
                 [fn |-> f,
                  vars |-> [s \in Stack!Slot |->
                              IF s < [g \in Fn |-> source[g].params][f]
                              THEN Stack!Operands[rest + s + 1] ELSE Unset],
                  operands |-> <<>>])
    BY <1>20, <1>21, <1>22, <1>n
  <2>2. rest = Len(Stack!Operands) - [g \in Fn |-> source[g].params][f] - extra
    BY <1>11, <1>21
  <2> QED BY <1>3, <1>21, <1>23, <2>1, <2>2 DEF Stack!Call

LEMMA CallsRefine ==
  ASSUME IInv, CountedSlots, NEW f \in Fn, Call(f) \/ Call_Dyn(f)
  PROVE  \E extra \in {0, 1} : Stack!Call(f, extra)
<1>1. IInv' /\ Framed' = Framed
  BY CallsIInv
<1>2. data \in Seq(Value) /\ Len(data) \in Nat
  BY OwnOperands
<1>3. CASE Call(f)
  <2>1. Consumes(data, 0)
    BY <1>2 DEF Consumes
  <2> QED BY <1>1, <1>2, <1>3, <2>1, EnterRefines DEF Call
<1>4. CASE Call_Dyn(f)
  <2>1. Own >= 1 /\ Enter(f, Front(data))
    BY <1>4 DEF Call_Dyn
  <2>2. PICK q : q = Front(data)
    OBVIOUS
  <2>3. /\ q \in Seq(Value) /\ Len(q) = Len(data) - 1
        /\ \A i \in 1 .. Len(data) - 1 : q[i] = data[i]
    BY <2>1, <2>2, OwnOperands
  <2>4. Len(data) = Len(q) + 1
    BY <1>2, <2>3
  <2>5. Consumes(q, 1)
    BY <2>3, <2>4 DEF Consumes
  <2>6. Enter(f, q)
    BY <2>1, <2>2
  <2> QED BY <1>1, <2>3, <2>5, <2>6, EnterRefines
<1> QED BY <1>3, <1>4

-----------------------------------------------------------------------------
(***************************************************************************)
(* A function returns: what is left on its part of the data stack is its   *)
(* result, which now belongs to the caller.                                *)
(***************************************************************************)
LEMMA CutConcat ==
  ASSUME NEW S, NEW s \in Seq(S), NEW a \in Nat, NEW b \in Nat, a <= b, b <= Len(s)
  PROVE  SubSeq(s, a + 1, Len(s)) = SubSeq(s, a + 1, b) \o SubSeq(s, b + 1, Len(s))
<1>1. PICK d, l, r, w : /\ d = Len(s) /\ l = SubSeq(s, a + 1, b) /\ r = SubSeq(s, b + 1, d)
                        /\ w = SubSeq(s, a + 1, d)
  OBVIOUS
<1>2. d \in Nat /\ b <= d /\ a <= d
  <2>1. d \in Nat /\ b <= d
    BY <1>1
  <2> QED BY <2>1
<1>3. l \in Seq(S) /\ Len(l) = b - a /\ \A i \in 1 .. b - a : l[i] = s[a + i]
  BY <1>1, CutFacts
<1>4. r \in Seq(S) /\ Len(r) = d - b /\ \A i \in 1 .. d - b : r[i] = s[b + i]
  BY <1>1, <1>2, CutFacts
<1>5. w \in Seq(S) /\ Len(w) = d - a /\ \A i \in 1 .. d - a : w[i] = s[a + i]
  BY <1>1, <1>2, CutFacts
<1>6. PICK c : c = l \o r
  OBVIOUS
<1>7. /\ c \in Seq(S) /\ Len(c) = (b - a) + (d - b)
      /\ \A i \in 1 .. (b - a) + (d - b) : c[i] = IF i <= b - a THEN l[i] ELSE r[i - (b - a)]
  BY SMTT(30), <1>3, <1>4, <1>6, ConcatProperties
<1>8. (b - a) + (d - b) = d - a
  BY <1>2
<1>9. \A i \in 1 .. d - a : w[i] = c[i]
  <2> TAKE i \in 1 .. d - a
  <2>1. CASE i <= b - a
    <3>1. i \in 1 .. b - a
      BY <1>2, <2>1
    <3> QED BY <1>3, <1>5, <1>7, <1>8, <2>1, <3>1
  <2>2. CASE ~(i <= b - a)
    <3>1. i - (b - a) \in 1 .. d - b /\ b + (i - (b - a)) = a + i
      BY <1>2, <2>2
    <3>2. r[i - (b - a)] = s[a + i]
      BY <1>4, <3>1
    <3> QED BY <1>5, <1>7, <1>8, <2>2, <3>2
  <2> QED BY <2>1, <2>2
<1>10. w = c
  BY <1>5, <1>7, <1>8, <1>9, SeqEqual
<1> QED BY <1>1, <1>6, <1>10

LEMMA ReturnRefines ==
  ASSUME IInv, CountedSlots, Return \/ Return_Fast
  PROVE  Stack!Return
<1>0. PICK n, b, d : n = Len(acts) /\ b = Act.base /\ d = Len(data)
  OBVIOUS
<1>1. /\ Leave /\ InBody /\ Own = source[ip.fn].results
      /\ UNCHANGED <<data, locals, globals, alive>>
  BY DEF Return, Return_Fast, Leave, globalVars
<1>2. /\ n \in Nat /\ n >= 2 /\ ip.fn \in Fn /\ ip.fn = acts[n].fn
      /\ Len(acts') = n - 1 /\ \A i \in 1 .. n - 1 : acts'[i] = acts[i]
      /\ ip' = [fn |-> acts[n - 1].fn, left |-> 0]
      /\ Framed' = Framed \ {n}
  BY <1>0, <1>1, LeftActs
<1>3. /\ d \in Nat /\ b \in Nat /\ data \in Seq(Value) /\ b <= d /\ d <= Len(data)
  <2>1. d \in Nat /\ b \in Nat /\ data \in Seq(Value) /\ Own \in Nat /\ d = b + Own
    BY <1>0, OwnOperands
  <2> QED BY <1>0, <2>1
<1>4. \A i \in 1 .. n - 1 : /\ i \in 1 .. n /\ i < n /\ i # n /\ i + 1 \in 1 .. n
                            /\ Waiting(i) = 0 /\ acts[i].base \in Nat
                            /\ acts[i].base <= OperandEnd(i)
                            /\ OperandEnd(i) = acts[i + 1].base
  <2> TAKE i \in 1 .. n - 1
  <2>1. i \in 1 .. n /\ i < n /\ i # n /\ i + 1 \in 1 .. n
    BY <1>2
  <2> QED BY <1>0, <2>1, OperandPlaces
<1>5. \A i \in 1 .. n - 1 : Waiting(i)' = 0
  <2>1. \A f : source[f].params \in Nat => (IF 0 <= source[f].params THEN 0 ELSE source[f].params) = 0
    OBVIOUS
  <2>2. ip'.fn # "script" => ip'.fn \in Fn
    <3>1. n - 1 \in 1 .. n
      BY <1>2
    <3> QED BY <1>0, <1>2, <3>1, ActFacts DEF IInv, Code
  <2>3. ip'.fn # "script" => ArgumentsLeft' = 0
    <3> SUFFICES ASSUME ip'.fn # "script" PROVE ArgumentsLeft' = 0
      OBVIOUS
    <3>1. source[ip'.fn].params \in Nat
      BY <2>2, FunctionFacts
    <3> QED BY <1>2, <2>1, <3>1 DEF ArgumentsLeft
  <2> QED BY <2>3 DEF Waiting
<1>6. \A i \in 1 .. n - 1 : Variables(i)' = Variables(i)
  <2> TAKE i \in 1 .. n - 1
  <2>1. i \in Framed => FrameBase(i)' = FrameBase(i)
    BY <1>2, <1>4, KeptBases
  <2> QED BY <1>0, <1>1, <1>2, <1>4, <1>5, <2>1, SameVariables
<1>7. \A i \in 1 .. n - 1 : i # n - 1 => Operands(i)' = Operands(i)
  <2> TAKE i \in 1 .. n - 1
  <2> SUFFICES ASSUME i # n - 1 PROVE Operands(i)' = Operands(i)
    OBVIOUS
  <2>1. i < n - 1 /\ i + 1 \in 1 .. n - 1
    BY <1>2
  <2>2. OperandEnd(i)' = OperandEnd(i)
    BY <1>2, <1>4, <2>1 DEF OperandEnd
  <2> QED BY <1>1, <1>2, <1>4, <1>5, <2>2 DEF Operands
<1>8. n - 1 \in 1 .. n - 1 /\ (n - 1) + 1 = n
  BY <1>2
<1>9. Operands(n - 1)' = Operands(n - 1) \o Operands(n)
  <2>1. PICK x : x = acts[n - 1].base
    OBVIOUS
  <2>2. x \in Nat /\ x <= b /\ OperandEnd(n - 1) = b /\ Waiting(n - 1) = 0
    BY <1>0, <1>4, <1>8, <2>1 DEF Act
  <2>3. x + 0 + 1 = x + 1
    BY <2>2
  <2>4. Operands(n - 1) = SubSeq(data, x + 1, b)
    BY <2>1, <2>2, <2>3 DEF Operands
  <2>5. Operands(n) = SubSeq(data, b + 1, d)
    BY <1>0, <1>1, AbsFacts
  <2>6. Operands(n - 1)' = SubSeq(data, x + 1, d)
    <3>1. ~(n - 1 < n - 1)
      BY <1>2
    <3>2. OperandEnd(n - 1)' = d
      BY <1>0, <1>1, <1>2, <3>1 DEF OperandEnd
    <3> QED BY <1>1, <1>2, <1>5, <1>8, <2>1, <2>3, <3>2 DEF Operands
  <2>7. SubSeq(data, x + 1, Len(data)) = SubSeq(data, x + 1, b) \o SubSeq(data, b + 1, Len(data))
    <3>1. b <= Len(data)
      BY <1>0, <1>3
    <3> QED BY <1>3, <2>2, <3>1, CutConcat
  <2> QED BY <1>0, <2>4, <2>5, <2>6, <2>7
<1>10. Activations = [i \in 1 .. n |-> Abs(i)] /\ Len(Activations) = n
  BY <1>0, AbsFacts DEF Activations, Abs
<1>11. Activations' = [i \in 1 .. n - 1 |->
         [fn |-> acts'[i].fn, vars |-> Variables(i)', operands |-> Operands(i)']]
  BY <1>2 DEF Activations
<1>12. \A i \in 1 .. n - 1 : i # n - 1 => Activations'[i] = Abs(i)
  BY <1>2, <1>6, <1>7, <1>11 DEF Abs
<1>13. PICK q, o, a : /\ q = Stack!Front(Activations) /\ o = Stack!Operands
                      /\ a = [q[n - 1] EXCEPT !.operands = @ \o o]
  OBVIOUS
<1>14. q = [i \in 1 .. n - 1 |-> Abs(i)]
  <2>1. q = SubSeq(Activations, 1, n - 1)
    BY <1>10, <1>13 DEF Stack!Front
  <2>2. PICK S : S = {Abs(i) : i \in 1 .. n}
    OBVIOUS
  <2>3. PICK t : t = [i \in 1 .. n |-> Abs(i)]
    OBVIOUS
  <2>4. t \in [1 .. n -> S]
    BY <2>2, <2>3
  <2>5. t \in Seq(S) /\ Len(t) = n
    BY <1>2, <2>4, SeqDef, LenProperties
  <2>6. PICK r : r = SubSeq(t, 1, n - 1)
    OBVIOUS
  <2>7. n - 1 \in Nat /\ n - 1 <= Len(t)
    BY <1>2, <2>5
  <2>8. r \in Seq(S) /\ Len(r) = n - 1 /\ \A i \in 1 .. n - 1 : r[i] = t[i]
    BY <2>5, <2>6, <2>7, PrefixSeq
  <2>9. DOMAIN r = 1 .. n - 1 /\ r = [i \in 1 .. n - 1 |-> r[i]]
    BY <2>8, LenProperties
  <2>10. \A i \in 1 .. n - 1 : r[i] = Abs(i)
    BY <1>4, <2>3, <2>8
  <2> QED BY <1>10, <2>1, <2>3, <2>6, <2>9, <2>10
<1>15. o = Operands(n) /\ Stack!Running = Abs(n)
  BY <1>0, <1>13, AbsFacts
<1>16. Activations'[n - 1] = a
  <2>1. Activations'[n - 1] = [fn |-> acts[n - 1].fn, vars |-> Variables(n - 1),
                               operands |-> Operands(n - 1) \o Operands(n)]
    BY <1>2, <1>6, <1>8, <1>9, <1>11
  <2>2. PICK g, v, t, u : /\ g = acts[n - 1].fn /\ v = Variables(n - 1) /\ t = Operands(n - 1)
                          /\ u = t \o o
    OBVIOUS
  <2>3. PICK r : r = q[n - 1]
    OBVIOUS
  <2>4. r = [fn |-> g, vars |-> v, operands |-> t] /\ r.fn = g /\ r.vars = v /\ r.operands = t
    BY <1>8, <1>14, <2>2, <2>3 DEF Abs
  <2>5. PICK z : z = [r EXCEPT !.operands = u]
    OBVIOUS
  <2>6. z = [fn |-> g, vars |-> v, operands |-> u]
    BY <2>4, <2>5
  <2>7. a = z
    BY <1>13, <2>2, <2>3, <2>4, <2>5
  <2> QED BY <1>15, <2>1, <2>2, <2>6, <2>7
<1>17. PICK w : w = [q EXCEPT ![n - 1] = a]
  OBVIOUS
<1>18. Activations' = w
  <2>1. w = [i \in 1 .. n - 1 |-> IF i = n - 1 THEN a ELSE Abs(i)]
    BY <1>14, <1>17
  <2>2. \A i \in 1 .. n - 1 : Activations'[i] = IF i = n - 1 THEN a ELSE Abs(i)
    BY <1>12, <1>16
  <2>3. Activations' = [i \in 1 .. n - 1 |-> Activations'[i]]
    BY <1>11
  <2> QED BY <2>1, <2>2, <2>3
<1>19. w = [Stack!Front(Activations) EXCEPT ![Len(Activations) - 1].operands = @ \o Stack!Operands]
  BY <1>10, <1>13, <1>17
<1>20. Len(Stack!Operands) = [f \in Fn |-> source[f].results][Stack!Running.fn]
  <2>1. Stack!Running.fn = ip.fn
    BY <1>2, <1>15 DEF Abs
  <2>2. Len(Stack!Operands) = Own
    BY <1>0, <1>1, AbsFacts
  <2> QED BY <1>1, <1>2, <2>1, <2>2
<1>21. Len(Activations) > 1
  BY <1>2, <1>10
<1> QED
  BY <1>1, <1>18, <1>19, <1>20, <1>21 DEF Stack!Return

-----------------------------------------------------------------------------
(***************************************************************************)
(* A collection keeps what the activations and the globals hold.           *)
(***************************************************************************)
LEMMA AbsHeld ==
  ASSUME IInv, InBody, NEW A, HoldsOnly(A)
  PROVE  Stack!Held \subseteq A \cup {Unset}
<1>0. PICK n : n = Len(acts)
  OBVIOUS
<1>1. /\ Len(Activations) = n /\ \A i \in 1 .. n : Activations[i] = Abs(i)
  BY <1>0, AbsFacts
<1>2. ASSUME NEW i \in 1 .. n, NEW s \in VarSlot
      PROVE  Activations[i].vars[s] \in A \cup {Unset}
  <2>1. Waiting(i) = 0
    BY <1>0, <1>2, OperandPlaces
  <2>2. ~(s < 0)
    BY SlotBound DEF VarSlot
  <2>3. Activations[i].vars[s] = Var(i, s)
    BY <1>1 DEF Abs, Variables
  <2> QED BY <1>0, <2>1, <2>2, <2>3 DEF Var, HoldsOnly
<1>3. ASSUME NEW i \in 1 .. n, NEW v \in Stack!Range(Activations[i].operands)
      PROVE  v \in A
  <2>1. PICK x, y, d : x = acts[i].base /\ y = OperandEnd(i) /\ d = Len(data)
    OBVIOUS
  <2>2. /\ x \in Nat /\ y \in Nat /\ x <= y /\ y <= d /\ Waiting(i) = 0
        /\ data \in Seq(Value) /\ d \in Nat
    BY <1>0, <2>1, OperandPlaces, OwnOperands
  <2>3. x + 0 + 1 = x + 1
    BY <2>2
  <2>4. Activations[i].operands = SubSeq(data, x + 1, y)
    BY <1>1, <2>1, <2>2, <2>3 DEF Abs, Operands
  <2>5. PICK t : t = SubSeq(data, x + 1, y)
    OBVIOUS
  <2>6. t \in Seq(Value) /\ Len(t) = y - x /\ \A k \in 1 .. y - x : t[k] = data[x + k]
    <3>1. y <= Len(data)
      BY <2>1, <2>2
    <3> QED BY <2>2, <2>5, <3>1, CutFacts
  <2>7. DOMAIN t = 1 .. y - x
    BY <2>6, LenProperties
  <2>8. PICK k \in 1 .. y - x : v = t[k]
    BY <2>4, <2>5, <2>7 DEF Stack!Range
  <2>9. x + k \in 1 .. d
    BY <2>2
  <2>10. v = data[x + k]
    BY <2>6, <2>8
  <2> QED BY <2>1, <2>9, <2>10 DEF HoldsOnly
<1>4. ASSUME NEW g \in Global PROVE globals[g] \in A
  BY DEF HoldsOnly
<1>5. Stack!Slot = VarSlot /\ Stack!Global = Global
  BY DEF Stack!Slot, VarSlot, Stack!Global, Global
<1>6. \A i \in 1 .. n :
        {Activations[i].vars[s] : s \in VarSlot} \cup Stack!Range(Activations[i].operands)
          \subseteq A \cup {Unset}
  BY <1>2, <1>3
<1>7. {globals[g] : g \in Global} \subseteq A \cup {Unset}
  BY <1>4
<1> QED BY <1>1, <1>5, <1>6, <1>7 DEF Stack!Held

LEMMA Keeping ==
  ASSUME IInv, InBody, NEW keep, keep \subseteq alive, HoldsOnly(keep \cup {Nil})
  PROVE  keep \in SUBSET Obj /\ alive \cap Stack!Held \subseteq keep
<1>1. alive \subseteq Obj /\ Nil \notin Obj /\ Unset \notin Obj
  BY VMAssumption DEF IInv, TypeOK
<1>2. Stack!Held \subseteq (keep \cup {Nil}) \cup {Unset}
  BY AbsHeld
<1> QED BY <1>1, <1>2

LEMMA SameActivations ==
  ASSUME IInv, Framed' = Framed, UNCHANGED <<ip, data, locals, frameVars, acts>>
  PROVE  Activations' = Activations
<1>1. \A i : FrameBase(i)' = FrameBase(i)
  BY DEF FrameBase, FrameNo, frameVars
<1>2. \A i : Waiting(i)' = Waiting(i) /\ OperandEnd(i)' = OperandEnd(i)
  BY DEF Waiting, ArgumentsLeft, OperandEnd
<1>3. \A i, s : Var(i, s)' = Var(i, s)
  BY <1>1, <1>2 DEF Var
<1>4. \A i : Variables(i)' = Variables(i) /\ Operands(i)' = Operands(i)
  BY <1>2, <1>3 DEF Variables, Operands
<1> QED BY <1>4 DEF Activations

LEMMA CollectRefines ==
  ASSUME IInv, LiveIInv, CountedSlots, GlobalsScanned, Collect
  PROVE  \E keep \in SUBSET Obj : Stack!Collect(keep)
<1>1. PICK keep : keep = alive \cap Roots
  OBVIOUS
<1>2. /\ InBody /\ MayCollect /\ alive' = keep
      /\ UNCHANGED <<ip, data, locals, frameVars, globals, acts>>
  BY <1>1 DEF Collect, globalVars
<1>3. keep \subseteq alive /\ HoldsOnly(keep \cup {Nil})
  BY <1>1, <1>2, RootsCover
<1>4. keep \in SUBSET Obj /\ alive \cap Stack!Held \subseteq keep
  BY <1>2, <1>3, Keeping
<1>5. Activations' = Activations
  <2>1. Framed' = Framed
    BY CollectIInv
  <2> QED BY <1>2, <2>1, SameActivations
<1> QED BY <1>2, <1>3, <1>4, <1>5 DEF Stack!Collect

LEMMA NewRefines ==
  ASSUME IInv, LiveIInv, CountedSlots, GlobalsScanned,
         NEW o \in Obj, NEW collects \in BOOLEAN, New(o, collects)
  PROVE  \E keep \in SUBSET Obj : Stack!New(keep, o)
<1>1. PICK keep : keep = IF collects THEN alive \cap Roots ELSE alive
  OBVIOUS
<1>2. /\ InBody /\ (collects => MayCollect) /\ o \notin keep /\ alive' = keep \cup {o}
      /\ data' = Append(data, o)
      /\ UNCHANGED <<ip, locals, frameVars, acts>> /\ UNCHANGED globals
  BY <1>1 DEF New, globalVars
<1>3. keep \subseteq alive /\ HoldsOnly(keep \cup {Nil})
  <2>1. CASE collects
    BY <1>1, <1>2, <2>1, RootsCover
  <2>2. CASE ~collects
    BY <1>1, <2>2, HeldMeans DEF IInv, LiveIInv
  <2> QED BY <2>1, <2>2
<1>4. keep \in SUBSET Obj /\ alive \cap Stack!Held \subseteq keep
  BY <1>2, <1>3, Keeping
<1>5. Stack!Push(o)
  <2>1. IInv' /\ Framed' = Framed
    BY NewIInv
  <2>2. o \in Value
    BY DEF Value
  <2> QED BY <1>2, <2>1, <2>2, PushStep
<1> QED BY <1>2, <1>3, <1>4, <1>5 DEF Stack!New

LEMMA StepRefines ==
  CountedSlots /\ GlobalsScanned /\ IInv /\ LiveIInv /\ [Next]_vars
    => [Stack!Next]_(Stack!vars)
<1> SUFFICES ASSUME CountedSlots, GlobalsScanned, IInv, LiveIInv, [Next]_vars
             PROVE  Stack!Next \/ UNCHANGED Stack!vars
  OBVIOUS
<1>1. CASE UNCHANGED vars
  <2>1. Framed' = Framed
    BY <1>1 DEF Framed, vars
  <2>2. Activations' = Activations
    BY <1>1, <2>1, SameActivations DEF vars
  <2> QED BY <1>1, <2>2 DEF vars, globalVars, Stack!vars
<1>2. CASE Literal \/ Dup_1 \/ Drop_1 \/ Swap_1
  BY <1>2, ComputeRefines DEF Stack!Next
<1>3. CASE (\E s \in VarSlot : Load_Local(s)) \/ (\E g \in Global : Load_Global(g))
  BY <1>3, LoadRefines DEF Stack!Next
<1>4. CASE \E s \in VarSlot : Store_Local(s)
  BY <1>4, StoreLocalRefines DEF Stack!Next
<1>5. CASE StoreArgument
  BY <1>5, StoreArgumentStutters
<1>6. CASE \E g \in Global : Store_Global(g)
  BY <1>6, StoreGlobalRefines DEF Stack!Next
<1>7. CASE \E f \in Fn : Call(f) \/ Call_Dyn(f)
  BY <1>7, CallsRefine DEF Stack!Next
<1>8. CASE Alloc_Locals
  BY <1>8, AllocStutters
<1>9. CASE Return \/ Return_Fast
  BY <1>9, ReturnRefines DEF Stack!Next
<1>10. CASE Collect
  BY <1>10, CollectRefines DEF Stack!Next
<1>11. CASE \E o \in Obj, collects \in BOOLEAN : New(o, collects)
  BY <1>11, NewRefines DEF Stack!Next
<1> QED
  BY <1>1, <1>2, <1>3, <1>4, <1>5, <1>6, <1>7, <1>8, <1>9, <1>10, <1>11 DEF Next

\* The machine keeps its promise to the program, call by call and collection by
\* collection (vm.cpp:750-769, 991-1000 and gc.cpp:143-160): one array of locals
\* and one data stack give every activation variables and operands of its own,
\* and no object they hold is taken; for programs none of whose array literals
\* takes an uncounted slot and whose reference globals are all scanned.
THEOREM ImplementsPromise ==
  ASSUME CountedSlots, GlobalsScanned
  PROVE  Spec => ImplementsCallStack
<1>1. Init => IInv /\ LiveIInv
  BY InitIInv, InitLive
<1>2. (IInv /\ LiveIInv) /\ [Next]_vars => (IInv /\ LiveIInv)'
  BY StepIInv, StepLive
<1>3. Init => Stack!Init
  BY InitRefines
<1>4. (IInv /\ LiveIInv) /\ [Next]_vars => [Stack!Next]_(Stack!vars)
  BY StepRefines
<1> QED BY <1>1, <1>2, <1>3, <1>4, PTL DEF Spec, ImplementsCallStack, Stack!Spec
=============================================================================
