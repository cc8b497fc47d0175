------------------------- MODULE Interpreter_proofs -------------------------
(***************************************************************************)
(* What the machine does with code that has a stack map: whatever the      *)
(* program, it stays on instructions, each activation finds its operands   *)
(* and variables where it left them, and the program ends with nothing     *)
(* left over.  vm.cpp checks none of this while it runs.                   *)
(***************************************************************************)
EXTENDS StackMap, SequenceTheorems, TLAPS

(***************************************************************************)
(* The activations, outermost first.  m is a stack map, cf are the return  *)
(* addresses and a is where the innermost activation is; activation i goes *)
(* on at Site(cf, a, i).                                                   *)
(***************************************************************************)
Levels(cf) == 1 .. Len(cf) + 1
Site(cf, a, i) == IF i <= Len(cf) THEN cf[i] ELSE a

FnOf(m, a) == m.before[a].fn
Depth(m, a) == m.before[a].depth
Results(m, a) == m.fns[m.before[a].fn].results
FrameCount(m, a) == IF m.before[a].framed THEN 1 ELSE 0
FrameSize(m, a) == IF m.before[a].framed THEN m.fns[m.before[a].fn].slots ELSE 0

Measured(m) ==
    \A a \in DOMAIN m.before :
        /\ Depth(m, a) \in Nat /\ Results(m, a) \in Nat
        /\ FrameCount(m, a) \in {0, 1} /\ FrameSize(m, a) \in Nat

\* The statements are the outermost activation and no other.
Activations(m, cf, a) ==
    \A i \in Levels(cf) :
        /\ Site(cf, a, i) \in DOMAIN m.before
        /\ FnOf(m, Site(cf, a, i)) = Main <=> i = 1

\* Activation i has its operands from base[i] on.  A caller has been left with
\* what its stack map says of the address it returns to, but for the results.
OperandsAbove(m, cf, a, d, base) ==
    /\ base \in [Levels(cf) -> Nat] /\ base[1] = 0
    /\ \A i \in 1 .. Len(cf) :
          /\ Results(m, Site(cf, a, i + 1)) <= Depth(m, cf[i])
          /\ base[i + 1] = base[i] + Depth(m, cf[i]) - Results(m, Site(cf, a, i + 1))
    /\ d = base[Len(cf) + 1] + Depth(m, a)

\* Activation i has its variables from low[i] on and nf[i] frames are older.
FramesAbove(m, cf, a, lt, lf, low, nf) ==
    /\ low \in [Levels(cf) -> Nat] /\ low[1] = 0
    /\ nf \in [Levels(cf) -> Nat] /\ nf[1] = 0
    /\ \A i \in 1 .. Len(cf) :
          /\ low[i + 1] = low[i] + FrameSize(m, cf[i])
          /\ nf[i + 1] = nf[i] + FrameCount(m, cf[i])
    /\ \A i, j \in Levels(cf) : i < j => nf[i] + FrameCount(m, cf[i]) <= nf[j]
    /\ lt = low[Len(cf) + 1] + FrameSize(m, a)
    /\ lf \in Seq(Nat) /\ Len(lf) = nf[Len(cf) + 1] + FrameCount(m, a)
    /\ \A i \in Levels(cf) : FrameCount(m, Site(cf, a, i)) = 1 => lf[nf[i] + 1] = low[i]

-----------------------------------------------------------------------------
(* Within an activation.                                                   *)

LEMMA ActivationsStay ==
  ASSUME NEW m, NEW S, NEW cf \in Seq(S), NEW a, NEW b \in DOMAIN m.before,
         Activations(m, cf, a), FnOf(m, b) = FnOf(m, a)
  PROVE  Activations(m, cf, b)
<1> SUFFICES ASSUME NEW i \in Levels(cf)
             PROVE  /\ Site(cf, b, i) \in DOMAIN m.before
                    /\ FnOf(m, Site(cf, b, i)) = Main <=> i = 1
  BY DEF Activations
<1>1. FnOf(m, Site(cf, b, i)) = FnOf(m, Site(cf, a, i))
  BY DEF Site
<1> QED
  BY <1>1 DEF Activations, Site

LEMMA OperandsStay ==
  ASSUME NEW m, Measured(m), NEW S, NEW cf \in Seq(S),
         NEW a \in DOMAIN m.before, NEW b \in DOMAIN m.before, FnOf(m, b) = FnOf(m, a),
         NEW d \in Nat, NEW base, OperandsAbove(m, cf, a, d, base)
  PROVE  /\ Depth(m, a) <= d
         /\ OperandsAbove(m, cf, b, d - Depth(m, a) + Depth(m, b), base)
<1>1. Len(cf) \in Nat /\ Depth(m, a) \in Nat /\ Depth(m, b) \in Nat
  BY DEF Measured
<1>2. base[Len(cf) + 1] \in Nat /\ d = base[Len(cf) + 1] + Depth(m, a)
  BY <1>1 DEF OperandsAbove, Levels
<1>3. ASSUME NEW i \in 1 .. Len(cf)
      PROVE  Results(m, Site(cf, b, i + 1)) = Results(m, Site(cf, a, i + 1))
  BY DEF Site, Results, FnOf
<1>4. d - Depth(m, a) + Depth(m, b) = base[Len(cf) + 1] + Depth(m, b)
  BY <1>1, <1>2
<1>5. Depth(m, a) <= d
  BY <1>1, <1>2
<1>6. OperandsAbove(m, cf, b, d - Depth(m, a) + Depth(m, b), base)
  BY <1>3, <1>4 DEF OperandsAbove
<1> QED
  BY <1>5, <1>6

LEMMA FramesStay ==
  ASSUME NEW m, NEW S, NEW cf \in Seq(S), NEW a, NEW b,
         m.before[b].fn = m.before[a].fn, m.before[b].framed = m.before[a].framed,
         NEW lt, NEW lf, NEW low, NEW nf, FramesAbove(m, cf, a, lt, lf, low, nf)
  PROVE  FramesAbove(m, cf, b, lt, lf, low, nf)
<1>1. FrameSize(m, b) = FrameSize(m, a) /\ FrameCount(m, b) = FrameCount(m, a)
  BY DEF FrameSize, FrameCount
<1>2. \A i \in Levels(cf) : FrameCount(m, Site(cf, b, i)) = FrameCount(m, Site(cf, a, i))
  BY <1>1 DEF Site
<1> QED
  BY <1>1, <1>2 DEF FramesAbove

\* Alloc_Locals: the activation gets its frame, on top.
LEMMA FrameAllocated ==
  ASSUME NEW m, Measured(m), NEW S, NEW cf \in Seq(S),
         NEW a \in DOMAIN m.before, NEW b \in DOMAIN m.before,
         FrameCount(m, a) = 0, FrameSize(m, a) = 0, FrameCount(m, b) = 1,
         NEW lt, NEW lf, NEW low, NEW nf, FramesAbove(m, cf, a, lt, lf, low, nf)
  PROVE  /\ lt \in Nat
         /\ FramesAbove(m, cf, b, lt + FrameSize(m, b), Append(lf, lt), low, nf)
<1> DEFINE n == Len(cf)
<1>1. n \in Nat /\ n + 1 \in Levels(cf) /\ FrameSize(m, b) \in Nat
  BY DEF Levels, Measured
<1>2. low[n + 1] \in Nat /\ nf[n + 1] \in Nat /\ lt = low[n + 1] /\ Len(lf) = nf[n + 1]
  BY <1>1 DEF FramesAbove
<1>3. lt \in Nat /\ lf \in Seq(Nat)
  BY <1>2 DEF FramesAbove
<1>4. /\ Append(lf, lt) \in Seq(Nat) /\ Len(Append(lf, lt)) = nf[n + 1] + 1
      /\ Append(lf, lt)[nf[n + 1] + 1] = lt
      /\ \A k \in 1 .. nf[n + 1] : Append(lf, lt)[k] = lf[k]
  BY <1>2, <1>3
<1>5. ASSUME NEW i \in Levels(cf), FrameCount(m, Site(cf, b, i)) = 1
      PROVE  Append(lf, lt)[nf[i] + 1] = low[i]
  <2>1. CASE i = n + 1
    BY <2>1, <1>2, <1>4
  <2>2. CASE i # n + 1
    <3>1. i \in 1 .. n /\ i < n + 1
      BY <2>2, <1>1 DEF Levels
    <3>2. Site(cf, b, i) = cf[i] /\ Site(cf, a, i) = cf[i]
      BY <3>1 DEF Site
    <3>3. nf[i] + 1 <= nf[n + 1] /\ nf[i] \in Nat
      BY <3>1, <3>2, <1>1, <1>5 DEF FramesAbove
    <3>4. lf[nf[i] + 1] = low[i]
      BY <3>2, <1>5 DEF FramesAbove
    <3> QED
      BY <3>3, <3>4, <1>2, <1>4
  <2> QED
    BY <2>1, <2>2
<1>6. FramesAbove(m, cf, b, lt + FrameSize(m, b), Append(lf, lt), low, nf)
  BY <1>2, <1>4, <1>5 DEF FramesAbove
<1> QED
  BY <1>3, <1>6

-----------------------------------------------------------------------------
(* A call: the caller is left at r, the callee begins at b.                *)

LEMMA SitesOfCall ==
  ASSUME NEW m, NEW cf \in Seq(DOMAIN m.before), NEW r \in DOMAIN m.before,
         NEW b \in DOMAIN m.before
  PROVE  /\ Append(cf, r) \in Seq(DOMAIN m.before) /\ Len(Append(cf, r)) = Len(cf) + 1
         /\ Levels(Append(cf, r)) = Levels(cf) \cup {Len(cf) + 2}
         /\ \A i \in 1 .. Len(cf) : Append(cf, r)[i] = cf[i]
         /\ Append(cf, r)[Len(cf) + 1] = r
         /\ \A i \in Levels(cf) : Site(Append(cf, r), b, i) = Site(cf, r, i)
         /\ Site(Append(cf, r), b, Len(cf) + 2) = b
<1>1. Append(cf, r) \in Seq(DOMAIN m.before) /\ Len(Append(cf, r)) = Len(cf) + 1 /\ Len(cf) \in Nat
  OBVIOUS
<1>2. (\A i \in 1 .. Len(cf) : Append(cf, r)[i] = cf[i]) /\ Append(cf, r)[Len(cf) + 1] = r
  OBVIOUS
<1>3. Levels(Append(cf, r)) = Levels(cf) \cup {Len(cf) + 2}
  BY <1>1 DEF Levels
<1>4. \A i \in Levels(cf) : Site(Append(cf, r), b, i) = Site(cf, r, i)
  BY <1>1, <1>2 DEF Levels, Site
<1>5. Site(Append(cf, r), b, Len(cf) + 2) = b
  BY <1>1 DEF Site
<1> QED
  BY <1>1, <1>2, <1>3, <1>4, <1>5

LEMMA ActivationsCall ==
  ASSUME NEW m, NEW cf \in Seq(DOMAIN m.before), NEW a,
         NEW r \in DOMAIN m.before, NEW b \in DOMAIN m.before,
         Activations(m, cf, a), FnOf(m, r) = FnOf(m, a), FnOf(m, b) # Main
  PROVE  Activations(m, Append(cf, r), b)
<1>1. Activations(m, cf, r)
  BY ActivationsStay
<1>2. /\ Levels(Append(cf, r)) = Levels(cf) \cup {Len(cf) + 2}
      /\ \A i \in Levels(cf) : Site(Append(cf, r), b, i) = Site(cf, r, i)
      /\ Site(Append(cf, r), b, Len(cf) + 2) = b
  BY SitesOfCall
<1>3. Len(cf) + 2 # 1
  OBVIOUS
<1> QED
  BY <1>1, <1>2, <1>3 DEF Activations

\* The callee finds its arguments above what the caller is left with; when it
\* returns, its results are there in their place.
LEMMA OperandsCall ==
  ASSUME NEW m, Measured(m), NEW cf \in Seq(DOMAIN m.before),
         NEW r \in DOMAIN m.before, NEW b \in DOMAIN m.before,
         NEW d \in Nat, NEW base, OperandsAbove(m, cf, r, d, base),
         Results(m, b) <= Depth(m, r)
  PROVE  \E base2 : OperandsAbove(m, Append(cf, r), b,
                                  d - Results(m, b) + Depth(m, b), base2)
<1> DEFINE n == Len(cf)
           top == base[n + 1] + Depth(m, r) - Results(m, b)
           base2 == [i \in Levels(Append(cf, r)) |-> IF i <= n + 1 THEN base[i] ELSE top]
<1>1. n \in Nat /\ n + 1 \in Levels(cf) /\ 1 \in Levels(cf)
  BY DEF Levels
<1>2. /\ Levels(Append(cf, r)) = Levels(cf) \cup {n + 2}
      /\ Len(Append(cf, r)) = n + 1
      /\ \A i \in 1 .. n : Append(cf, r)[i] = cf[i]
      /\ Append(cf, r)[n + 1] = r
      /\ \A i \in Levels(cf) : Site(Append(cf, r), b, i) = Site(cf, r, i)
      /\ Site(Append(cf, r), b, n + 2) = b
  BY SitesOfCall
<1>3. /\ Depth(m, r) \in Nat /\ Depth(m, b) \in Nat /\ Results(m, b) \in Nat
      /\ base \in [Levels(cf) -> Nat]
  BY DEF Measured, OperandsAbove
<1>4. d = base[n + 1] + Depth(m, r) /\ base[n + 1] \in Nat
  BY <1>1, <1>3 DEF OperandsAbove
<1>5. top \in Nat /\ top = d - Results(m, b)
  BY <1>3, <1>4
<1>6. \A i \in Levels(cf) : base2[i] = base[i]
  BY <1>1, <1>2 DEF Levels
<1>7. base2[n + 2] = top
  BY <1>1, <1>2
<1>8. base2 \in [Levels(Append(cf, r)) -> Nat]
  BY <1>1, <1>2, <1>3, <1>5 DEF Levels
<1> HIDE DEF base2, top
<1>9. ASSUME NEW i \in 1 .. Len(Append(cf, r))
      PROVE  /\ Results(m, Site(Append(cf, r), b, i + 1)) <= Depth(m, Append(cf, r)[i])
             /\ base2[i + 1] = base2[i] + Depth(m, Append(cf, r)[i])
                                        - Results(m, Site(Append(cf, r), b, i + 1))
  <2>1. CASE i = n + 1
    <3>1. i + 1 = n + 2 /\ base2[i] = base[n + 1]
      BY <2>1, <1>1, <1>6
    <3> QED
      BY <3>1, <2>1, <1>2, <1>7 DEF top
  <2>2. CASE i # n + 1
    <3>1. i \in 1 .. n /\ i \in Levels(cf) /\ i + 1 \in Levels(cf)
      BY <2>2, <1>1, <1>2 DEF Levels
    <3>2. /\ Results(m, Site(cf, r, i + 1)) <= Depth(m, cf[i])
          /\ base[i + 1] = base[i] + Depth(m, cf[i]) - Results(m, Site(cf, r, i + 1))
      BY <3>1 DEF OperandsAbove
    <3> QED
      BY <3>1, <3>2, <1>2, <1>6
  <2> QED
    BY <2>1, <2>2
<1>10. d - Results(m, b) + Depth(m, b) = base2[Len(Append(cf, r)) + 1] + Depth(m, b)
  <2>1. Len(Append(cf, r)) + 1 = n + 2
    BY <1>1, <1>2
  <2> QED
    BY <2>1, <1>5, <1>7
<1>11. base2[1] = 0
  BY <1>1, <1>6 DEF OperandsAbove
<1>12. OperandsAbove(m, Append(cf, r), b, d - Results(m, b) + Depth(m, b), base2)
  BY <1>8, <1>9, <1>10, <1>11 DEF OperandsAbove
<1> QED
  BY <1>12

\* The callee has no frame yet.
LEMMA FramesCall ==
  ASSUME NEW m, Measured(m), NEW cf \in Seq(DOMAIN m.before),
         NEW r \in DOMAIN m.before, NEW b \in DOMAIN m.before,
         FrameCount(m, b) = 0, FrameSize(m, b) = 0,
         NEW lt, NEW lf, NEW low, NEW nf, FramesAbove(m, cf, r, lt, lf, low, nf)
  PROVE  \E low2, nf2 : FramesAbove(m, Append(cf, r), b, lt, lf, low2, nf2)
<1> DEFINE n == Len(cf)
           cg == Append(cf, r)
           low2 == [i \in Levels(cg) |-> IF i <= n + 1 THEN low[i] ELSE lt]
           nf2 == [i \in Levels(cg) |-> IF i <= n + 1 THEN nf[i] ELSE Len(lf)]
<1>1. n \in Nat /\ n + 1 \in Levels(cf) /\ 1 \in Levels(cf) /\ n + 2 \notin Levels(cf)
  BY DEF Levels
<1>2. /\ Levels(cg) = Levels(cf) \cup {n + 2}
      /\ Len(cg) = n + 1
      /\ \A i \in 1 .. n : cg[i] = cf[i]
      /\ cg[n + 1] = r
      /\ \A i \in Levels(cf) : Site(cg, b, i) = Site(cf, r, i)
      /\ Site(cg, b, n + 2) = b
  BY SitesOfCall
<1>3. /\ FrameSize(m, r) \in Nat /\ FrameCount(m, r) \in Nat
      /\ low \in [Levels(cf) -> Nat] /\ nf \in [Levels(cf) -> Nat] /\ lf \in Seq(Nat)
  <2>1. FrameSize(m, r) \in Nat /\ FrameCount(m, r) \in Nat
    BY DEF Measured
  <2>2. low \in [Levels(cf) -> Nat] /\ nf \in [Levels(cf) -> Nat] /\ lf \in Seq(Nat)
    BY DEF FramesAbove
  <2> QED
    BY <2>1, <2>2
<1>4. /\ lt = low[n + 1] + FrameSize(m, r) /\ low[n + 1] \in Nat
      /\ Len(lf) = nf[n + 1] + FrameCount(m, r) /\ nf[n + 1] \in Nat
  BY <1>1, <1>3 DEF FramesAbove
<1>5. lt \in Nat /\ Len(lf) \in Nat
  BY <1>3, <1>4
<1>6. \A i \in Levels(cf) : low2[i] = low[i] /\ nf2[i] = nf[i]
  BY <1>1, <1>2 DEF Levels
<1>7. low2[n + 2] = lt /\ nf2[n + 2] = Len(lf)
  BY <1>1, <1>2
<1>8. low2 \in [Levels(cg) -> Nat] /\ nf2 \in [Levels(cg) -> Nat]
  BY <1>1, <1>2, <1>3, <1>5 DEF Levels
<1> HIDE DEF low2, nf2, cg
<1>9. ASSUME NEW i \in 1 .. Len(cg)
      PROVE  /\ low2[i + 1] = low2[i] + FrameSize(m, cg[i])
             /\ nf2[i + 1] = nf2[i] + FrameCount(m, cg[i])
  <2>1. CASE i = n + 1
    <3>1. i + 1 = n + 2
      BY <2>1, <1>1
    <3> QED
      BY <3>1, <2>1, <1>1, <1>2, <1>4, <1>6, <1>7
  <2>2. CASE i # n + 1
    <3>1. i \in 1 .. n /\ i \in Levels(cf) /\ i + 1 \in Levels(cf)
      BY <2>2, <1>1, <1>2 DEF Levels
    <3>2. low[i + 1] = low[i] + FrameSize(m, cf[i]) /\ nf[i + 1] = nf[i] + FrameCount(m, cf[i])
      BY <3>1 DEF FramesAbove
    <3> QED
      BY <3>1, <3>2, <1>2, <1>6
  <2> QED
    BY <2>1, <2>2
<1>10. ASSUME NEW i \in Levels(cg), NEW j \in Levels(cg), i < j
       PROVE  nf2[i] + FrameCount(m, cg[i]) <= nf2[j]
  <2>1. i \in Levels(cf)
    BY <1>1, <1>2, <1>10 DEF Levels
  <2>2. CASE j \in Levels(cf)
    <3>1. i \in 1 .. n
      BY <2>1, <2>2, <1>1, <1>10 DEF Levels
    <3>2. nf[i] + FrameCount(m, cf[i]) <= nf[j]
      BY <2>1, <2>2, <1>10 DEF FramesAbove
    <3> QED
      BY <2>1, <2>2, <3>1, <3>2, <1>2, <1>6
  <2>3. CASE j = n + 2
    <3>1. CASE i = n + 1
      BY <3>1, <2>1, <2>3, <1>2, <1>3, <1>4, <1>6, <1>7
    <3>2. CASE i # n + 1
      <4>1. i \in 1 .. n /\ i < n + 1
        BY <3>2, <2>1, <1>1 DEF Levels
      <4>2. nf[i] + FrameCount(m, cf[i]) <= nf[n + 1]
        BY <4>1, <2>1, <1>1 DEF FramesAbove
      <4>3. nf2[i] + FrameCount(m, cg[i]) <= nf[n + 1]
        BY <4>1, <4>2, <2>1, <1>2, <1>6
      <4>4. nf[n + 1] <= nf2[j]
        BY <2>3, <1>3, <1>4, <1>7
      <4>5. nf2[i] \in Nat /\ nf2[j] \in Nat /\ FrameCount(m, cg[i]) \in {0, 1}
        BY <1>8 DEF FrameCount
      <4> QED
        BY <4>3, <4>4, <4>5, <1>4
    <3> QED
      BY <3>1, <3>2
  <2> QED
    BY <2>2, <2>3, <1>2
<1>11. ASSUME NEW i \in Levels(cg), FrameCount(m, Site(cg, b, i)) = 1
       PROVE  lf[nf2[i] + 1] = low2[i]
  <2>1. i \in Levels(cf)
    BY <1>2, <1>11
  <2>2. lf[nf[i] + 1] = low[i]
    BY <2>1, <1>2, <1>11 DEF FramesAbove
  <2> QED
    BY <2>1, <2>2, <1>6
<1>12. Len(cg) + 1 = n + 2
  BY <1>1, <1>2
<1>13. /\ lt = low2[Len(cg) + 1] + FrameSize(m, b)
       /\ Len(lf) = nf2[Len(cg) + 1] + FrameCount(m, b)
  BY <1>5, <1>7, <1>12
<1>14. low2[1] = 0 /\ nf2[1] = 0
  BY <1>1, <1>6 DEF FramesAbove
<1>15. FramesAbove(m, cg, b, lt, lf, low2, nf2)
  BY <1>3, <1>8, <1>9, <1>10, <1>11, <1>13, <1>14 DEF FramesAbove
<1> QED
  BY <1>15 DEF cg

-----------------------------------------------------------------------------
(* A return: what is left are the other activations, as they were.         *)

LEMMA FrontKeeps ==
  ASSUME NEW S, NEW s \in Seq(S), s # <<>>
  PROVE  /\ Front(s) \in Seq(S) /\ Len(Front(s)) = Len(s) - 1
         /\ \A i \in 1 .. Len(s) - 1 : Front(s)[i] = s[i]
<1> DEFINE n == Len(s) - 1
<1>1. n \in Nat /\ \A i \in 1 .. n : s[i] \in S
  OBVIOUS
<1>2. Front(s) = SubSeq(s, 1, n)
  BY DEF Front
<1>3. /\ Front(s) \in Seq(S) /\ Len(Front(s)) = n
      /\ \A i \in 1 .. n : Front(s)[i] = s[i]
  <2> HIDE DEF n
  <2>1. /\ SubSeq(s, 1, n) \in Seq(S)
        /\ Len(SubSeq(s, 1, n)) = IF 1 <= n THEN n - 1 + 1 ELSE 0
        /\ \A i \in 1 .. n - 1 + 1 : SubSeq(s, 1, n)[i] = s[1 + i - 1]
    BY <1>1, SubSeqProperties, SMTT(30)
  <2> QED
    BY <1>1, <1>2, <2>1
<1> QED
  BY <1>3

LEMMA SitesOfReturn ==
  ASSUME NEW m, NEW cf \in Seq(DOMAIN m.before), cf # <<>>,
         NEW a \in DOMAIN m.before
  PROVE  /\ Front(cf) \in Seq(DOMAIN m.before) /\ Last(cf) \in DOMAIN m.before
         /\ Len(cf) \in Nat \ {0} /\ Len(Front(cf)) + 1 = Len(cf)
         /\ Levels(Front(cf)) = 1 .. Len(cf) /\ Levels(Front(cf)) \subseteq Levels(cf)
         /\ Last(cf) = cf[Len(cf)]
         /\ \A i \in 1 .. Len(cf) - 1 : Front(cf)[i] = cf[i]
         /\ \A i \in 1 .. Len(cf) : /\ Site(Front(cf), Last(cf), i) = cf[i]
                                    /\ Site(cf, a, i) = cf[i]
<1>1. Len(cf) \in Nat /\ Len(cf) # 0
  OBVIOUS
<1>2. Last(cf) = cf[Len(cf)] /\ Last(cf) \in DOMAIN m.before
  BY <1>1 DEF Last
<1>3. /\ Front(cf) \in Seq(DOMAIN m.before) /\ Len(Front(cf)) = Len(cf) - 1
      /\ \A i \in 1 .. Len(cf) - 1 : Front(cf)[i] = cf[i]
  BY FrontKeeps
<1>4. Levels(Front(cf)) = 1 .. Len(cf) /\ Levels(Front(cf)) \subseteq Levels(cf)
  BY <1>1, <1>3 DEF Levels
<1>5. \A i \in 1 .. Len(cf) : Site(Front(cf), Last(cf), i) = cf[i] /\ Site(cf, a, i) = cf[i]
  BY <1>1, <1>2, <1>3 DEF Site
<1> QED
  BY <1>1, <1>2, <1>3, <1>4, <1>5

LEMMA ActivationsReturn ==
  ASSUME NEW m, NEW cf \in Seq(DOMAIN m.before), cf # <<>>,
         NEW a \in DOMAIN m.before, Activations(m, cf, a)
  PROVE  Activations(m, Front(cf), Last(cf))
<1>1. /\ Levels(Front(cf)) = 1 .. Len(cf) /\ Levels(Front(cf)) \subseteq Levels(cf)
      /\ \A i \in 1 .. Len(cf) : /\ Site(Front(cf), Last(cf), i) = cf[i]
                                 /\ Site(cf, a, i) = cf[i]
  BY SitesOfReturn
<1> QED
  BY <1>1 DEF Activations

\* The results stay, where the caller's stack map has them.
LEMMA OperandsReturn ==
  ASSUME NEW m, Measured(m), NEW cf \in Seq(DOMAIN m.before), cf # <<>>,
         NEW a \in DOMAIN m.before, Depth(m, a) = Results(m, a),
         NEW d, NEW base, OperandsAbove(m, cf, a, d, base)
  PROVE  \E base2 : OperandsAbove(m, Front(cf), Last(cf), d, base2)
<1> DEFINE n == Len(cf)
           base2 == [i \in 1 .. n |-> base[i]]
<1>1. /\ Last(cf) \in DOMAIN m.before
      /\ n \in Nat \ {0} /\ Len(Front(cf)) + 1 = n
      /\ Levels(Front(cf)) = 1 .. n /\ Levels(Front(cf)) \subseteq Levels(cf)
      /\ Last(cf) = cf[n]
      /\ \A i \in 1 .. n - 1 : Front(cf)[i] = cf[i]
      /\ \A i \in 1 .. n : /\ Site(Front(cf), Last(cf), i) = cf[i]
                           /\ Site(cf, a, i) = cf[i]
  BY SitesOfReturn
<1>2. base \in [Levels(cf) -> Nat] /\ base[1] = 0
  BY DEF OperandsAbove
<1>3. base2 \in [Levels(Front(cf)) -> Nat] /\ \A i \in 1 .. n : base2[i] = base[i]
  BY <1>1, <1>2
<1> HIDE DEF base2
<1>4. Len(Front(cf)) = n - 1 /\ Len(Front(cf)) \in Nat
  BY <1>1
<1>5. ASSUME NEW i \in 1 .. Len(Front(cf))
      PROVE  /\ Results(m, Site(Front(cf), Last(cf), i + 1)) <= Depth(m, Front(cf)[i])
             /\ base2[i + 1] = base2[i] + Depth(m, Front(cf)[i])
                                        - Results(m, Site(Front(cf), Last(cf), i + 1))
  <2>1. i \in 1 .. n - 1 /\ i \in 1 .. n /\ i + 1 \in 1 .. n
    BY <1>1, <1>4
  <2>2. /\ Results(m, Site(cf, a, i + 1)) <= Depth(m, cf[i])
        /\ base[i + 1] = base[i] + Depth(m, cf[i]) - Results(m, Site(cf, a, i + 1))
    BY <2>1 DEF OperandsAbove
  <2> QED
    BY <2>1, <2>2, <1>1, <1>3
<1>6. d = base2[Len(Front(cf)) + 1] + Depth(m, Last(cf))
  <2>1. n \in 1 .. n /\ Site(cf, a, n + 1) = a
    BY <1>1 DEF Site
  <2>2. base[n + 1] = base[n] + Depth(m, cf[n]) - Results(m, a)
    BY <2>1 DEF OperandsAbove
  <2>3. d = base[n + 1] + Depth(m, a)
    BY DEF OperandsAbove
  <2>4. base[n] \in Nat /\ Depth(m, cf[n]) \in Nat /\ Results(m, a) \in Nat
    BY <1>1, <1>2, <2>1 DEF Measured
  <2>5. d = base[n] + Depth(m, cf[n])
    BY <2>2, <2>3, <2>4
  <2> QED
    BY <2>1, <2>5, <1>1, <1>3
<1>7. base2[1] = 0
  BY <1>1, <1>2, <1>3
<1>8. OperandsAbove(m, Front(cf), Last(cf), d, base2)
  BY <1>3, <1>5, <1>6, <1>7 DEF OperandsAbove
<1> QED
  BY <1>8

\* lf2 is lf without the frame of the activation that ends, if it had one.
LEMMA FramesReturn ==
  ASSUME NEW m, Measured(m), NEW cf \in Seq(DOMAIN m.before), cf # <<>>,
         NEW a \in DOMAIN m.before, NEW lt, NEW lf, NEW low, NEW nf,
         FramesAbove(m, cf, a, lt, lf, low, nf),
         NEW lf2 \in Seq(Nat), Len(lf2) = Len(lf) - FrameCount(m, a),
         \A k \in 1 .. Len(lf2) : lf2[k] = lf[k]
  PROVE  \E low2, nf2 : FramesAbove(m, Front(cf), Last(cf), lt - FrameSize(m, a), lf2, low2, nf2)
<1> DEFINE n == Len(cf)
           low2 == [i \in 1 .. n |-> low[i]]
           nf2 == [i \in 1 .. n |-> nf[i]]
<1>0. cf \in Seq(DOMAIN m.before) /\ cf # <<>> /\ a \in DOMAIN m.before
  OBVIOUS
<1>1. /\ Last(cf) \in DOMAIN m.before
      /\ n \in Nat \ {0} /\ Len(Front(cf)) + 1 = n
      /\ Levels(Front(cf)) = 1 .. n /\ Levels(Front(cf)) \subseteq Levels(cf)
      /\ Last(cf) = cf[n]
      /\ \A i \in 1 .. n - 1 : Front(cf)[i] = cf[i]
      /\ \A i \in 1 .. n : /\ Site(Front(cf), Last(cf), i) = cf[i]
                           /\ Site(cf, a, i) = cf[i]
  BY ONLY <1>0, SitesOfReturn
<1>2. low \in [Levels(cf) -> Nat] /\ nf \in [Levels(cf) -> Nat] /\ low[1] = 0 /\ nf[1] = 0
  BY DEF FramesAbove
<1>3. low2 \in [Levels(Front(cf)) -> Nat] /\ nf2 \in [Levels(Front(cf)) -> Nat]
  BY <1>1, <1>2
<1>4. \A i \in 1 .. n : low2[i] = low[i] /\ nf2[i] = nf[i]
  OBVIOUS
<1> HIDE DEF low2, nf2
<1>5. n \in 1 .. n /\ n + 1 \in Levels(cf) /\ Len(Front(cf)) = n - 1
  BY <1>1 DEF Levels
<1>6. /\ low[n + 1] = low[n] + FrameSize(m, cf[n])
      /\ nf[n + 1] = nf[n] + FrameCount(m, cf[n])
      /\ lt = low[n + 1] + FrameSize(m, a)
      /\ Len(lf) = nf[n + 1] + FrameCount(m, a)
  BY <1>5 DEF FramesAbove
<1>7. /\ low[n] \in Nat /\ nf[n] \in Nat /\ low[n + 1] \in Nat /\ nf[n + 1] \in Nat
  BY <1>2, <1>5, <1>1
<1>8. FrameSize(m, a) \in Nat /\ FrameCount(m, a) \in {0, 1}
  BY DEF Measured
<1>9. lt - FrameSize(m, a) = low2[n] + FrameSize(m, cf[n])
  <2>1. PICK k \in Nat, c \in Nat : low[n + 1] = k /\ FrameSize(m, a) = c
    BY <1>7, <1>8
  <2>2. lt - FrameSize(m, a) = (k + c) - c
    BY <2>1, <1>6
  <2>3. lt - FrameSize(m, a) = low[n] + FrameSize(m, cf[n])
    BY <2>1, <2>2, <1>6
  <2> QED
    BY <2>3, <1>4, <1>5
<1>10. Len(lf2) = nf[n + 1]
  <2>1. PICK k \in Nat, c \in {0, 1} : nf[n + 1] = k /\ FrameCount(m, a) = c
    BY <1>7, <1>8
  <2>2. Len(lf2) = (k + c) - c
    BY <2>1, <1>6
  <2> QED
    BY <2>1, <2>2
<1>11. Len(lf2) = nf2[n] + FrameCount(m, cf[n])
  BY <1>4, <1>5, <1>6, <1>10
<1>12. ASSUME NEW i \in 1 .. Len(Front(cf))
       PROVE  /\ low2[i + 1] = low2[i] + FrameSize(m, Front(cf)[i])
              /\ nf2[i + 1] = nf2[i] + FrameCount(m, Front(cf)[i])
  <2>1. i \in 1 .. n - 1 /\ i \in 1 .. n /\ i + 1 \in 1 .. n
    BY <1>1, <1>5
  <2>2. low[i + 1] = low[i] + FrameSize(m, cf[i]) /\ nf[i + 1] = nf[i] + FrameCount(m, cf[i])
    BY <2>1 DEF FramesAbove
  <2> QED
    BY <2>1, <2>2, <1>1, <1>4
<1>13. ASSUME NEW i \in 1 .. n, NEW j \in 1 .. n, i < j
       PROVE  nf2[i] + FrameCount(m, Front(cf)[i]) <= nf2[j]
  <2>1. i \in 1 .. n - 1 /\ i \in Levels(cf) /\ j \in Levels(cf)
    BY <1>1, <1>13 DEF Levels
  <2>2. nf[i] + FrameCount(m, cf[i]) <= nf[j]
    BY <2>1, <1>13 DEF FramesAbove
  <2> QED
    BY <2>1, <2>2, <1>1, <1>4
<1>14. ASSUME NEW i \in 1 .. n, FrameCount(m, cf[i]) = 1
       PROVE  lf2[nf2[i] + 1] = low2[i]
  <2>1. i \in Levels(cf) /\ i < n + 1
    BY <1>1 DEF Levels
  <2>2. nf[i] + FrameCount(m, cf[i]) <= nf[n + 1]
    BY <2>1, <1>5 DEF FramesAbove
  <2>3. nf[i] + 1 \in 1 .. Len(lf2)
    BY <2>1, <2>2, <1>2, <1>7, <1>10, <1>14
  <2>4. lf[nf[i] + 1] = low[i]
    BY <2>1, <1>1, <1>14 DEF FramesAbove
  <2> QED
    BY <2>3, <2>4, <1>4
<1>15. low2[1] = 0 /\ nf2[1] = 0
  <2>1. 1 \in 1 .. n
    BY <1>1
  <2> QED
    BY <2>1, <1>2, <1>4
<1>16. FramesAbove(m, Front(cf), Last(cf), lt - FrameSize(m, a), lf2, low2, nf2)
  <2>1. \A i \in Levels(Front(cf)) :
           FrameCount(m, Site(Front(cf), Last(cf), i)) = 1 => lf2[nf2[i] + 1] = low2[i]
    BY <1>1, <1>14
  <2>2. \A i, j \in Levels(Front(cf)) :
           i < j => nf2[i] + FrameCount(m, Front(cf)[i]) <= nf2[j]
    BY <1>1, <1>13
  <2>3. /\ lt - FrameSize(m, a) = low2[Len(Front(cf)) + 1] + FrameSize(m, Last(cf))
        /\ Len(lf2) = nf2[Len(Front(cf)) + 1] + FrameCount(m, Last(cf))
    BY <1>1, <1>9, <1>11
  <2> QED
    BY <2>1, <2>2, <2>3, <1>3, <1>12, <1>15 DEF FramesAbove
<1> QED
  BY <1>16

-----------------------------------------------------------------------------
(***************************************************************************)
(* The inductive invariant.                                                *)
(***************************************************************************)
MapOfThis == StackMapOf(prog)

\* As long as the program runs the activations account for all there is.
Accounted ==
    /\ \E S : data \in Seq(S)
    /\ call_frames \in Seq(DOMAIN MapOfThis.before)
    /\ Activations(MapOfThis, call_frames, ip)
    /\ \E base : OperandsAbove(MapOfThis, call_frames, ip, Len(data), base)
    /\ \E low, nf : FramesAbove(MapOfThis, call_frames, ip, locals_top, locals_frames, low, nf)

\* current_locals() is the frame on top.
FastIsCurrent == fast_locals = IF locals_frames = <<>> THEN 0 ELSE Last(locals_frames)

ReturnsFollowCalls ==
    \A r \in ToSet(call_frames) :
       \E a \in DOMAIN code : code[a].op \in {"Call", "Call_Dyn"} /\ code[a].next = r

NothingYet ==
    /\ ip = 0 /\ data = <<>> /\ call_frames = <<>>
    /\ locals_top = 0 /\ locals_frames = <<>> /\ fast_locals = 0

IInv ==
    /\ status = "source" => NothingYet
    /\ status = "running" => Accounted /\ FastIsCurrent /\ ReturnsFollowCalls
    /\ StacksEmptied

-----------------------------------------------------------------------------
(* What holds where the machine is.                                        *)

LEMMA MapMeasured ==
  ASSUME CodeMapped, status = "running"
  PROVE  /\ Measured(MapOfThis) /\ DOMAIN MapOfThis.before = Reached
         /\ Reached \subseteq DOMAIN code
<1>1. MapTyped
  BY DEF CodeMapped
<1>2. ASSUME NEW a \in Reached
      PROVE  /\ Depth(MapOfThis, a) \in Nat /\ Results(MapOfThis, a) \in Nat
             /\ FrameCount(MapOfThis, a) \in {0, 1} /\ FrameSize(MapOfThis, a) \in Nat
  <2>1. Before(a).depth \in Nat /\ Before(a).fn \in FnEntries \cup {Main}
    BY <1>1 DEF MapTyped
  <2>2. Function(Before(a).fn).results \in Nat /\ Function(Before(a).fn).slots \in Nat
    BY <1>1, <2>1 DEF MapTyped
  <2> QED
    BY <2>1, <2>2
    DEF Depth, Results, FrameCount, FrameSize, MapOfThis, Before, Function
<1> QED
  BY <1>1, <1>2 DEF Measured, MapOfThis, Reached, MapTyped

LEMMA Here ==
  ASSUME CodeMapped, status = "running", Accounted
  PROVE  /\ ip \in Reached /\ ip \in DOMAIN code
         /\ StraightMapped(ip) /\ BranchesMapped(ip) /\ CallsMapped(ip)
         /\ Before(ip).depth \in Nat /\ Len(data) \in Nat /\ Before(ip).depth <= Len(data)
<1>1. Measured(MapOfThis) /\ DOMAIN MapOfThis.before = Reached /\ Reached \subseteq DOMAIN code
  BY MapMeasured
<1>2. /\ call_frames \in Seq(DOMAIN MapOfThis.before)
      /\ Activations(MapOfThis, call_frames, ip)
  BY DEF Accounted
<1>3. Len(call_frames) + 1 \in Levels(call_frames) /\ Len(call_frames) \in Nat
  BY <1>2 DEF Levels
<1>4. Site(call_frames, ip, Len(call_frames) + 1) = ip
  BY <1>3 DEF Site
<1>5. ip \in Reached
  BY <1>1, <1>2, <1>3, <1>4 DEF Activations
<1>6. PICK S : data \in Seq(S)
  BY DEF Accounted
<1>7. Len(data) \in Nat
  BY <1>6
<1>8. PICK base : OperandsAbove(MapOfThis, call_frames, ip, Len(data), base)
  BY DEF Accounted
<1>9. Depth(MapOfThis, ip) <= Len(data)
  BY <1>1, <1>2, <1>5, <1>7, <1>8, OperandsStay
<1>10. Before(ip).depth = Depth(MapOfThis, ip) /\ Depth(MapOfThis, ip) \in Nat
  BY <1>1, <1>5 DEF Before, Depth, MapOfThis, Measured
<1> QED
  BY <1>1, <1>5, <1>7, <1>9, <1>10 DEF CodeMapped

\* An activation that goes on within its function: its stack map says what
\* becomes of its operands, and everything else stays.
LEMMA GoesOn ==
  ASSUME CodeMapped, status = "running", Accounted,
         UNCHANGED <<prog, call_frames, locals_top, locals_frames>>,
         NEW b, ip' = b, NEW d, Flows(ip, b, d, Before(ip).framed),
         NEW S, NEW seq \in Seq(S), data' = seq, Len(seq) = Len(data) - Before(ip).depth + d
  PROVE  Accounted'
<1> DEFINE m == MapOfThis
           cf == call_frames
<1>1. Measured(m) /\ DOMAIN m.before = Reached
  BY MapMeasured
<1>2. ip \in Reached /\ Len(data) \in Nat
  BY Here
<1>3. b \in Reached /\ Before(b) = [fn |-> Before(ip).fn, depth |-> d, framed |-> Before(ip).framed]
  BY DEF Flows
<1>4. /\ FnOf(m, b) = FnOf(m, ip) /\ m.before[b].framed = m.before[ip].framed
      /\ Depth(m, b) = d /\ Depth(m, ip) = Before(ip).depth
  BY <1>3 DEF FnOf, Depth, MapOfThis, Before
<1>5. cf \in Seq(DOMAIN m.before) /\ Activations(m, cf, ip)
  BY DEF Accounted
<1>6. Activations(m, cf, b)
  BY <1>1, <1>3, <1>4, <1>5, ActivationsStay
<1>7. PICK base : OperandsAbove(m, cf, ip, Len(data), base)
  BY DEF Accounted
<1>8. OperandsAbove(m, cf, b, Len(seq), base)
  BY <1>1, <1>2, <1>3, <1>4, <1>5, <1>7, OperandsStay
<1>9. PICK low, nf : FramesAbove(m, cf, ip, locals_top, locals_frames, low, nf)
  BY DEF Accounted
<1>10. FramesAbove(m, cf, b, locals_top, locals_frames, low, nf)
  BY <1>4, <1>5, <1>9, FramesStay DEF FnOf
<1>11. /\ MapOfThis' = m /\ call_frames' = cf /\ ip' = b /\ data' = seq
       /\ locals_top' = locals_top /\ locals_frames' = locals_frames
  BY DEF MapOfThis
<1> QED
  BY <1>5, <1>6, <1>8, <1>10, <1>11 DEF Accounted

LEMMA BelowKeeps ==
  ASSUME NEW S, data \in Seq(S), NEW n \in Nat, n <= Len(data)
  PROVE  /\ Below(n) \in Seq(S) /\ Len(Below(n)) = Len(data) - n
         /\ \A i \in 1 .. Len(data) - n : Below(n)[i] = data[i]
<1> DEFINE k == Len(data) - n
<1>1. k \in Nat /\ \A i \in 1 .. k : data[i] \in S
  OBVIOUS
<1>2. Below(n) = SubSeq(data, 1, k)
  BY DEF Below
<1>3. /\ Below(n) \in Seq(S) /\ Len(Below(n)) = k
      /\ \A i \in 1 .. k : Below(n)[i] = data[i]
  <2> HIDE DEF k
  <2>1. /\ SubSeq(data, 1, k) \in Seq(S)
        /\ Len(SubSeq(data, 1, k)) = IF 1 <= k THEN k - 1 + 1 ELSE 0
        /\ \A i \in 1 .. k - 1 + 1 : SubSeq(data, 1, k)[i] = data[1 + i - 1]
    BY <1>1, SubSeqProperties, SMTT(30)
  <2> QED
    BY <1>1, <1>2, <2>1
<1> QED
  BY <1>3

LEMMA BelowKept ==
  ASSUME NEW S, data \in Seq(S), NEW n \in Nat, n <= Before(ip).depth,
         Before(ip).depth \in Nat, Before(ip).depth <= Len(data), data' = Below(n)
  PROVE  CallersKept
<1> SUFFICES ASSUME NEW k \in 1 .. Len(data) - Before(ip).depth
             PROVE  k \in DOMAIN data' /\ data'[k] = data[k]
  BY DEF CallersKept
<1>1. Len(data) \in Nat /\ n <= Len(data)
  OBVIOUS
<1>2. /\ Below(n) \in Seq(S) /\ Len(Below(n)) = Len(data) - n
      /\ \A i \in 1 .. Len(data) - n : Below(n)[i] = data[i]
  BY <1>1, BelowKeeps
<1>3. k \in 1 .. Len(data) - n
  BY <1>1
<1> QED
  BY <1>2, <1>3

LEMMA DataKept ==
  ASSUME NEW S, data \in Seq(S), data' = data, Before(ip).depth \in Nat
  PROVE  CallersKept
<1> SUFFICES ASSUME NEW k \in 1 .. Len(data) - Before(ip).depth
             PROVE  k \in DOMAIN data
  BY DEF CallersKept
<1>1. Len(data) \in Nat
  OBVIOUS
<1> QED
  BY <1>1

\* What a step keeps that leaves the frames and the return addresses alone.
LEMMA FramesUntouched ==
  ASSUME UNCHANGED <<code, call_frames, frames>>, FastIsCurrent, ReturnsFollowCalls
  PROVE  FastIsCurrent' /\ ReturnsFollowCalls'
BY DEF FastIsCurrent, ReturnsFollowCalls, frames

\* An instruction that takes n operands and pushes as many as the stack map
\* says, whatever they are.
LEMMA Operates ==
  ASSUME CodeMapped, status = "running", Accounted,
         NEW n \in Nat, NEW T, NEW pushed \in Seq(T),
         Operate(n, pushed), Steps(ip, n, Len(pushed))
  PROVE  Accounted' /\ CallersKept
<1>1. PICK S : data \in Seq(S)
  BY DEF Accounted
<1>2. Before(ip).depth \in Nat /\ Len(data) \in Nat /\ Before(ip).depth <= Len(data)
  BY Here
<1>3. n <= Before(ip).depth
  BY DEF Steps
<1>4. Below(n) \in Seq(S) /\ Len(Below(n)) = Len(data) - n
  BY <1>1, <1>2, <1>3, BelowKeeps
<1> DEFINE seq == Below(n) \o pushed
           d == Before(ip).depth - n + Len(pushed)
<1>5. seq \in Seq(S \cup T) /\ Len(seq) = Len(Below(n)) + Len(pushed) /\ Len(pushed) \in Nat
  <2> DEFINE low == Below(n)
  <2>1. low \in Seq(S) /\ pushed \in Seq(T)
    BY <1>4
  <2> HIDE DEF low
  <2>2. low \in Seq(S \cup T) /\ pushed \in Seq(S \cup T)
    BY <2>1, SeqMonotonic
  <2>3. low \o pushed \in Seq(S \cup T) /\ Len(low \o pushed) = Len(low) + Len(pushed)
    BY <2>2
  <2> QED
    BY <2>1, <2>3 DEF low
<1>6. Len(seq) = Len(data) - Before(ip).depth + d
  BY <1>2, <1>3, <1>4, <1>5
<1>7. Flows(ip, code[ip].next, d, Before(ip).framed)
  BY DEF Steps
<1>8. /\ data' = seq /\ ip' = code[ip].next
      /\ UNCHANGED <<prog, call_frames, locals_top, locals_frames>>
  BY DEF Operate, Next1, Goto, Instr, frames
<1>9. \A k \in 1 .. Len(data) - Before(ip).depth : k \in DOMAIN seq /\ seq[k] = data[k]
  <2> SUFFICES ASSUME NEW k \in 1 .. Len(data) - Before(ip).depth
               PROVE  k \in DOMAIN seq /\ seq[k] = data[k]
    OBVIOUS
  <2>1. k \in 1 .. Len(data) - n
    BY <1>2, <1>3
  <2>2. n <= Len(data)
    BY <1>2, <1>3
  <2>3. \A i \in 1 .. Len(data) - n : Below(n)[i] = data[i]
    BY <1>1, <2>2, BelowKeeps
  <2>4. Below(n)[k] = data[k]
    BY <2>1, <2>3
  <2> DEFINE low == Below(n)
  <2>5. low \in Seq(S) /\ k \in 1 .. Len(low)
    BY <1>4, <2>1
  <2> HIDE DEF low
  <2>6. k \in DOMAIN (low \o pushed) /\ (low \o pushed)[k] = low[k]
    BY <2>5
  <2> QED
    BY <2>4, <2>6 DEF low
<1> HIDE DEF seq, d
<1>10. Accounted'
  BY <1>5, <1>6, <1>7, <1>8, GoesOn
<1> QED
  BY <1>8, <1>9, <1>10 DEF CallersKept

\* A branch that takes n operands.
LEMMA Branches ==
  ASSUME CodeMapped, status = "running", Accounted,
         NEW n \in Nat, n <= Before(ip).depth, NEW taken \in BOOLEAN, BranchTo(taken, n),
         taken => Flows(ip, ip + code[ip].arg, Before(ip).depth - n, Before(ip).framed),
         ~taken => Steps(ip, n, 0)
  PROVE  Accounted' /\ CallersKept
<1>1. PICK S : data \in Seq(S)
  BY DEF Accounted
<1>2. Before(ip).depth \in Nat /\ Len(data) \in Nat /\ Before(ip).depth <= Len(data)
  BY Here
<1>3. Below(n) \in Seq(S) /\ Len(Below(n)) = Len(data) - n
  BY <1>1, <1>2, BelowKeeps
<1> DEFINE b == IF taken THEN ip + code[ip].arg ELSE code[ip].next
           d == Before(ip).depth - n
<1>4. Flows(ip, b, d, Before(ip).framed)
  <2>1. Before(ip).depth - n + 0 = d
    BY <1>2
  <2>2. CASE taken
    BY <2>2
  <2>3. CASE ~taken
    BY <2>1, <2>3 DEF Steps
  <2> QED
    BY <2>2, <2>3
<1>5. /\ data' = Below(n) /\ ip' = b
      /\ UNCHANGED <<prog, call_frames, locals_top, locals_frames>>
  BY DEF BranchTo, Goto, Instr, frames
<1>6. Len(Below(n)) = Len(data) - Before(ip).depth + d
  BY <1>2, <1>3
<1>7. CallersKept
  BY <1>1, <1>2, <1>5, BelowKept
<1> HIDE DEF b, d
<1>8. Accounted'
  BY <1>3, <1>4, <1>5, <1>6, GoesOn
<1> QED
  BY <1>7, <1>8

\* Where the statements are at nothing, there is nothing at all.
LEMMA NothingInMain ==
  ASSUME CodeMapped, status = "running", Accounted, Before(ip).fn = Main
  PROVE  /\ call_frames = <<>>
         /\ Before(ip).depth = 0 => data = <<>>
         /\ ~Before(ip).framed => locals_frames = <<>> /\ locals_top = 0
<1> DEFINE m == MapOfThis
           n == Len(call_frames)
<1>1. call_frames \in Seq(DOMAIN m.before) /\ Activations(m, call_frames, ip)
  BY DEF Accounted
<1>2. n \in Nat /\ n + 1 \in Levels(call_frames) /\ Site(call_frames, ip, n + 1) = ip
  BY <1>1 DEF Levels, Site
<1>3. FnOf(m, ip) = Main
  BY DEF FnOf, Before, MapOfThis
<1>4. n + 1 = 1
  BY <1>1, <1>2, <1>3 DEF Activations
<1>5. n = 0 /\ call_frames = <<>>
  BY <1>1, <1>2, <1>4
<1>6. Before(ip).depth = 0 => data = <<>>
  <2>1. PICK base : OperandsAbove(m, call_frames, ip, Len(data), base)
    BY DEF Accounted
  <2>2. Len(data) = 0 + Depth(m, ip)
    BY <2>1, <1>4 DEF OperandsAbove
  <2>3. PICK S : data \in Seq(S)
    BY DEF Accounted
  <2> QED
    BY <2>2, <2>3 DEF Depth, Before, MapOfThis
<1>7. ~Before(ip).framed => locals_frames = <<>> /\ locals_top = 0
  <2>1. PICK low, nf : FramesAbove(m, call_frames, ip, locals_top, locals_frames, low, nf)
    BY DEF Accounted
  <2>2. /\ locals_top = 0 + FrameSize(m, ip)
        /\ locals_frames \in Seq(Nat) /\ Len(locals_frames) = 0 + FrameCount(m, ip)
    BY <2>1, <1>4 DEF FramesAbove
  <2>3. ~Before(ip).framed => FrameSize(m, ip) = 0 /\ FrameCount(m, ip) = 0
    BY DEF FrameSize, FrameCount, Before, MapOfThis
  <2> QED
    BY <2>2, <2>3
<1> QED
  BY <1>5, <1>6, <1>7

-----------------------------------------------------------------------------
(* Operands and operators.                                                 *)

LEMMA StraightSteps ==
  ASSUME CodeMapped, status = "running", Accounted,
         NEW n, NEW k, Effect(code[ip]) = <<n, k>>, code[ip].op # "Drop"
  PROVE  Steps(ip, n, k)
<1>1. StraightMapped(ip)
  BY Here
<1>2. Effect(code[ip]) # <<>> /\ Effect(code[ip])[1] = n /\ Effect(code[ip])[2] = k
  OBVIOUS
<1> QED
  BY <1>1, <1>2 DEF StraightMapped, DropsNothing

LEMMA Pushes ==
  ASSUME CodeMapped, status = "running", Accounted, code[ip].op # "Drop",
         NEW n \in Nat, NEW v, Operate(n, <<v>>), Effect(code[ip]) = <<n, 1>>
  PROVE  Accounted' /\ CallersKept
<1>1. Steps(ip, n, 1)
  BY StraightSteps
<1>2. <<v>> \in Seq({v}) /\ Len(<<v>>) = 1
  OBVIOUS
<1> QED
  BY <1>1, <1>2, Operates

LEMMA Takes ==
  ASSUME CodeMapped, status = "running", Accounted, code[ip].op # "Drop",
         NEW n \in Nat, Operate(n, <<>>), Effect(code[ip]) = <<n, 0>>
  PROVE  Accounted' /\ CallersKept
<1>1. Steps(ip, n, 0)
  BY StraightSteps
<1>2. <<>> \in Seq({}) /\ Len(<<>>) = 0
  OBVIOUS
<1> QED
  BY <1>1, <1>2, Operates

LEMMA Pushing ==
  ASSUME CodeMapped, status = "running", Accounted,
         \/ Literal \/ Fixnum_Op \/ Fixnum_Unary \/ Load
         \/ Alloc_Object \/ Array_New \/ Buffer_New \/ Load_Field \/ Length_Of
  PROVE  Accounted' /\ CallersKept
<1>1. CASE Literal
  <2>1. Effect(code[ip]) = <<0, 1>> /\ code[ip].op # "Drop"
    BY <1>1 DEF Literal, Running, Instr, Effect
  <2> QED
    BY <1>1, <2>1, Pushes DEF Literal
<1>2. CASE Fixnum_Op
  <2>1. Effect(code[ip]) = <<2, 1>> /\ code[ip].op # "Drop"
    BY <1>2 DEF Fixnum_Op, Running, Instr, Effect
  <2> QED
    BY <1>2, <2>1, Pushes DEF Fixnum_Op
<1>3. CASE Fixnum_Unary
  <2>1. Effect(code[ip]) = <<1, 1>> /\ code[ip].op # "Drop"
    BY <1>3 DEF Fixnum_Unary, Running, Instr, Effect
  <2> QED
    BY <1>3, <2>1, Pushes DEF Fixnum_Unary
<1>4. CASE Load
  <2>1. Effect(code[ip]) = <<0, 1>> /\ code[ip].op # "Drop"
    BY <1>4 DEF Load, Running, Instr, Effect
  <2> QED
    BY <1>4, <2>1, Pushes DEF Load
<1>5. CASE Alloc_Object
  <2>1. Effect(code[ip]) = <<0, 1>> /\ code[ip].op # "Drop"
    BY <1>5 DEF Alloc_Object, Running, Instr, Effect
  <2> QED
    BY <1>5, <2>1, Pushes DEF Alloc_Object, Allocate
<1>6. CASE Array_New \/ Buffer_New
  <2>1. Effect(code[ip]) = <<1, 1>> /\ code[ip].op # "Drop"
    BY <1>6 DEF Array_New, Buffer_New, Running, Instr, Effect
  <2> QED
    BY <1>6, <2>1, Pushes DEF Array_New, Buffer_New, Allocate
<1>7. CASE Load_Field
  <2>1. Effect(code[ip]) = <<1, 1>> /\ code[ip].op # "Drop"
    BY <1>7 DEF Load_Field, Running, Instr, Effect
  <2> QED
    BY <1>7, <2>1, Pushes DEF Load_Field
<1>8. CASE Length_Of
  <2>1. Effect(code[ip]) = <<1, 1>> /\ code[ip].op # "Drop"
    BY <1>8 DEF Length_Of, Running, Instr, Effect
  <2> QED
    BY <1>8, <2>1, Pushes DEF Length_Of
<1> QED
  BY <1>1, <1>2, <1>3, <1>4, <1>5, <1>6, <1>7, <1>8

LEMMA Taking ==
  ASSUME CodeMapped, status = "running", Accounted,
         \/ Store_Local \/ Store_Global \/ Store_Field
  PROVE  Accounted' /\ CallersKept
<1>1. CASE Store_Local
  <2>1. Effect(code[ip]) = <<1, 0>> /\ code[ip].op # "Drop"
    BY <1>1 DEF Store_Local, Running, Instr, Effect
  <2> QED
    BY <1>1, <2>1, Takes DEF Store_Local
<1>2. CASE Store_Global
  <2>1. Effect(code[ip]) = <<1, 0>> /\ code[ip].op # "Drop"
    BY <1>2 DEF Store_Global, Running, Instr, Effect
  <2> QED
    BY <1>2, <2>1, Takes DEF Store_Global
<1>3. CASE Store_Field
  <2>1. Effect(code[ip]) = <<2, 0>> /\ code[ip].op # "Drop"
    BY <1>3 DEF Store_Field, Running, Instr, Effect
  <2> QED
    BY <1>3, <2>1, Takes DEF Store_Field
<1> QED
  BY <1>1, <1>2, <1>3

\* An element that does not exist ends the program.
LEMMA Elements ==
  ASSUME CodeMapped, status = "running", Accounted, Load_Element \/ Store_Element
  PROVE  Panic \/ (Accounted' /\ CallersKept)
<1>1. CASE Load_Element
  <2>1. Effect(code[ip]) = <<2, 1>> /\ code[ip].op # "Drop"
    BY <1>1 DEF Load_Element, Running, Instr, Effect
  <2> QED
    BY <1>1, <2>1, Pushes DEF Load_Element
<1>2. CASE Store_Element
  <2>1. Effect(code[ip]) = <<3, 0>> /\ code[ip].op # "Drop"
    BY <1>2 DEF Store_Element, Running, Instr, Effect
  <2> QED
    BY <1>2, <2>1, Takes DEF Store_Element
<1> QED
  BY <1>1, <1>2

LEMMA CallingNative ==
  ASSUME CodeMapped, status = "running", Accounted, Call_Native
  PROVE  Accounted' /\ CallersKept
<1>1. CASE Instr.arg[1] = "println" /\ Operate(1, <<>>)
  <2>1. Effect(code[ip]) = <<1, 0>> /\ code[ip].op # "Drop"
    BY <1>1 DEF Call_Native, Running, Instr, Effect
  <2> QED
    BY <1>1, <2>1, Takes
<1>2. CASE Instr.arg[1] = "Plus" /\ \E v : Operate(2, <<v>>)
  <2>1. Effect(code[ip]) = <<2, 1>> /\ code[ip].op # "Drop"
    BY <1>2 DEF Call_Native, Running, Instr, Effect
  <2>2. PICK v : Operate(2, <<v>>)
    BY <1>2
  <2> QED
    BY <2>1, <2>2, Pushes
<1> QED
  BY <1>1, <1>2 DEF Call_Native

LEMMA Duplicating ==
  ASSUME CodeMapped, status = "running", Accounted, Dup_1
  PROVE  Accounted' /\ CallersKept
<1>1. Effect(code[ip]) = <<1, 2>> /\ code[ip].op # "Drop" /\ Operate(1, <<Top(0), Top(0)>>)
  BY DEF Dup_1, Running, Instr, Effect
<1>2. Steps(ip, 1, 2)
  BY <1>1, StraightSteps
<1> DEFINE v == Top(0)
<1>3. <<v, v>> \in Seq({v}) /\ Len(<<v, v>>) = 2
  OBVIOUS
<1> QED
  BY <1>1, <1>2, <1>3, Operates

\* The statements have nothing on the stack when they drop what is not theirs.
LEMMA Dropping ==
  ASSUME CodeMapped, status = "running", Accounted, Drop
  PROVE  Accounted' /\ CallersKept
<1>1. Effect(code[ip]) = <<1, 0>> /\ code[ip].op = "Drop"
  BY DEF Drop, Running, Instr, Effect
<1>2. Steps(ip, 1, 0) \/ DropsNothing(ip)
  <2>1. StraightMapped(ip)
    BY Here
  <2>2. Effect(code[ip]) # <<>> /\ Effect(code[ip])[1] = 1 /\ Effect(code[ip])[2] = 0
    BY <1>1
  <2> QED
    BY <2>1, <2>2 DEF StraightMapped
<1>3. PICK S : data \in Seq(S)
  BY DEF Accounted
<1>4. /\ Before(ip).depth \in Nat /\ Len(data) \in Nat /\ Before(ip).depth <= Len(data)
      /\ ip \in Reached
  BY Here
<1>5. /\ ip' = code[ip].next
      /\ UNCHANGED <<prog, call_frames, locals_top, locals_frames>>
  BY DEF Drop, Next1, Goto, Instr, frames
<1>6. CASE Steps(ip, 1, 0)
  <2>1. 1 <= Before(ip).depth /\ Flows(ip, code[ip].next, Before(ip).depth - 1 + 0, Before(ip).framed)
    BY <1>6 DEF Steps
  <2>2. data # <<>>
    BY <2>1, <1>4
  <2>3. data' = Below(1)
    BY <2>2 DEF Drop
  <2>4. Below(1) \in Seq(S) /\ Len(Below(1)) = Len(data) - 1
    BY <2>1, <1>3, <1>4, BelowKeeps
  <2>5. Len(Below(1)) = Len(data) - Before(ip).depth + (Before(ip).depth - 1 + 0)
    BY <2>4, <1>4
  <2>6. CallersKept
    BY <2>1, <2>3, <1>3, <1>4, BelowKept
  <2>7. Accounted'
    BY <2>1, <2>3, <2>4, <2>5, <1>5, GoesOn
  <2> QED
    BY <2>6, <2>7
<1>7. CASE DropsNothing(ip)
  <2>1. /\ Before(ip).fn = Main /\ Before(ip).depth = 0
        /\ Flows(ip, code[ip].next, 0, Before(ip).framed)
    BY <1>7 DEF DropsNothing, Steps
  <2>2. data = <<>>
    BY <2>1, NothingInMain
  <2>3. data' = data /\ Len(data) = Len(data) - Before(ip).depth + 0
    BY <2>1, <2>2, <1>4 DEF Drop
  <2>4. CallersKept
    BY <2>3, <1>3, <1>4, DataKept
  <2>5. Accounted'
    BY <2>1, <2>3, <1>3, <1>5, GoesOn
  <2> QED
    BY <2>4, <2>5
<1> QED
  BY <1>2, <1>6, <1>7

LEMMA Branching ==
  ASSUME CodeMapped, status = "running", Accounted, Branch \/ Pop_Branch \/ Branch_Or_Pop
  PROVE  Accounted' /\ CallersKept
<1>1. BranchesMapped(ip) /\ Before(ip).depth \in Nat
  BY Here
<1>2. CASE Branch
  <2>1. code[ip].op = "Branch" /\ BranchTo(TRUE, 0)
    BY <1>2 DEF Branch, Running, Instr
  <2>2. /\ Flows(ip, ip + code[ip].arg, Before(ip).depth, Before(ip).framed)
        /\ Before(ip).depth - 0 = Before(ip).depth /\ 0 <= Before(ip).depth
    BY <2>1, <1>1 DEF BranchesMapped
  <2> QED
    BY <2>1, <2>2, Branches
<1>3. CASE Pop_Branch
  <2>1. code[ip].op \in PopBranches /\ \E taken \in BOOLEAN : BranchTo(taken, 1)
    BY <1>3 DEF Pop_Branch, Running, Instr, PopBranches
  <2>2. Steps(ip, 1, 0) /\ Flows(ip, ip + code[ip].arg, Before(ip).depth - 1, Before(ip).framed)
    BY <2>1, <1>1 DEF BranchesMapped
  <2>3. 1 <= Before(ip).depth
    BY <2>2 DEF Steps
  <2>4. PICK taken \in BOOLEAN : BranchTo(taken, 1)
    BY <2>1
  <2> QED
    BY <2>2, <2>3, <2>4, Branches
<1>4. CASE Branch_Or_Pop
  <2>1. /\ code[ip].op \in BranchesOrPops
        /\ \E taken \in BOOLEAN : BranchTo(taken, IF taken THEN 0 ELSE 1)
    BY <1>4 DEF Branch_Or_Pop, Running, Instr, BranchesOrPops
  <2>2. Steps(ip, 1, 0) /\ Flows(ip, ip + code[ip].arg, Before(ip).depth, Before(ip).framed)
    BY <2>1, <1>1 DEF BranchesMapped
  <2>3. 1 <= Before(ip).depth /\ Before(ip).depth - 0 = Before(ip).depth
    BY <2>2, <1>1 DEF Steps
  <2>4. PICK taken \in BOOLEAN : BranchTo(taken, IF taken THEN 0 ELSE 1)
    BY <2>1
  <2>5. CASE taken
    <3>1. BranchTo(taken, 0)
      BY <2>4, <2>5
    <3>2. 0 <= Before(ip).depth
      BY <1>1
    <3> QED
      BY <2>2, <2>3, <2>5, <3>1, <3>2, Branches
  <2>6. CASE ~taken
    <3>1. BranchTo(taken, 1)
      BY <2>4, <2>6
    <3> QED
      BY <2>2, <2>3, <2>6, <3>1, Branches
  <2> QED
    BY <2>5, <2>6
<1> QED
  BY <1>2, <1>3, <1>4

-----------------------------------------------------------------------------
(* Calls and frames.                                                       *)

\* What a call does: the callee at b takes its arguments over, n operands more
\* are gone (the function, when it is called by value).
LEMMA CallEnters ==
  ASSUME CodeMapped, status = "running", Accounted,
         NEW n \in {0, 1}, NEW b \in FnEntries, ip' = b, data' = Below(n),
         call_frames' = Append(call_frames, code[ip].next),
         UNCHANGED <<prog, locals_top, locals_frames>>,
         Steps(ip, Function(b).args + n, Function(b).results)
  PROVE  Accounted' /\ CallersKept
<1> DEFINE m == MapOfThis
           cf == call_frames
           r == code[ip].next
           back == Before(ip).depth - (Function(b).args + n) + Function(b).results
<1>1. Measured(m) /\ DOMAIN m.before = Reached
  BY MapMeasured
<1>2. /\ ip \in Reached /\ Len(data) \in Nat
      /\ Before(ip).depth \in Nat /\ Before(ip).depth <= Len(data)
  BY Here
<1>3. /\ Function(b).args + n <= Before(ip).depth
      /\ r \in Reached
      /\ Before(r) = [fn |-> Before(ip).fn, depth |-> back, framed |-> Before(ip).framed]
  BY DEF Steps, Flows
<1>4. /\ b \in Reached
      /\ Before(b) = [fn |-> b, depth |-> Function(b).args, framed |-> FALSE]
      /\ Function(b).args \in Nat /\ Function(b).results \in Nat
  BY DEF CodeMapped, EntriesMapped, MapTyped
<1>5. b # Main
  BY DEF FnEntries
<1>6. /\ FnOf(m, r) = FnOf(m, ip) /\ FnOf(m, b) = b
      /\ Depth(m, r) = back /\ Depth(m, ip) = Before(ip).depth
      /\ Depth(m, b) = Function(b).args /\ Results(m, b) = Function(b).results
      /\ FrameCount(m, b) = 0 /\ FrameSize(m, b) = 0
  BY <1>3, <1>4 DEF FnOf, Depth, Results, FrameCount, FrameSize, MapOfThis, Before, Function
<1>7. m.before[r].fn = m.before[ip].fn /\ m.before[r].framed = m.before[ip].framed
  BY <1>3 DEF MapOfThis, Before
<1>8. cf \in Seq(DOMAIN m.before) /\ Activations(m, cf, ip)
  BY DEF Accounted
<1>9. r \in DOMAIN m.before /\ b \in DOMAIN m.before /\ ip \in DOMAIN m.before
  BY <1>1, <1>2, <1>3, <1>4
<1> HIDE DEF m, cf, r
<1>10. Append(cf, r) \in Seq(DOMAIN m.before)
  BY <1>8, <1>9
<1>11. Activations(m, Append(cf, r), b)
  BY <1>5, <1>6, <1>8, <1>9, ActivationsCall
<1>12. \E base : OperandsAbove(m, Append(cf, r), b, Len(data) - n, base)
  <2>1. PICK base : OperandsAbove(m, cf, ip, Len(data), base)
    BY DEF Accounted, m, cf
  <2> DEFINE d == Len(data) - Depth(m, ip) + Depth(m, r)
  <2>2. OperandsAbove(m, cf, r, d, base)
    BY <2>1, <1>1, <1>2, <1>6, <1>8, <1>9, OperandsStay
  <2>3. /\ d \in Nat /\ Results(m, b) <= Depth(m, r)
        /\ d - Results(m, b) + Depth(m, b) = Len(data) - n
    <3>1. PICK len \in Nat, depth \in Nat, args \in Nat, results \in Nat :
             /\ len = Len(data) /\ depth = Before(ip).depth
             /\ args = Function(b).args /\ results = Function(b).results
      BY <1>2, <1>4
    <3>2. n \in Nat /\ depth <= len /\ args + n <= depth
      BY <3>1, <1>2, <1>3
    <3>3. /\ Depth(m, r) = depth - (args + n) + results /\ Depth(m, ip) = depth
          /\ Depth(m, b) = args /\ Results(m, b) = results
      BY <3>1, <1>6
    <3>4. d = len - depth + (depth - (args + n) + results)
      BY <3>1, <3>3
    <3>5. d \in Nat /\ results <= depth - (args + n) + results /\ d - results + args = len - n
      <4> HIDE DEF d
      <4> QED
        BY <3>2, <3>4
    <3> QED
      BY <3>1, <3>3, <3>5
  <2> HIDE DEF d
  <2>4. \E base2 : OperandsAbove(m, Append(cf, r), b, d - Results(m, b) + Depth(m, b), base2)
    BY <2>2, <2>3, <1>1, <1>8, <1>9, OperandsCall
  <2> QED
    BY <2>3, <2>4
<1>13. \E low, nf : FramesAbove(m, Append(cf, r), b, locals_top, locals_frames, low, nf)
  <2>1. PICK low, nf : FramesAbove(m, cf, ip, locals_top, locals_frames, low, nf)
    BY DEF Accounted, m, cf
  <2>2. FramesAbove(m, cf, r, locals_top, locals_frames, low, nf)
    BY <2>1, <1>7, <1>8, <1>9, FramesStay
  <2> QED
    BY <2>2, <1>1, <1>6, <1>8, <1>9, FramesCall
<1>14. \E S : Below(n) \in Seq(S) /\ Len(Below(n)) = Len(data) - n
  <2>1. PICK S : data \in Seq(S)
    BY DEF Accounted
  <2>2. n \in Nat /\ n <= Len(data)
    BY <1>2, <1>3, <1>4
  <2> QED
    BY <2>1, <2>2, BelowKeeps
<1>15. /\ MapOfThis' = m /\ call_frames' = Append(cf, r)
       /\ locals_top' = locals_top /\ locals_frames' = locals_frames
  BY DEF MapOfThis, m, cf, r
<1>16. Accounted'
  BY <1>10, <1>11, <1>12, <1>13, <1>14, <1>15 DEF Accounted
<1>17. CallersKept
  <2>1. PICK S : data \in Seq(S)
    BY DEF Accounted
  <2>2. n \in Nat /\ n <= Before(ip).depth
    BY <1>2, <1>3, <1>4
  <2> QED
    BY <2>1, <2>2, <1>2, BelowKept
<1> QED
  BY <1>16, <1>17

LEMMA Calling ==
  ASSUME WellMapped, status = "running", Accounted, ReturnsFollowCalls, Call
  PROVE  Accounted' /\ CallersKept /\ ReturnsFollowCalls'
<1>1. CodeMapped /\ CalleesMapped
  BY DEF WellMapped
<1>2. CallsMapped(ip) /\ ip \in DOMAIN code
  BY <1>1, Here
<1>3. /\ call_frames' = Append(call_frames, code[ip].next)
      /\ UNCHANGED <<prog, code, locals_top, locals_frames>>
      /\ code[ip].op \in {"Call", "Call_Dyn"}
  BY DEF Call, Running, Instr, frames
<1>4. ASSUME code[ip].op = "Call" PROVE Accounted' /\ CallersKept
  <2>1. ip' = code[ip].arg /\ data' = Below(0)
    BY <1>4 DEF Call, Instr, Goto
  <2>2. /\ code[ip].arg \in FnEntries
        /\ Steps(ip, Function(code[ip].arg).args + 0, Function(code[ip].arg).results)
    BY <1>2, <1>4 DEF CallsMapped, Calls
  <2> QED
    BY <2>1, <2>2, <1>1, <1>3, CallEnters
<1>5. ASSUME code[ip].op = "Call_Dyn" PROVE Accounted' /\ CallersKept
  <2> DEFINE b == Top(0)[2]
  <2>1. ip' = b /\ data' = Below(1)
    BY <1>5 DEF Call, Instr, Goto
  <2>2. /\ b \in FnEntries
        /\ Function(b).args = code[ip].arg.args /\ Function(b).results = code[ip].arg.results
    BY <1>1, <1>2, <1>5 DEF CalleesMapped, Running, Instr
  <2>3. Steps(ip, code[ip].arg.args + 1, code[ip].arg.results)
    BY <1>2, <1>5 DEF CallsMapped, Calls
  <2>4. Steps(ip, Function(b).args + 1, Function(b).results)
    BY <2>2, <2>3
  <2> HIDE DEF b
  <2> QED
    BY <2>1, <2>2, <2>4, <1>1, <1>3, CallEnters
<1>6. Accounted' /\ CallersKept
  BY <1>3, <1>4, <1>5
<1>7. ReturnsFollowCalls'
  <2> DEFINE r == code[ip].next
  <2>1. PICK T : call_frames \in Seq(T)
    BY DEF Accounted
  <2>2. \A x \in ToSet(Append(call_frames, r)) : x \in ToSet(call_frames) \/ x = r
    <3> HIDE DEF r
    <3> SUFFICES ASSUME NEW i \in DOMAIN Append(call_frames, r)
                 PROVE  Append(call_frames, r)[i] \in ToSet(call_frames)
                          \/ Append(call_frames, r)[i] = r
      BY DEF ToSet
    <3>1. Len(call_frames) \in Nat /\ i \in 1 .. Len(call_frames) + 1
      BY <2>1
    <3>2. CASE i = Len(call_frames) + 1
      BY <2>1, <3>2
    <3>3. CASE i # Len(call_frames) + 1
      <4>1. i \in DOMAIN call_frames /\ Append(call_frames, r)[i] = call_frames[i]
        BY <2>1, <3>1, <3>3
      <4> QED
        BY <4>1 DEF ToSet
    <3> QED
      BY <3>2, <3>3
  <2> QED
    BY <2>2, <1>2, <1>3 DEF ReturnsFollowCalls
<1> QED
  BY <1>6, <1>7

LEMMA Allocating ==
  ASSUME CodeMapped, status = "running", Accounted, Alloc_Locals
  PROVE  Accounted' /\ CallersKept /\ FastIsCurrent'
<1> DEFINE m == MapOfThis
           cf == call_frames
           b == code[ip].next
<1>1. Measured(m) /\ DOMAIN m.before = Reached
  BY MapMeasured
<1>2. ip \in Reached /\ CallsMapped(ip) /\ Len(data) \in Nat
  BY Here
<1>3. /\ ip' = b /\ UNCHANGED <<prog, call_frames, data>>
      /\ locals_top' = locals_top + code[ip].arg
      /\ locals_frames' = Append(locals_frames, locals_top) /\ fast_locals' = locals_top
      /\ code[ip].op = "Alloc_Locals"
  BY DEF Alloc_Locals, Running, Instr, Next1, Goto, stacks
<1>4. /\ ~Before(ip).framed /\ code[ip].arg = Function(Before(ip).fn).slots
      /\ b \in Reached
      /\ Before(b) = [fn |-> Before(ip).fn, depth |-> Before(ip).depth, framed |-> TRUE]
  BY <1>2, <1>3 DEF CallsMapped, Flows
<1>5. /\ FnOf(m, b) = FnOf(m, ip) /\ Depth(m, b) = Depth(m, ip)
      /\ FrameCount(m, ip) = 0 /\ FrameSize(m, ip) = 0 /\ FrameCount(m, b) = 1
      /\ FrameSize(m, b) = code[ip].arg
  BY <1>4 DEF FnOf, Depth, FrameCount, FrameSize, MapOfThis, Before, Function
<1>6. cf \in Seq(DOMAIN m.before) /\ Activations(m, cf, ip)
  BY DEF Accounted
<1>7. b \in DOMAIN m.before /\ ip \in DOMAIN m.before
  BY <1>1, <1>2, <1>4
<1>8. PICK S : data \in Seq(S)
  BY DEF Accounted
<1>9. MapOfThis' = m /\ call_frames' = cf
  BY <1>3 DEF MapOfThis
<1>10. PICK base : OperandsAbove(m, cf, ip, Len(data), base)
  BY DEF Accounted
<1>11. PICK low, nf : FramesAbove(m, cf, ip, locals_top, locals_frames, low, nf)
  BY DEF Accounted
<1> HIDE DEF m, cf, b
<1>12. Activations(m, cf, b)
  BY <1>5, <1>6, <1>7, ActivationsStay
<1>13. OperandsAbove(m, cf, b, Len(data), base)
  <2>1. Depth(m, ip) \in Nat /\ Depth(m, b) = Depth(m, ip)
    BY <1>1, <1>5, <1>7 DEF Measured
  <2>2. Len(data) - Depth(m, ip) + Depth(m, b) = Len(data)
    BY <2>1, <1>2
  <2> QED
    BY <2>2, <1>1, <1>2, <1>5, <1>6, <1>7, <1>10, OperandsStay
<1>14. /\ locals_top \in Nat
       /\ FramesAbove(m, cf, b, locals_top + code[ip].arg, Append(locals_frames, locals_top), low, nf)
  BY <1>1, <1>5, <1>6, <1>7, <1>11, FrameAllocated
<1>15. Accounted'
  BY <1>3, <1>6, <1>8, <1>9, <1>12, <1>13, <1>14 DEF Accounted
<1>16. FastIsCurrent'
  <2>1. locals_frames \in Seq(Nat)
    BY <1>11 DEF FramesAbove
  <2>2. /\ Append(locals_frames, locals_top) # <<>>
        /\ Last(Append(locals_frames, locals_top)) = locals_top
    BY <2>1, <1>14 DEF Last
  <2> QED
    BY <2>2, <1>3 DEF FastIsCurrent
<1>17. CallersKept
  <2>1. Before(ip).depth \in Nat /\ data' = data
    BY <1>3, Here
  <2> QED
    BY <2>1, <1>8, DataKept
<1> QED
  BY <1>15, <1>16, <1>17

\* Both kinds of return, where the prologue has been of that kind: the frame of
\* the activation that ends, and no other, is given up.
LEMMA ReturnLeaves ==
  ASSUME CodeMapped, status = "running", Accounted,
         code[ip].op \in {"Return", "Return_Fast"},
         ip' = Last(call_frames), call_frames' = Front(call_frames), UNCHANGED <<prog, data>>,
         NEW lt, locals_top' = lt, NEW lf \in Seq(Nat), locals_frames' = lf,
         lt = locals_top - FrameSize(MapOfThis, ip),
         Len(lf) = Len(locals_frames) - FrameCount(MapOfThis, ip),
         \A k \in 1 .. Len(lf) : lf[k] = locals_frames[k]
  PROVE  Accounted'
<1> DEFINE m == MapOfThis
           cf == call_frames
<1>1. Measured(m) /\ DOMAIN m.before = Reached
  BY MapMeasured
<1>2. ip \in DOMAIN m.before /\ CallsMapped(ip)
  BY <1>1, Here
<1>3. Before(ip).fn # Main /\ Before(ip).depth = Function(Before(ip).fn).results
  BY <1>2 DEF CallsMapped
<1>4. Depth(m, ip) = Results(m, ip) /\ FnOf(m, ip) # Main
  BY <1>3 DEF Depth, Results, FnOf, MapOfThis, Before, Function
<1>5. cf \in Seq(DOMAIN m.before) /\ Activations(m, cf, ip)
  BY DEF Accounted
<1>6. cf # <<>>
  <2>1. SUFFICES ASSUME cf = <<>> PROVE FALSE
    OBVIOUS
  <2>2. 1 \in Levels(cf) /\ Site(cf, ip, 1) = ip
    BY <2>1 DEF Levels, Site
  <2> QED
    BY <2>2, <1>4, <1>5 DEF Activations
<1>7. PICK S : data \in Seq(S)
  BY DEF Accounted
<1>8. PICK base : OperandsAbove(m, cf, ip, Len(data), base)
  BY DEF Accounted
<1>9. PICK low, nf : FramesAbove(m, cf, ip, locals_top, locals_frames, low, nf)
  BY DEF Accounted
<1>10. MapOfThis' = m /\ call_frames' = Front(cf) /\ ip' = Last(cf)
  BY DEF MapOfThis
<1>11. /\ lt = locals_top - FrameSize(m, ip)
       /\ Len(lf) = Len(locals_frames) - FrameCount(m, ip)
  OBVIOUS
<1> HIDE DEF m, cf
<1>12. Front(cf) \in Seq(DOMAIN m.before)
  BY <1>5, <1>6, FrontKeeps
<1>13. Activations(m, Front(cf), Last(cf))
  BY <1>2, <1>5, <1>6, ActivationsReturn
<1>14. \E base2 : OperandsAbove(m, Front(cf), Last(cf), Len(data), base2)
  BY <1>1, <1>2, <1>4, <1>5, <1>6, <1>8, OperandsReturn
<1>15. \E low2, nf2 : FramesAbove(m, Front(cf), Last(cf), lt, lf, low2, nf2)
  BY <1>1, <1>2, <1>5, <1>6, <1>9, <1>11, FramesReturn
<1> QED
  BY <1>7, <1>10, <1>12, <1>13, <1>14, <1>15 DEF Accounted

\* Return is where a frame has been allocated: it is the one on top, and it
\* begins where the variables of the activation do.
LEMMA OwnFrameOnTop ==
  ASSUME CodeMapped, status = "running", Accounted, Before(ip).framed
  PROVE  /\ locals_frames \in Seq(Nat) /\ locals_frames # <<>>
         /\ Last(locals_frames) \in Nat
         /\ Function(Before(ip).fn).slots \in Nat
         /\ locals_top = Last(locals_frames) + Function(Before(ip).fn).slots
<1> DEFINE m == MapOfThis
           n == Len(call_frames)
<1>1. Measured(m) /\ ip \in DOMAIN m.before
  BY MapMeasured, Here
<1>2. /\ FrameCount(m, ip) = 1 /\ FrameSize(m, ip) = Function(Before(ip).fn).slots
      /\ FrameSize(m, ip) \in Nat
  BY <1>1 DEF FrameCount, FrameSize, MapOfThis, Before, Function, Measured
<1>3. call_frames \in Seq(DOMAIN m.before)
  BY DEF Accounted
<1>4. n \in Nat /\ n + 1 \in Levels(call_frames) /\ Site(call_frames, ip, n + 1) = ip
  BY <1>3 DEF Levels, Site
<1>5. PICK low, nf : FramesAbove(m, call_frames, ip, locals_top, locals_frames, low, nf)
  BY DEF Accounted
<1>6. /\ low[n + 1] \in Nat /\ nf[n + 1] \in Nat
      /\ locals_top = low[n + 1] + FrameSize(m, ip)
      /\ locals_frames \in Seq(Nat) /\ Len(locals_frames) = nf[n + 1] + FrameCount(m, ip)
  BY <1>4, <1>5 DEF FramesAbove
<1>7. locals_frames[nf[n + 1] + 1] = low[n + 1]
  BY <1>2, <1>4, <1>5 DEF FramesAbove
<1>8. Last(locals_frames) = low[n + 1]
  BY <1>2, <1>6, <1>7 DEF Last
<1>9. locals_frames # <<>>
  BY <1>2, <1>6
<1> QED
  BY <1>2, <1>6, <1>8, <1>9

LEMMA Returning ==
  ASSUME CodeMapped, status = "running", Accounted, FastIsCurrent, ReturnsFollowCalls,
         Return \/ Return_Fast
  PROVE  Accounted' /\ CallersKept /\ FastIsCurrent' /\ ReturnsFollowCalls'
<1>1. CallsMapped(ip) /\ ip \in DOMAIN code
  BY Here
<1>2. /\ ip' = Last(call_frames) /\ call_frames' = Front(call_frames)
      /\ UNCHANGED <<prog, code, data>>
      /\ code[ip].op \in {"Return", "Return_Fast"}
  BY DEF Return, Return_Fast, Running, Instr, Goto, stacks
<1>3. /\ code[ip].op = "Return" => Before(ip).framed
      /\ code[ip].op = "Return_Fast" => ~Before(ip).framed
  BY <1>1 DEF CallsMapped
<1>4. Accounted' /\ FastIsCurrent'
  <2>1. CASE Return
    <3>1. Before(ip).framed
      BY <2>1, <1>3 DEF Return, Running, Instr
    <3>2. /\ locals_frames \in Seq(Nat) /\ locals_frames # <<>>
          /\ Last(locals_frames) \in Nat
          /\ Function(Before(ip).fn).slots \in Nat
          /\ locals_top = Last(locals_frames) + Function(Before(ip).fn).slots
      BY <3>1, OwnFrameOnTop
    <3>3. /\ FrameCount(MapOfThis, ip) = 1
          /\ FrameSize(MapOfThis, ip) = Function(Before(ip).fn).slots
      BY <3>1 DEF FrameCount, FrameSize, MapOfThis, Before, Function
    <3>4. /\ Front(locals_frames) \in Seq(Nat)
          /\ Len(Front(locals_frames)) = Len(locals_frames) - 1
          /\ \A k \in 1 .. Len(Front(locals_frames)) : Front(locals_frames)[k] = locals_frames[k]
      BY <3>2, FrontKeeps
    <3>5. Last(locals_frames) = locals_top - FrameSize(MapOfThis, ip)
      BY <3>2, <3>3
    <3>6. /\ locals_top' = Last(locals_frames) /\ locals_frames' = Front(locals_frames)
          /\ fast_locals' = IF locals_frames' = <<>> THEN 0 ELSE Last(locals_frames')
      BY <2>1 DEF Return
    <3>7. Accounted'
      BY <1>2, <3>3, <3>4, <3>5, <3>6, ReturnLeaves
    <3> QED
      BY <3>6, <3>7 DEF FastIsCurrent
  <2>2. CASE Return_Fast
    <3>1. ~Before(ip).framed
      BY <2>2, <1>3 DEF Return_Fast, Running, Instr
    <3>2. FrameCount(MapOfThis, ip) = 0 /\ FrameSize(MapOfThis, ip) = 0
      BY <3>1 DEF FrameCount, FrameSize, MapOfThis, Before
    <3>3. UNCHANGED <<locals_top, locals_frames, fast_locals>>
      BY <2>2 DEF Return_Fast, frames
    <3>4. PICK low, nf :
             FramesAbove(MapOfThis, call_frames, ip, locals_top, locals_frames, low, nf)
      BY DEF Accounted
    <3>5. locals_frames \in Seq(Nat) /\ Len(locals_frames) \in Nat
      BY <3>4 DEF FramesAbove
    <3>6. locals_top = locals_top - FrameSize(MapOfThis, ip)
      <4>1. Len(call_frames) \in Nat
        BY DEF Accounted
      <4>2. Len(call_frames) + 1 \in Levels(call_frames)
        BY <4>1 DEF Levels
      <4>3. locals_top \in Nat
        BY <3>2, <3>4, <4>2 DEF FramesAbove
      <4> QED
        BY <4>3, <3>2
    <3>7. Len(locals_frames) = Len(locals_frames) - FrameCount(MapOfThis, ip)
      BY <3>2, <3>5
    <3>8. Accounted'
      BY <1>2, <3>3, <3>5, <3>6, <3>7, ReturnLeaves
    <3> QED
      BY <3>3, <3>8 DEF FastIsCurrent
  <2> QED
    BY <2>1, <2>2
<1>5. ReturnsFollowCalls'
  <2>1. \A r \in ToSet(Front(call_frames)) : r \in ToSet(call_frames)
    <3>1. PICK T : call_frames \in Seq(T)
      BY DEF Accounted
    <3>2. CASE call_frames = <<>>
      BY <3>2 DEF Front, ToSet
    <3>3. CASE call_frames # <<>>
      <4>1. /\ Len(Front(call_frames)) = Len(call_frames) - 1 /\ Len(call_frames) \in Nat
            /\ Front(call_frames) \in Seq(T)
            /\ \A k \in 1 .. Len(call_frames) - 1 : Front(call_frames)[k] = call_frames[k]
        BY <3>1, <3>3, FrontKeeps
      <4> QED
        BY <4>1, <3>1 DEF ToSet
    <3> QED
      BY <3>2, <3>3
  <2> QED
    BY <2>1, <1>2 DEF ReturnsFollowCalls
<1>6. CallersKept
  <2>1. PICK S : data \in Seq(S)
    BY DEF Accounted
  <2>2. Before(ip).depth \in Nat
    BY Here
  <2> QED
    BY <1>2, <2>1, <2>2, DataKept
<1> QED
  BY <1>4, <1>5, <1>6

-----------------------------------------------------------------------------
(***************************************************************************)
(* The program from beginning to end.                                      *)
(***************************************************************************)

LEMMA StepKeeps ==
  ASSUME WellMapped, status = "running", Accounted, FastIsCurrent, ReturnsFollowCalls,
         Step, status' = "running"
  PROVE  Accounted' /\ CallersKept /\ FastIsCurrent' /\ ReturnsFollowCalls'
<1>1. CodeMapped
  BY DEF WellMapped
<1>2. CASE \/ Literal \/ Fixnum_Op \/ Fixnum_Unary \/ Load
           \/ Alloc_Object \/ Array_New \/ Buffer_New \/ Load_Field \/ Length_Of
  <2>1. Accounted' /\ CallersKept
    BY <1>1, <1>2, Pushing
  <2>2. UNCHANGED <<code, call_frames, frames>>
    BY <1>2 DEF Literal, Fixnum_Op, Fixnum_Unary, Load, Alloc_Object, Array_New, Buffer_New,
                Load_Field, Length_Of, Allocate, Operate
  <2> QED
    BY <2>1, <2>2, FramesUntouched
<1>3. CASE \/ Store_Local \/ Store_Global \/ Store_Field
  <2>1. Accounted' /\ CallersKept
    BY <1>1, <1>3, Taking
  <2>2. UNCHANGED <<code, call_frames, frames>>
    BY <1>3 DEF Store_Local, Store_Global, Store_Field, Operate
  <2> QED
    BY <2>1, <2>2, FramesUntouched
<1>4. CASE Load_Element \/ Store_Element
  <2>1. ~Panic
    BY DEF Panic
  <2>2. Accounted' /\ CallersKept
    BY <2>1, <1>1, <1>4, Elements
  <2>3. UNCHANGED <<code, call_frames, frames>>
    BY <2>1, <1>4 DEF Load_Element, Store_Element, Operate
  <2> QED
    BY <2>2, <2>3, FramesUntouched
<1>5. CASE Call_Native
  <2>1. Accounted' /\ CallersKept
    BY <1>1, <1>5, CallingNative
  <2>2. UNCHANGED <<code, call_frames, frames>>
    BY <1>5 DEF Call_Native, Operate
  <2> QED
    BY <2>1, <2>2, FramesUntouched
<1>6. CASE Dup_1
  <2>1. Accounted' /\ CallersKept
    BY <1>1, <1>6, Duplicating
  <2>2. UNCHANGED <<code, call_frames, frames>>
    BY <1>6 DEF Dup_1, Operate
  <2> QED
    BY <2>1, <2>2, FramesUntouched
<1>7. CASE Drop
  <2>1. Accounted' /\ CallersKept
    BY <1>1, <1>7, Dropping
  <2>2. UNCHANGED <<code, call_frames, frames>>
    BY <1>7 DEF Drop
  <2> QED
    BY <2>1, <2>2, FramesUntouched
<1>8. CASE Branch \/ Pop_Branch \/ Branch_Or_Pop
  <2>1. Accounted' /\ CallersKept
    BY <1>1, <1>8, Branching
  <2>2. UNCHANGED <<code, call_frames, frames>>
    BY <1>8 DEF Branch, Pop_Branch, Branch_Or_Pop, BranchTo
  <2> QED
    BY <2>1, <2>2, FramesUntouched
<1>9. CASE Call
  <2>1. Accounted' /\ CallersKept /\ ReturnsFollowCalls'
    BY <1>9, Calling
  <2>2. UNCHANGED frames
    BY <1>9 DEF Call
  <2> QED
    BY <2>1, <2>2 DEF FastIsCurrent, frames
<1>10. CASE Alloc_Locals
  <2>1. Accounted' /\ CallersKept /\ FastIsCurrent'
    BY <1>1, <1>10, Allocating
  <2>2. UNCHANGED <<code, call_frames>>
    BY <1>10 DEF Alloc_Locals
  <2> QED
    BY <2>1, <2>2 DEF ReturnsFollowCalls
<1>11. CASE Return \/ Return_Fast
  BY <1>1, <1>11, Returning
<1>12. CASE Halt
  BY <1>12 DEF Halt
<1> QED
  BY <1>2, <1>3, <1>4, <1>5, <1>6, <1>7, <1>8, <1>9, <1>10, <1>11, <1>12 DEF Step

\* The statements begin as the function at 0, with nothing.
LEMMA CompiledBegins ==
  ASSUME NothingYet, CodeMapped', status' = "running",
         UNCHANGED <<ip, data, call_frames, locals_top, locals_frames, fast_locals>>
  PROVE  Accounted' /\ FastIsCurrent' /\ ReturnsFollowCalls'
<1> DEFINE m == StackMapOf(prog')
<1>1. /\ 0 \in DOMAIN m.before /\ m.before[0] = [fn |-> 0, depth |-> 0, framed |-> FALSE]
  BY DEF CodeMapped, EntriesMapped, Reached, Before, Main
<1>2. MapOfThis' = m
  BY DEF MapOfThis
<1>3. /\ ip' = 0 /\ data' = <<>> /\ call_frames' = <<>>
      /\ locals_top' = 0 /\ locals_frames' = <<>> /\ fast_locals' = 0
  BY DEF NothingYet
<1>4. /\ FnOf(m, 0) = Main /\ Depth(m, 0) = 0 /\ FrameCount(m, 0) = 0 /\ FrameSize(m, 0) = 0
  BY <1>1 DEF FnOf, Depth, FrameCount, FrameSize, Main
<1> HIDE DEF m
<1>5. Levels(<<>>) = {1} /\ Len(<<>>) = 0 /\ Site(<<>>, 0, 1) = 0
  BY DEF Levels, Site
<1>6. Activations(m, <<>>, 0)
  BY <1>1, <1>4, <1>5 DEF Activations
<1> DEFINE zero == [i \in {1} |-> 0]
<1>7. OperandsAbove(m, <<>>, 0, 0, zero)
  BY <1>4, <1>5 DEF OperandsAbove
<1>8. FramesAbove(m, <<>>, 0, 0, <<>>, zero, zero)
  BY <1>4, <1>5 DEF FramesAbove
<1>9. \E S : <<>> \in Seq(S)
  OBVIOUS
<1>10. Accounted'
  BY <1>2, <1>3, <1>5, <1>6, <1>7, <1>8, <1>9 DEF Accounted
<1>11. FastIsCurrent' /\ ReturnsFollowCalls'
  BY <1>3 DEF FastIsCurrent, ReturnsFollowCalls, ToSet
<1> QED
  BY <1>10, <1>11

\* All the statements' operands, calls and frames are gone where they halt.
LEMMA HaltsWithNothing ==
  ASSUME CodeMapped, status = "running", Accounted, Halt
  PROVE  StacksEmptied'
<1>1. CallsMapped(ip)
  BY Here
<1>2. Before(ip) = [fn |-> Main, depth |-> 0, framed |-> FALSE]
  BY <1>1 DEF CallsMapped, Halt, Running, Instr
<1>3. data = <<>> /\ call_frames = <<>> /\ locals_frames = <<>> /\ locals_top = 0
  BY <1>2, NothingInMain
<1> QED
  BY <1>3 DEF StacksEmptied, Halt, stacks, frames

LEMMA InitKeeps == Init => IInv
BY DEF Init, IInv, NothingYet, StacksEmptied

LEMMA NextKeeps ==
  ASSUME IInv, WellMapped, WellMapped', [Next]_vars
  PROVE  IInv'
<1>1. CASE Compile
  <2>1. NothingYet /\ status' \in {"rejected", "running"}
    BY <1>1 DEF Compile, IInv
  <2>2. UNCHANGED <<ip, data, call_frames, locals_top, locals_frames, fast_locals>>
    BY <1>1 DEF Compile, stacks, frames
  <2>3. CASE status' = "running"
    BY <2>1, <2>2, <2>3, CompiledBegins DEF IInv, WellMapped, StacksEmptied
  <2>4. CASE status' = "rejected"
    BY <2>4 DEF IInv, StacksEmptied
  <2> QED
    BY <2>1, <2>3, <2>4
<1>2. CASE Step
  <2>1. status = "running" /\ Accounted /\ FastIsCurrent /\ ReturnsFollowCalls
    BY <1>2 DEF IInv, Step, Running, Literal, Dup_1, Drop, Fixnum_Op, Fixnum_Unary, Branch,
                Pop_Branch, Branch_Or_Pop, Call, Alloc_Locals, Return, Return_Fast, Call_Native,
                Load, Store_Local, Store_Global, Alloc_Object, Array_New, Buffer_New,
                Load_Field, Store_Field, Load_Element, Store_Element, Length_Of, Halt
  <2>2. CASE status' = "running"
    BY <1>2, <2>1, <2>2, StepKeeps DEF IInv, StacksEmptied
  <2>3. CASE status' # "running"
    <3>1. Halt \/ status' = "panicked"
      BY <1>2, <2>1, <2>3
      DEF Step, Literal, Dup_1, Drop, Fixnum_Op, Fixnum_Unary, Branch, Pop_Branch,
          Branch_Or_Pop, BranchTo, Call, Alloc_Locals, Return, Return_Fast, Call_Native,
          Load, Store_Local, Store_Global, Alloc_Object, Array_New, Buffer_New, Allocate,
          Load_Field, Store_Field, Load_Element, Store_Element, Length_Of, Operate, Panic
    <3>2. CASE Halt
      <4>1. StacksEmptied' /\ status' = "halted"
        BY <2>1, <3>2, HaltsWithNothing DEF Halt, WellMapped
      <4> QED
        BY <4>1 DEF IInv
    <3>3. CASE status' = "panicked"
      BY <3>3 DEF IInv, StacksEmptied
    <3> QED
      BY <3>1, <3>2, <3>3
  <2> QED
    BY <2>2, <2>3
<1>3. CASE UNCHANGED vars
  BY <1>3 DEF vars, stacks, frames, IInv, NothingYet, Accounted, FastIsCurrent,
              ReturnsFollowCalls, StacksEmptied, MapOfThis
<1> QED
  BY <1>1, <1>2, <1>3 DEF Next, Done

LEMMA MapKept ==
  ASSUME WellMapped, UNCHANGED vars PROVE WellMapped'
<1>1. UNCHANGED <<prog, code, status, ip, data>>
  BY DEF vars, stacks, frames
<1>2. /\ Reached' = Reached /\ FnEntries' = FnEntries
      /\ \A a : Before(a)' = Before(a) /\ Function(a)' = Function(a)
  BY <1>1 DEF Reached, FnEntries, Before, Function
<1>3. MapTyped' = MapTyped /\ EntriesMapped' = EntriesMapped
  BY <1>1, <1>2 DEF MapTyped, EntriesMapped
<1>4. \A a : /\ StraightMapped(a)' = StraightMapped(a)
            /\ BranchesMapped(a)' = BranchesMapped(a)
            /\ CallsMapped(a)' = CallsMapped(a)
  <2> TAKE a
  <2>1. StraightMapped(a)' = StraightMapped(a)
    BY <1>1 DEF StraightMapped, DropsNothing, Steps, Flows, Reached, Before
  <2>2. BranchesMapped(a)' = BranchesMapped(a)
    BY <1>1 DEF BranchesMapped, Steps, Flows, Reached, Before
  <2>3. CallsMapped(a)' = CallsMapped(a)
    BY <1>1 DEF CallsMapped, Calls, Steps, Flows, Reached, Before, Function, FnEntries
  <2> QED
    BY <2>1, <2>2, <2>3
<1>5. CodeMapped'
  BY <1>1, <1>2, <1>3, <1>4 DEF WellMapped, CodeMapped
<1>6. CalleesMapped'
  BY <1>1, <1>2 DEF WellMapped, CalleesMapped, Running, Instr, Top
<1> QED
  BY <1>5, <1>6 DEF WellMapped

\* There is nothing to map before the program has been compiled.
LEMMA AlwaysMapped == Spec /\ StaysWellMapped => []WellMapped
<1>1. Init => WellMapped
  BY DEF Init, WellMapped, CodeMapped, CalleesMapped, Running
<1>2. WellMapped /\ [WellMapped']_vars => WellMapped'
  BY MapKept
<1> QED
  BY <1>1, <1>2, PTL DEF Spec, StaysWellMapped

\* In every program that has a stack map, at every moment, the activations
\* account for all the operands, all the variables and all the return
\* addresses there are: what vm.hpp:84-106 and 134-152 push and pop unchecked.
THEOREM Invariance == Spec /\ StaysWellMapped => []IInv
<1>1. Init => IInv
  BY InitKeeps
<1>2. IInv /\ WellMapped /\ WellMapped' /\ [Next]_vars => IInv'
  BY NextKeeps
<1> QED
  BY <1>1, <1>2, AlwaysMapped, PTL DEF Spec

\* Branches, calls and returns never lead into the middle of an instruction or
\* out of the code, and one returns only to behind a call (vm.cpp:690-784).
THEOREM StaysOnInstructions == Spec /\ StaysWellMapped => []OnInstructions
<1>1. IInv /\ WellMapped => OnInstructions
  <2> SUFFICES ASSUME IInv, WellMapped, status = "running" PROVE OnInstructions
    BY DEF OnInstructions
  <2>1. Accounted /\ ReturnsFollowCalls /\ CodeMapped
    BY DEF IInv, WellMapped
  <2>2. ip \in DOMAIN code
    BY <2>1, Here
  <2> QED
    BY <2>1, <2>2 DEF OnInstructions, ReturnsFollowCalls
<1> QED
  BY <1>1, Invariance, AlwaysMapped, PTL

\* An instruction never reads an operand that was not pushed: pop_data and
\* peek_data stay within the stack (vm.hpp:134-152).
THEOREM OperandsAlwaysThere == Spec /\ StaysWellMapped => []OperandsThere
<1>1. IInv /\ WellMapped => OperandsThere
  <2> SUFFICES ASSUME IInv, WellMapped, status = "running" PROVE Len(Reads) <= Len(data)
    BY DEF OperandsThere
  <2>1. Accounted /\ CodeMapped /\ CalleesMapped
    BY DEF IInv, WellMapped
  <2>2. /\ ip \in DOMAIN code
        /\ StraightMapped(ip) /\ BranchesMapped(ip) /\ CallsMapped(ip)
        /\ Before(ip).depth \in Nat /\ Len(data) \in Nat /\ Before(ip).depth <= Len(data)
    BY <2>1, Here
  <2>3. CASE Instr.op = "Fixnum" \/ Instr.op \in {"Array_Load", "Buffer_Load", "Store_Field"}
    <3>1. Len(Reads) = 2
      BY <2>3 DEF Reads, PopBranches, BranchesOrPops
    <3>2. \E k : Effect(code[ip]) = <<2, k>> /\ code[ip].op # "Drop"
      BY <2>3 DEF Effect, Instr
    <3>3. 2 <= Before(ip).depth
      BY <3>2, <2>1, StraightSteps DEF Steps
    <3> QED
      BY <3>1, <3>3, <2>2
  <2>4. CASE Instr.op \in {"Array_Store", "Buffer_Store"}
    <3>1. Len(Reads) = 3
      BY <2>4 DEF Reads, PopBranches, BranchesOrPops
    <3>2. Effect(code[ip]) = <<3, 0>> /\ code[ip].op # "Drop"
      BY <2>4 DEF Effect, Instr
    <3>3. 3 <= Before(ip).depth
      BY <3>2, <2>1, StraightSteps DEF Steps
    <3> QED
      BY <3>1, <3>3, <2>2
  <2>5. CASE Instr.op \in {"Fixnum_Unary", "Array_New", "Buffer_New", "Load_Field",
                           "Array_Length", "Buffer_Length", "Store_Local", "Store_Global",
                           "Dup_1"}
    <3>1. Len(Reads) = 1
      BY <2>5 DEF Reads, PopBranches, BranchesOrPops
    <3>2. \E k : Effect(code[ip]) = <<1, k>> /\ code[ip].op # "Drop"
      BY <2>5 DEF Effect, Instr
    <3>3. 1 <= Before(ip).depth
      BY <3>2, <2>1, StraightSteps DEF Steps
    <3> QED
      BY <3>1, <3>3, <2>2
  <2>6. CASE Instr.op \in PopBranches \cup BranchesOrPops
    <3>1. Len(Reads) = 1
      BY <2>6 DEF Reads, PopBranches, BranchesOrPops
    <3>2. 1 <= Before(ip).depth
      BY <2>6, <2>2 DEF BranchesMapped, Steps, Instr
    <3> QED
      BY <3>1, <3>2, <2>2
  <2>7. CASE Instr.op = "Call_Dyn"
    <3>1. Len(Reads) = 1
      BY <2>7 DEF Reads, PopBranches, BranchesOrPops
    <3>2. code[ip].arg.args + 1 <= Before(ip).depth
      BY <2>7, <2>2 DEF CallsMapped, Calls, Steps, Instr
    <3>3. code[ip].arg.args \in Nat
      <4>1. Top(0)[2] \in FnEntries /\ Function(Top(0)[2]).args = code[ip].arg.args
        BY <2>7, <2>1, <2>2 DEF CalleesMapped, Running, Instr
      <4> QED
        BY <4>1, <2>1 DEF CodeMapped, MapTyped
    <3>4. 1 <= Before(ip).depth
      BY <3>2, <3>3, <2>2
    <3> QED
      BY <3>1, <3>4, <2>2
  <2>8. CASE Reads = <<>>
    BY <2>8, <2>2
  <2> QED
    BY <2>3, <2>4, <2>5, <2>6, <2>7, <2>8 DEF Reads
<1> QED
  BY <1>1, Invariance, AlwaysMapped, PTL

\* A function reads and writes variables only in the frame its own prologue has
\* allocated, whatever has been called and has returned since (vm.cpp:833-1000).
THEOREM VariablesInOwnFrame == Spec /\ StaysWellMapped => []LocalsInFrame
<1>1. IInv /\ WellMapped => LocalsInFrame
  <2> SUFFICES ASSUME IInv, WellMapped, Running({"Load_Local", "Store_Local"})
               PROVE  fast_locals + Instr.arg < locals_top
    BY DEF LocalsInFrame
  <2>1. status = "running" /\ Accounted /\ FastIsCurrent /\ CodeMapped
    BY DEF IInv, WellMapped, Running
  <2>2. /\ Before(ip).framed
        /\ code[ip].arg \in 0 .. Function(Before(ip).fn).slots - 1
    BY <2>1, Here DEF CallsMapped, Running, Instr
  <2>3. /\ locals_frames # <<>> /\ Last(locals_frames) \in Nat
        /\ Function(Before(ip).fn).slots \in Nat
        /\ locals_top = Last(locals_frames) + Function(Before(ip).fn).slots
    BY <2>1, <2>2, OwnFrameOnTop
  <2>4. fast_locals = Last(locals_frames)
    BY <2>1, <2>3 DEF FastIsCurrent
  <2> QED
    BY <2>2, <2>3, <2>4 DEF Instr
<1> QED
  BY <1>1, Invariance, AlwaysMapped, PTL

\* When a program ends, every operand, frame and return address it pushed has
\* been taken off again, although each return only undoes what it was told to
\* when the function was compiled (ast_to_ir.cpp:442-461).
THEOREM EndsWithNothing == Spec /\ StaysWellMapped => []StacksEmptied
<1>1. IInv => StacksEmptied
  BY DEF IInv
<1> QED
  BY <1>1, Invariance, AlwaysMapped, PTL

\* A function leaves alone what its callers have pushed and not yet used, the
\* left operand of a sum whose right one is a call for instance, although all
\* functions work on one stack (vm.hpp:134-152).
THEOREM CallersOperandsUntouched == Spec /\ StaysWellMapped => CallersUntouched
<1>1. ASSUME IInv, WellMapped, [Next]_vars
      PROVE  [status = "running" /\ status' = "running" => CallersKept]_vars
  <2>1. CASE UNCHANGED vars
    BY <2>1
  <2>2. CASE Next /\ status = "running" /\ status' = "running"
    <3>1. Accounted /\ FastIsCurrent /\ ReturnsFollowCalls
      BY <2>2, <1>1 DEF IInv
    <3>2. Step
      BY <2>2 DEF Next, Compile, Done
    <3> QED
      BY <2>2, <3>1, <3>2, <1>1, StepKeeps
  <2> QED
    BY <2>1, <2>2, <1>1
<1> QED
  BY <1>1, Invariance, AlwaysMapped, PTL DEF Spec, CallersUntouched
=============================================================================
