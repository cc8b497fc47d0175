-------------------------------- MODULE MCvm --------------------------------
EXTENDS MalangVMInv, TLC

F(params, decls, literals, outer, results) ==
  [params |-> params, decls |-> decls, literals |-> literals, outer |-> outer,
   results |-> results]

\* a function of two arguments, one inside a function of one variable, and one
\* that needs no frame
Functions == {"first", "nested", "nop"}
Sources ==
  [f \in Functions |->
     CASE f = "first" -> F(2, 2, 0, 0, 1)
       [] f = "nested" -> F(0, 1, 0, 1, 0)
       [] f = "nop" -> F(0, 0, 0, 0, 0)]

\* one that makes an array literal and has no other variable
LiteralFunctions == {"id", "one"}
LiteralSources ==
  [f \in LiteralFunctions |->
     CASE f = "id" -> F(1, 1, 0, 0, 1)
       [] f = "one" -> F(0, 0, 1, 0, 1)]

ObjSymmetry == Permutations(Obj)
=============================================================================
