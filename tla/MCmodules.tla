----------------------------- MODULE MCmodules -----------------------------
(***************************************************************************)
(* Worlds for Modules: two modules a and b, each with a file beside the    *)
(* program, in the search directory, in both or nowhere; every import      *)
(* graph over them, with the program's own name and a built-in module.     *)
(***************************************************************************)
EXTENDS ModulesInv, TLC

MCNames == {"main", "a", "b", "s"}
MCBuiltin == {"s"}
MCTypeNames == {"T", "U", "V"}
MCDirs == {"here", "lib"}
MCSearchDirs == <<"here", "lib">>

ModuleFiles == MCDirs \X {"a", "b"}
Program == <<"here", "main">>

Orders == {<<>>, <<"a">>, <<"b">>, <<"a", "b">>, <<"b", "a">>}
ProgramOrders == Orders \cup {<<"s", "a">>, <<"a", "s">>, <<"main">>, <<"main", "a">>, <<"b", "main">>}

\* A file in lib is told from the one beside the program by what it imports.
\* A module's file defines T, and uses the T of what it imports.
TypesUsed(order) == {<<order[i], "T">> : i \in {j \in DOMAIN order : order[j] \in {"a", "b"}}}

World(files, ofRoot, ofA, ofB, inLib, rootTypes, broken, aliasing) ==
    LET imports == [f \in MCDirs \X MCNames |->
                       CASE f = Program -> ofRoot
                         [] f = <<"here", "a">> -> ofA
                         [] f = <<"here", "b">> -> ofB
                         [] f \in {<<"lib", "a">>, <<"lib", "b">>} -> inLib
                         [] OTHER -> <<>>]
    IN  [files |-> files \cup {Program}, imports |-> imports,
         types |-> [f \in MCDirs \X MCNames |->
                       IF f = Program THEN rootTypes ELSE IF f \in ModuleFiles THEN {"T"} ELSE {}],
         aliases |-> [f \in MCDirs \X MCNames |->
                         IF f \in DOMAIN aliasing THEN aliasing[f] ELSE <<>>],
         uses |-> [f \in MCDirs \X MCNames |-> TypesUsed(imports[f])],
         broken |-> broken]

NoAliases == [f \in {} |-> <<>>]

\* type alias name = to.  The longest cycle goes through a twice.
Alias(name, to) == [name |-> name, to |-> to]
U == <<"U">>
V == <<"V">>
AliasesOfRoot == {<<>>, <<Alias(U, <<"a", "U">>)>>, <<Alias(U, <<"T">>)>>, <<Alias(V, <<"a", "U">>)>>,
                  <<Alias(V, <<"b", "U">>), Alias(V, <<"b", "U">>)>>}
AliasesOfA == {<<>>, <<Alias(U, <<"b", "U">>)>>, <<Alias(U, V)>>,
               <<Alias(U, V), Alias(V, <<"b", "U">>)>>, <<Alias(V, <<"b", "U">>), Alias(U, V)>>}
AliasesOfB == {<<>>, <<Alias(U, <<"a", "U">>)>>, <<Alias(U, <<"T">>)>>, <<Alias(U, U)>>}

\* What an absent file would say makes no difference.
MCWorlds ==
    {World(files, ofRoot, ofA, ofB, inLib, rootTypes, {}, NoAliases) :
        files \in SUBSET ModuleFiles, ofRoot \in ProgramOrders,
        ofA \in {<<>>, <<"b">>, <<"a", "b">>}, ofB \in {<<>>, <<"a">>, <<"b", "a">>},
        inLib \in {<<>>, <<"a">>}, rootTypes \in {{}, {"T"}}}
    \cup {World(ModuleFiles, ofRoot, <<"b">>, <<>>, <<>>, {}, {f}, NoAliases) :
             ofRoot \in Orders, f \in {Program, <<"here", "a">>, <<"here", "b">>}}
    \cup {World(ModuleFiles, ofRoot, ofA, ofB, <<>>, {}, {},
                Program :> ra @@ <<"here", "a">> :> aa @@ <<"here", "b">> :> ba) :
             ofRoot \in {<<"a">>, <<"b", "a">>}, ofA \in {<<>>, <<"b">>}, ofB \in {<<>>, <<"a">>},
             ra \in AliasesOfRoot, aa \in AliasesOfA, ba \in AliasesOfB}
    \cup {[World(ModuleFiles, ofRoot, ofA, <<>>, <<>>, {}, {}, NoAliases)
              EXCEPT !.uses[<<"here", "a">>] = {used}] :
             ofRoot \in {<<"a">>, <<"a", "b">>, <<"b", "a">>}, ofA \in {<<>>, <<"b">>},
             used \in {<<"b", "T">>, <<"b", "V">>}}
=============================================================================
