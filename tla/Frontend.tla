------------------------------ MODULE Frontend ------------------------------
(***************************************************************************)
(* Parser::parse and build_ast: a source text is lexed, then its top-level *)
(* items are parsed one by one and sorted into imports, definitions        *)
(* (first) and statements (second).  A source comes with what it was       *)
(* written to mean: `input' is a record of a kind, a tree and a text.      *)
(***************************************************************************)
EXTENDS MalangParser, MalangPrinter

CONSTANT Inputs     \* records [kind, ast, source]

VARIABLES input,        \* the text being read and the tree it stands for
          phase,        \* "lex", "parse", "done" or "died"
          st,           \* the parser's state
          allowImport,  \* is_allowed_to_import
          ast           \* what has been built so far

vars == <<input, phase, st, allowImport, ast>>

Ast(imports, first, second) ==
    [imports |-> imports, first |-> first, second |-> second]

Init ==
    /\ input \in Inputs
    /\ phase = "lex"
    /\ st = ParserState(<<>>)
    /\ allowImport = TRUE
    /\ ast = Ast(<<>>, <<>>, <<>>)

\* lexer.lex(code), whose verdict is not looked at.
LexSource ==
    /\ phase = "lex"
    /\ st' = ParserState(Lex(input.source).toks)
    /\ phase' = "parse"
    /\ UNCHANGED <<input, allowImport, ast>>

\* One round of build_ast's loop, at the first token that is no terminator.
Here == SkipTerminators(st)
Item ==
    FirstOf(<<"import", "alias", "typeDefinition", "extend", "boundFn", "statement">>, Here)

IsImport(n) == n.k = "import"
IsDefinition(n) ==
    \/ n.k \in {"alias", "typedef", "extend"}
    \/ n.k = "fn" /\ n.name # ""

AtEnd == At(Here, {"Invalid"})

\* A seeded bug: an import that comes too late is reported, not passed over.
TakeImportStays(item) ==
    /\ IsImport(item.n)
    /\ st' = IF allowImport THEN item.s ELSE Error(Here)
    /\ ast' = [ast EXCEPT !.imports = Append(@, item.n)]
    /\ UNCHANGED <<input, phase, allowImport>>

TakeImport(item) ==
    /\ IsImport(item.n)
    /\ st' = IF allowImport THEN item.s ELSE Error(item.s)
    /\ ast' = [ast EXCEPT !.imports = Append(@, item.n)]
    /\ UNCHANGED <<input, phase, allowImport>>

TakeDefinition(item) ==
    /\ IsDefinition(item.n)
    /\ st' = item.s
    /\ ast' = [ast EXCEPT !.first = Append(@, item.n)]
    /\ phase' = IF st'.dead THEN "died" ELSE phase
    /\ allowImport' = FALSE
    /\ UNCHANGED input

TakeStatement(item) ==
    /\ ~IsImport(item.n) /\ ~IsDefinition(item.n)
    /\ st' = item.s
    /\ ast' = [ast EXCEPT !.second = Append(@, item.n)]
    /\ phase' = IF st'.dead THEN "died" ELSE phase
    /\ allowImport' = FALSE
    /\ UNCHANGED input

TakeItem ==
    /\ phase = "parse" /\ ~AtEnd
    /\ \E item \in {Item} :
          /\ Parsed(item)
          /\ TakeImport(item) \/ TakeDefinition(item) \/ TakeStatement(item)

\* The end of the text, or an item nothing recognises: the rest is dropped,
\* and unless some alternative reported an error nobody is told.
Finish ==
    /\ phase = "parse"
    /\ \/ /\ AtEnd
          /\ st' = Here
          /\ UNCHANGED allowImport
       \/ /\ ~AtEnd
          /\ \E item \in {Item} : ~Parsed(item) /\ st' = item.s
          /\ allowImport' = FALSE
    /\ phase' = IF st'.dead THEN "died" ELSE "done"
    /\ UNCHANGED <<input, ast>>

Next == LexSource \/ TakeItem \/ Finish

Spec == Init /\ [][Next]_vars

Accepted == phase = "done" /\ st.errors = 0

-----------------------------------------------------------------------------
(***************************************************************************)
(* Properties.                                                             *)
(***************************************************************************)

TypeOK ==
    /\ phase \in {"lex", "parse", "done", "died"}
    /\ st.i \in 1..(Len(st.toks) + 1)
    /\ st.errors \in Nat
    /\ allowImport \in BOOLEAN

\* What the parser makes of an input of this kind is what was meant.
ReadBack(kind) ==
    (input.kind = kind /\ phase \in {"done", "died"}) =>
        Accepted /\ ast = input.ast

\* Printing a tree and reading the text gives the tree again, with the names
\* that are constant or private: the printer's parentheses, line ends and
\* indentation are what the lexer and the parser expect, and nothing of one
\* item (such as is_extending) is left when the next is parsed.
RoundTrip == ReadBack("printed")

\* Operators written without parentheses group as their precedence and the
\* rule "left to right" say (the reference is a definition of its own).
PrecedenceRespected == ReadBack("chain")

\* Two statements on two lines are two statements, with a comment, an empty
\* line or an indentation between them; a backslash joins them into one.
LinesSeparateStatements == ReadBack("lines")

\* README, "fib": the else of a braced if may stand on a line of its own.
ElseOnItsOwnLine == ReadBack("else")

\* Whatever the text, every item that is taken moves the parser on, which is
\* why build_ast's loop ends.
EveryItemConsumes ==
    [][phase = "parse" /\ phase' = "parse" => st'.i > st.i]_vars
=============================================================================
