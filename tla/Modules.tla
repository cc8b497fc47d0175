------------------------------ MODULE Modules ------------------------------
(***************************************************************************)
(* Imports (visit(Import_Node) and convert_intern of ast_to_ir.cpp,        *)
(* module_map.cpp, type_map.cpp): which files a program is compiled from,  *)
(* in which order, and which type a name in one of them stands for.        *)
(*                                                                         *)
(* A module is known by its name, and by nothing else; its file is looked  *)
(* for when it is first imported.  A name of a type is <<T>>, or <<m, T>>  *)
(* with the module's name in front.  What a file says is the world's: the  *)
(* modules it imports, the types it defines, its type aliases, the types   *)
(* of other modules it uses, and whether it can be parsed.  It uses each   *)
(* type it defines.                                                        *)
(*                                                                         *)
(* Left out: functions, which no other module can name (a name is looked   *)
(* for with its qualifiers in a scope that has it without), and variables. *)
(***************************************************************************)
EXTENDS Naturals, Sequences, FiniteSets

CONSTANTS
  Names,        \* of modules
  RootName,     \* what an import of the program's own file would say
  Builtin,      \* the modules that have no file: std::file and std::socket
  TypeNames,
  Dirs, Here,   \* directories, and the program's
  SearchDirs,   \* m_search_directories, a sequence
  Worlds,       \* [files, imports, types, aliases, uses, broken]
  Nil

Files == Dirs \X Names
Root == <<Here, RootName>>

\* <<T>> and <<m, T>>.
Types == [1 .. 1 -> TypeNames] \cup (Names \X TypeNames)

ASSUME NamesAssumption ==
    /\ IsFiniteSet(Names) /\ Builtin \subseteq Names /\ RootName \in Names \ Builtin
    /\ Here \in Dirs /\ SearchDirs \in Seq(Dirs)
    /\ Nil \notin Names \cup Files \cup Types

ASSUME WorldsAssumption ==
    \A w \in Worlds : /\ w.files \subseteq Files /\ w.broken \subseteq Files
                      /\ w.imports \in [Files -> Seq(Names)]
                      /\ w.types \in [Files -> SUBSET TypeNames]
                      /\ w.aliases \in [Files -> Seq([name : Types, to : Types])]
                      /\ w.uses \in [Files -> SUBSET (Names \X TypeNames)]

VARIABLES
  world,
  status,       \* "start", "running", "rejected", "aborted" or "compiled"
  color,        \* Module::m_color
  fileOf,       \* Module::m_abspath, Nil for ""
  stack,        \* the imports being processed, the innermost last
  locality,     \* the module whose scope names are bound in
  module,       \* Type_Map::m_module
  declared,     \* m_types: the names that stand for a type
  definers,     \* the files that have defined the type
  aliasedTo,    \* Type_Info::m_aliased_to
  token,        \* m_type_token: the type m_types_fast has at it
  marked,       \* the types with m_cycle set
  emitted,      \* the files whose code has been generated, in order
  links         \* [file, mod, name, type]: what a name used there stood for

aliases == <<aliasedTo, token, marked>>
tables == <<declared, definers, aliases>>
results == <<emitted, links>>
vars == <<world, status, color, fileOf, stack, locality, module, tables, results>>

Frame(mod, file) ==
    [mod |-> mod, file |-> file, aliases |-> world.aliases[file], left |-> world.imports[file],
     locality |-> locality, module |-> module]

Top == stack[Len(stack)]
Below == [i \in 1 .. Len(stack) - 1 |-> stack[i]]

-----------------------------------------------------------------------------
(***************************************************************************)
(* Names of types.                                                         *)
(***************************************************************************)
QualifiedAgain(mod, name) == IF mod = Nil THEN name ELSE <<mod>> \o name \* seeded bug
Qualified(mod, name) == IF mod = Nil \/ Len(name) > 1 THEN name ELSE <<mod>> \o name

\* get_type: a name as it stands comes first.
TypeFor(decl, mod, name) ==
    IF name \in decl THEN name
    ELSE IF Qualified(mod, name) \in decl THEN Qualified(mod, name)
    ELSE Nil

GetOrDeclare(decl, mod, name) ==
    IF TypeFor(decl, mod, name) # Nil THEN TypeFor(decl, mod, name) ELSE Qualified(mod, name)

\* While a file is parsed the types it defines are declared, and those it
\* mentions, whether or not their module has been loaded.
Parse(mod, file) ==
    declared' = declared \cup {GetOrDeclare(declared, mod, name) :
                                  name \in {<<t>> : t \in world.types[file]} \cup world.uses[file]}

-----------------------------------------------------------------------------
Init ==
    /\ world \in Worlds
    /\ status = "start"
    /\ color = [n \in Names |-> "white"]
    /\ fileOf = [n \in Names |-> Nil]
    /\ stack = <<>>
    /\ locality = Nil /\ module = Nil
    /\ declared = {} /\ definers = [t \in Types |-> {}]
    /\ aliasedTo = [t \in Types |-> Nil] /\ token = [t \in Types |-> t]
    /\ marked = {}
    /\ emitted = <<>> /\ links = {}

\* parse_to_code.
ParseRoot ==
    /\ status = "start"
    /\ IF Root \in world.broken
       THEN status' = "rejected" /\ UNCHANGED <<declared, stack>>
       ELSE /\ status' = "running"
            /\ Parse(Nil, Root)
            /\ stack' = <<Frame(Nil, Root)>>
    /\ UNCHANGED <<world, color, fileOf, locality, module, definers, aliases, results>>

-----------------------------------------------------------------------------
(***************************************************************************)
(* type alias name = to, while the file is parsed (aliased_to).            *)
(***************************************************************************)
Aliasing == status = "running" /\ stack # <<>> /\ Top.aliases # <<>>
To == GetOrDeclare(declared, module, Head(Top.aliases).to)
From == GetOrDeclare(declared \cup {To}, module, Head(Top.aliases).name)

\* type, what it is an alias to, and so on: what following the links reaches.
Linked(to) == {t \in Types : to[t] # Nil}
Followed(to, type) ==
    LET closed == {set \in SUBSET Linked(to) :
                      /\ type \in Linked(to) => type \in set
                      /\ \A t \in set : to[t] \in Linked(to) => to[t] \in set}
    IN  {t \in Linked(to) : \A set \in closed : t \in set}
Chain(to, type) == {type} \cup {to[t] : t \in Followed(to, type)}

OneAliasOn == [stack EXCEPT ![Len(stack)].aliases = Tail(@)]

\* The link is there already when its cycles are looked for: the walk from To
\* marks what it passes, and has come round when it meets From, or a mark.
Walk == Chain(aliasedTo, To)
CyclicSoon == From \in {To, aliasedTo[To]} \* seeded bug
Cyclic == From \in Walk \/ Walk \cap marked # {}

\* A second walk takes the marks off.
UnmarkedNext(types) == types \ (Walk \ {To}) \* seeded bug: begins one too late
Unmarked(types) == types \ Walk

DeclareAlias ==
    /\ Aliasing
    /\ aliasedTo[From] = Nil /\ ~Cyclic
    /\ aliasedTo' = [aliasedTo EXCEPT ![From] = To]
    /\ token' = [token EXCEPT ![From] = token[To]]
    /\ marked' = Unmarked(marked \cup Walk)
    /\ declared' = declared \cup {From, To}
    /\ stack' = OneAliasOn
    /\ UNCHANGED <<world, status, color, fileOf, locality, module, definers, results>>

\* A cycle is found after the link has been made, with the marks still on.
RefuseAlias ==
    /\ Aliasing
    /\ aliasedTo[From] # Nil \/ Cyclic
    /\ IF From = To \/ aliasedTo[From] # Nil
       THEN UNCHANGED <<aliasedTo, marked>>
       ELSE /\ aliasedTo' = [aliasedTo EXCEPT ![From] = To]
            /\ marked' = marked \cup Walk
    /\ declared' = declared \cup {From, To}
    /\ status' = "aborted"
    /\ UNCHANGED <<world, color, fileOf, stack, locality, module, definers, token, results>>

-----------------------------------------------------------------------------
(***************************************************************************)
(* visit(Import_Node).                                                     *)
(***************************************************************************)
Importing == status = "running" /\ stack # <<>> /\ Top.aliases = <<>> /\ Top.left # <<>>
Next1 == Head(Top.left)
FreshUnlessBlack == color[Next1] # "black" \* seeded bug
Fresh == color[Next1] = "white"
Advanced == [stack EXCEPT ![Len(stack)].left = Tail(@)]

\* Grey or black: loaded, or being loaded further out.
ImportAgainStuck == \* seeded bug: the import stays the next one
    /\ Importing /\ ~Fresh
    /\ UNCHANGED vars
ImportAgain ==
    /\ Importing /\ ~Fresh
    /\ stack' = Advanced
    /\ UNCHANGED <<world, status, color, fileOf, locality, module, tables, results>>

ImportBuiltin ==
    /\ Importing /\ Fresh /\ Next1 \in Builtin
    /\ color' = [color EXCEPT ![Next1] = "black"]
    /\ stack' = Advanced
    /\ UNCHANGED <<world, status, fileOf, locality, module, tables, results>>

\* Beside the file that imports it, or in the search directories.
PlacesBeside(file) == <<file[1]>> \* seeded bug
Places(file) == <<file[1]>> \o SearchDirs
Hits(name, file) == {i \in DOMAIN Places(file) : <<Places(file)[i], name>> \in world.files}
FindFile(name, file) ==
    LET i == CHOOSE i \in Hits(name, file) : \A j \in Hits(name, file) : i <= j
    IN  <<Places(file)[i], name>>

NeedsFile == Importing /\ Fresh /\ Next1 \notin Builtin

EnterModule ==
    /\ NeedsFile /\ Hits(Next1, Top.file) # {}
    /\ LET file == FindFile(Next1, Top.file)
       IN  /\ fileOf' = [fileOf EXCEPT ![Next1] = file]
           /\ IF file \in world.broken
              THEN status' = "aborted" /\ UNCHANGED <<stack, declared>>
              ELSE /\ Parse(Next1, file)
                   /\ stack' = Append(Advanced, Frame(Next1, file))
                   /\ UNCHANGED status
    /\ color' = [color EXCEPT ![Next1] = "grey"]
    /\ locality' = Next1 /\ module' = Next1
    /\ UNCHANGED <<world, definers, aliases, results>>

FileNotFound ==
    /\ NeedsFile /\ Hits(Next1, Top.file) = {}
    /\ color' = [color EXCEPT ![Next1] = "grey"]
    /\ status' = "aborted"
    /\ UNCHANGED <<world, fileOf, stack, locality, module, tables, results>>

-----------------------------------------------------------------------------
(***************************************************************************)
(* convert_intern after the imports, and the end of the import.            *)
(***************************************************************************)
ConvertingEarly == \* seeded bug
    status = "running" /\ stack # <<>> /\ Top.aliases = <<>> /\ Len(Top.left) <= 1
Converting == status = "running" /\ stack # <<>> /\ Top.aliases = <<>> /\ Top.left = <<>>

\* Definitions are converted before statements.  A use is good when the
\* qualifier is a loaded module and the type has been given its constructors.
Defined == {GetOrDeclare(declared, module, <<t>>) : t \in world.types[Top.file]}
Named == {<<t>> : t \in world.types[Top.file]} \cup world.uses[Top.file]
Known(name) ==
    LET type == TypeFor(declared, module, name)
    IN  /\ Len(name) > 1 => color[name[1]] # "white"
        /\ type # Nil
        /\ type \in Defined \/ definers[type] # {}

ConvertDefinitions ==
    definers' = [t \in DOMAIN definers |->
                    IF t \in Defined THEN definers[t] \cup {Top.file} ELSE definers[t]]

Give == \* the code is there, with what its names stand for
    /\ emitted' = Append(emitted, [mod |-> Top.mod, file |-> Top.file, scope |-> locality])
    /\ links' = links \cup {[file |-> Top.file, mod |-> Top.mod, name |-> name,
                           type |-> TypeFor(declared, module, name)] : name \in Named}

ConvertModuleKeeping(scope, types) == \* seeded bugs: what is restored
    /\ Converting /\ Top.mod # Nil
    /\ \A name \in Named : Known(name)
    /\ ConvertDefinitions /\ Give
    /\ color' = [color EXCEPT ![Top.mod] = "black"]
    /\ stack' = Below
    /\ locality' = scope /\ module' = types
    /\ UNCHANGED <<world, status, fileOf, declared, aliases>>
ConvertModuleKeepsScope == ConvertModuleKeeping(locality, Top.module)
ConvertModuleKeepsTypes == ConvertModuleKeeping(Top.locality, module)
ConvertModule ==
    /\ Converting /\ Top.mod # Nil
    /\ \A name \in Named : Known(name)
    /\ ConvertDefinitions /\ Give
    /\ color' = [color EXCEPT ![Top.mod] = "black"]
    /\ stack' = Below
    /\ locality' = Top.locality /\ module' = Top.module
    /\ UNCHANGED <<world, status, fileOf, declared, aliases>>

ConvertRoot ==
    /\ Converting /\ Top.mod = Nil
    /\ \A name \in Named : Known(name)
    /\ ConvertDefinitions /\ Give
    /\ stack' = Below
    /\ status' = "compiled"
    /\ UNCHANGED <<world, color, fileOf, locality, module, declared, aliases>>

UnknownType ==
    /\ Converting
    /\ \E name \in Named : ~Known(name)
    /\ status' = "aborted"
    /\ ConvertDefinitions
    /\ UNCHANGED <<world, color, fileOf, stack, locality, module, declared, aliases, results>>

-----------------------------------------------------------------------------
Compile ==
    \/ ParseRoot \/ DeclareAlias \/ RefuseAlias
    \/ ImportAgain \/ ImportBuiltin \/ EnterModule \/ FileNotFound
    \/ ConvertModule \/ ConvertRoot \/ UnknownType

Stopped == status \in {"rejected", "aborted", "compiled"} /\ UNCHANGED vars

Next == Compile \/ Stopped

\* One thread, which goes on as long as it can.
Spec == Init /\ [][Next]_vars /\ WF_vars(Compile)
-----------------------------------------------------------------------------
(***************************************************************************)
(* Properties.                                                             *)
(***************************************************************************)
Imported(file) == {world.imports[file][i] : i \in DOMAIN world.imports[file]}

\* The modules that importing name brings in, from the files found so far:
\* its imports, their imports, and so on.
ImportsOf(name) == IF fileOf[name] = Nil THEN {} ELSE Imported(fileOf[name])
ClosedFrom(name, set) ==
    ImportsOf(name) \subseteq set /\ \A n \in set : ImportsOf(n) \subseteq set
Brings(name) == {n \in Names : \A set \in SUBSET Names : ClosedFrom(name, set) => n \in set}

\* The types a file names without a qualifier: those it defines, its aliases
\* and what they are aliases to.
BareTypes(file) ==
    {t \in TypeNames :
        \/ t \in world.types[file]
        \/ \E i \in DOMAIN world.aliases[file] :
              <<t>> \in {world.aliases[file][i].name, world.aliases[file][i].to}}
RootTypes == BareTypes(Root)

FrameType ==
    [mod : Names \cup {Nil}, file : Files,
     aliases : Seq([name : Types, to : Types]), left : Seq(Names),
     locality : Names \cup {Nil}, module : Names \cup {Nil}]

\* The tables hold modules, files and names of types; the program's file is
\* at the bottom of the stack and nowhere else.
TypeOK ==
    /\ status \in {"start", "running", "rejected", "aborted", "compiled"}
    /\ color \in [Names -> {"white", "grey", "black"}]
    /\ fileOf \in [Names -> Files \cup {Nil}]
    /\ stack \in Seq(FrameType)
    /\ \A i \in DOMAIN stack : stack[i].mod = Nil <=> i = 1
    /\ locality \in Names \cup {Nil} /\ module \in Names \cup {Nil}
    /\ aliasedTo \in [Types -> Types \cup {Nil}] /\ token \in [Types -> Types]
    /\ marked \subseteq Types
    /\ declared \subseteq Types /\ definers \in [Types -> SUBSET Files]
    /\ emitted \in Seq([mod : Names \cup {Nil}, file : Files, scope : Names \cup {Nil}])
    /\ links \subseteq [file : Files, mod : Names \cup {Nil}, name : Types, type : Types]

\* Colours stop the recursion of imports: a module that is being processed is
\* grey, so it is on the stack once; one whose code has been generated is
\* black, and no module's code is generated twice (ast_to_ir.cpp:46, 117).
ProcessedOnce ==
    /\ \A i, j \in DOMAIN stack : stack[i].mod = stack[j].mod => i = j
    /\ \A i, j \in DOMAIN emitted : emitted[i].mod = emitted[j].mod => i = j
    /\ status = "running" =>
         \A n \in Names : color[n] = "grey" <=> \E i \in DOMAIN stack : stack[i].mod = n
    /\ \A i \in DOMAIN emitted : emitted[i].mod # Nil => color[emitted[i].mod] = "black"

\* The code of a file runs after the code of everything it imports, cycles of
\* imports excepted (convert_intern visits the imports before the bodies).
AfterItsImports ==
    \A i \in DOMAIN emitted : \A n \in Imported(emitted[i].file) \ Builtin :
        \/ \E j \in 1 .. i - 1 : emitted[j].mod = n
        \/ emitted[i].mod \in Brings(n)

\* Names are bound in the scope of the file's own module, also after its
\* imports have been processed (the deferred restore, ast_to_ir.cpp:68-79).
OwnScope ==
    /\ \A i \in DOMAIN emitted : emitted[i].scope = emitted[i].mod
    /\ status = "running" /\ stack # <<>> =>
           locality = Top.mod /\ module = Top.mod

MeansItsType(l) ==
    LET from == IF Len(l.name) = 1 THEN l.mod ELSE l.name[1]
        base == l.name[Len(l.name)]
    IN  \/ from = Nil /\ l.type = <<base>>
        \/ from # Nil /\ base \notin RootTypes
             /\ l.type = <<from, base>> /\ definers[l.type] = {fileOf[from]}
        \/ from # Nil /\ base \in RootTypes

\* In code that has been generated, a type named without a qualifier is the
\* one this file defines; a type m::T is the one defined by m's file, and by
\* no other.  A type the program's own file mentions takes over every module's
\* type of that name (get_type tries the bare name first, type_map.cpp:193).
NamesMeanTheirTypes == \A l \in links : MeansItsType(l)

EndOf(to, type) == CHOOSE t \in Chain(to, type) : to[t] = Nil

\* Following aliases comes to an end (aliased_to_top has no check of its own),
\* and a token, which an alias copies when it is made, still leads to the type
\* its owner stands for when that target has become an alias itself
\* (reflection.cpp:230-254).
AliasesResolve ==
    status # "aborted" =>
        \A t \in Types : /\ \E u \in Chain(aliasedTo, t) : aliasedTo[u] = Nil
                         /\ EndOf(aliasedTo, token[t]) = EndOf(aliasedTo, t)

\* What may be wrong with a program: a file that is missing or does not parse,
\* a cycle of imports, a second alias of one name or a cycle of aliases, a type
\* the program's file names as a module's file does, and a use of a type that
\* the module named does not have.
FileFails ==
    \E n \in Names :
        /\ color[n] = "grey"
        /\ IF fileOf[n] = Nil
           THEN \A i \in DOMAIN SearchDirs : <<SearchDirs[i], n>> \notin world.files
           ELSE fileOf[n] \in world.broken

ImportCycle == \E n \in Names : n \in Brings(n)

AliasesOf(mod, file) ==
    {<<Qualified(mod, world.aliases[file][i].name), Qualified(mod, world.aliases[file][i].to), mod, i>> :
        i \in DOMAIN world.aliases[file]}
Wanted == AliasesOf(Nil, Root) \cup UNION {AliasesOf(n, fileOf[n]) : n \in {m \in Names : fileOf[m] # Nil}}
WantedLinks ==
    [t \in Types |-> IF \E p \in Wanted : p[1] = t
                     THEN (CHOOSE p \in Wanted : p[1] = t)[2] ELSE Nil]
AliasesClash ==
    \/ \E p, q \in Wanted : p[1] = q[1] /\ p # q
    \/ \E t \in Types : WantedLinks[t] # Nil /\ t \in Chain(WantedLinks, WantedLinks[t])

RootHides ==
    \E n \in Names : fileOf[n] # Nil /\ RootTypes \cap BareTypes(fileOf[n]) # {}

TypeMissing ==
    /\ stack # <<>>
    /\ \E use \in world.uses[Top.file] :
          \/ use[1] \notin Imported(Top.file) \ Builtin
          \/ fileOf[use[1]] # Nil /\ use[2] \notin world.types[fileOf[use[1]]]

\* Compilation is given up for one of these reasons only: in every other case
\* what is used has been defined by the time it is used.
OnlyBrokenWorldsAbort ==
    status = "aborted" =>
        FileFails \/ ImportCycle \/ AliasesClash \/ RootHides \/ TypeMissing

\* The imports of finitely many modules come to an end, whatever cycles they
\* form.
Ends == <>(status \in {"rejected", "aborted", "compiled"})
=============================================================================
