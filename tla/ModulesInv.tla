----------------------------- MODULE ModulesInv -----------------------------
(***************************************************************************)
(* The inductive invariants behind the theorems about Modules.             *)
(*                                                                         *)
(* IInv follows the stack of imports: the program's file is at its bottom, *)
(* the modules above it are the grey ones, each once, and every frame has  *)
(* saved the module of the frame below it.                                 *)
(***************************************************************************)
EXTENDS Modules

Colors == {"white", "grey", "black"}
Statuses == {"start", "running", "rejected", "aborted", "compiled"}
Mods == Names \cup {Nil}
EmittedType == [mod : Mods, file : Files, scope : Mods]

Typed ==
    /\ world \in Worlds
    /\ status \in Statuses
    /\ color \in [Names -> Colors]
    /\ stack \in Seq(FrameType)
    /\ locality \in Mods /\ module \in Mods
    /\ emitted \in Seq(EmittedType)

Bottom == \A i \in 1 .. Len(stack) : stack[i].mod = Nil <=> i = 1

OnceOnStack ==
    \A i, j \in 1 .. Len(stack) : stack[i].mod = stack[j].mod => i = j

OnceEmitted ==
    \A i, j \in 1 .. Len(emitted) : emitted[i].mod = emitted[j].mod => i = j

GreyOnStack ==
    \A n \in Names : color[n] = "grey" <=> \E i \in 1 .. Len(stack) : stack[i].mod = n

EmittedBlack ==
    \A i \in 1 .. Len(emitted) : emitted[i].mod # Nil => color[emitted[i].mod] = "black"

SavedBelow ==
    \A i \in 1 .. Len(stack) :
        i # 1 => stack[i].locality = stack[i - 1].mod /\ stack[i].module = stack[i - 1].mod

OwnModule == locality = Top.mod /\ module = Top.mod

ScopeIsMod == \A i \in 1 .. Len(emitted) : emitted[i].scope = emitted[i].mod

Started == status = "start" =>
    /\ stack = <<>> /\ emitted = <<>> /\ locality = Nil /\ module = Nil
    /\ \A n \in Names : color[n] = "white"

Running == status = "running" =>
    /\ stack # <<>>
    /\ GreyOnStack
    /\ OwnModule
    /\ \A i \in 1 .. Len(emitted) : emitted[i].mod # Nil

IInv ==
    /\ Typed /\ Bottom /\ OnceOnStack /\ OnceEmitted /\ EmittedBlack
    /\ SavedBelow /\ ScopeIsMod /\ Started /\ Running

-----------------------------------------------------------------------------
(***************************************************************************)
(* Types of the tables (the rest of TypeOK).                               *)
(***************************************************************************)
TablesTyped ==
    /\ fileOf \in [Names -> Files \cup {Nil}]
    /\ aliasedTo \in [Types -> Types \cup {Nil}] /\ token \in [Types -> Types]
    /\ marked \subseteq Types
    /\ declared \subseteq Types /\ definers \in [Types -> SUBSET Files]
    /\ links \subseteq [file : Files, mod : Mods, name : Types, type : Types]

-----------------------------------------------------------------------------
(***************************************************************************)
(* The order of the code.  The file of a module is looked for once, when   *)
(* it turns grey, and its code is there when it turns black.  An import    *)
(* that is no longer ahead of its frame is not white, so it is black or on *)
(* the stack; and whatever is on the stack brings in what is above it.     *)
(***************************************************************************)
WhiteUnknown == \A n \in Names : color[n] = "white" => fileOf[n] = Nil

FrameFiles ==
    \A i \in 1 .. Len(stack) :
        IF i = 1 THEN stack[i].file = Root ELSE stack[i].file = fileOf[stack[i].mod]

BlackEmitted ==
    \A n \in Names \ Builtin :
        color[n] = "black" => \E j \in 1 .. Len(emitted) : emitted[j].mod = n

Handled(frame) ==
    /\ \A k \in 1 .. Len(frame.left) : frame.left[k] \in Imported(frame.file)
    /\ \A n \in Imported(frame.file) :
           color[n] = "white" => \E k \in 1 .. Len(frame.left) : frame.left[k] = n

ImportsHandled == \A i \in 1 .. Len(stack) : Handled(stack[i])

BringsAbove ==
    \A i, j \in 1 .. Len(stack) : 1 < i /\ i < j => stack[j].mod \in Brings(stack[i].mod)

OrderInv ==
    /\ WhiteUnknown /\ FrameFiles /\ BlackEmitted /\ ImportsHandled
    /\ BringsAbove /\ AfterItsImports

-----------------------------------------------------------------------------
(***************************************************************************)
(* The meaning of names.  Only the program's own file declares a type by   *)
(* its bare name; what a file defines and uses has been declared while it  *)
(* is on the stack; and m::T is defined by the file of m or not at all.    *)
(***************************************************************************)
Done(frame) == Len(world.aliases[frame.file]) - Len(frame.aliases)
Ahead(frame) ==
    /\ Len(frame.aliases) <= Len(world.aliases[frame.file])
    /\ \A k \in 1 .. Len(frame.aliases) :
          frame.aliases[k] = world.aliases[frame.file][Done(frame) + k]
AliasesAhead == \A i \in 1 .. Len(stack) : Ahead(stack[i])

BareIsRoots == \A t \in TypeNames : <<t>> \in declared => t \in RootTypes

MentionedBy(frame) ==
    /\ \A t \in world.types[frame.file] :
           <<t>> \in declared \/ Qualified(frame.mod, <<t>>) \in declared
    /\ world.uses[frame.file] \subseteq declared

Mentioned == \A i \in 1 .. Len(stack) : MentionedBy(stack[i])

DefinedByOwner ==
    \A m \in Names : \A t \in TypeNames : definers[<<m, t>>] \subseteq {fileOf[m]}

NamesInv ==
    /\ AliasesAhead /\ BareIsRoots /\ Mentioned /\ DefinedByOwner
    /\ NamesMeanTheirTypes

-----------------------------------------------------------------------------
(***************************************************************************)
(* Aliases.  No set of them is closed, so none goes round; and the type a  *)
(* token leads to is the one its owner leads to.                           *)
(***************************************************************************)
Acyclic(to) == \A set \in SUBSET Linked(to) : set # {} => \E t \in set : to[t] \notin set

AliasInv ==
    status # "aborted" =>
        /\ Acyclic(aliasedTo)
        /\ \A t \in Types : EndOf(aliasedTo, token[t]) = EndOf(aliasedTo, t)

-----------------------------------------------------------------------------
(***************************************************************************)
(* Reasons to give up.  As long as the program's file hides no type, every *)
(* link between types is an alias some file asked for, and not one that is *)
(* still ahead; and every type of a module whose code is there is defined. *)
(***************************************************************************)
AliasMade ==
    /\ status = "start" => \A t \in Types : aliasedTo[t] = Nil
    /\ status # "aborted" /\ ~RootHides =>
           \A t \in Types :
               aliasedTo[t] # Nil =>
                   \E p \in Wanted :
                       /\ p[1] = t /\ p[2] = aliasedTo[t]
                       /\ \A i \in 1 .. Len(stack) :
                             stack[i].mod = p[3] => p[4] <= Done(stack[i])

DefinedWhenBlack ==
    ~RootHides =>
        \A n \in Names \ Builtin :
            color[n] = "black" =>
                /\ fileOf[n] # Nil
                /\ \A t \in world.types[fileOf[n]] : definers[<<n, t>>] # {}

\* No type is left marked for the next alias to come upon.
NoMarksLeft == status # "aborted" => marked = {}

AbortInv == AliasMade /\ NoMarksLeft /\ DefinedWhenBlack /\ OnlyBrokenWorldsAbort
=============================================================================
