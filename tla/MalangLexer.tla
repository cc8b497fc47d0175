----------------------------- MODULE MalangLexer -----------------------------
(***************************************************************************)
(* The lexer (src/src/lexer.cpp): source text to tokens.  The text is a    *)
(* sequence of lexemes, a lexeme being a maximal run of characters that    *)
(* the scanner reads in one go (a word, an operator, a run of blanks, a    *)
(* comment, a line end); how characters make up a lexeme is left out, how  *)
(* many they are is kept, because the lookahead counts characters.         *)
(***************************************************************************)
EXTENDS Naturals, Sequences

\* A lexeme: the token it would become, its text, its width in characters.
Lexeme(id, text, width) == [id |-> id, text |-> text, width |-> width]
Word(id) == Lexeme(id, id, 2)
NewLine == Lexeme("Newline", "", 1)
Blanks(n) == Lexeme("Blanks", "", n)
Comment == Lexeme("Comment", "", 3)
Stray == Lexeme("Stray", "", 1)     \* a character no token begins with
EndOfFile == Lexeme("EndOfFile", "", 0)

\* A token is what is left of a lexeme.
Token(l) == [id |-> l.id, text |-> l.text]
Terminator == [id |-> "StmtTerminator", text |-> ""]

Whitespace == {"Newline", "Blanks"}

\* The lexemes that consist of identifier characters.
IsWordLike(l) ==
    l.id \in {"Identifier", "Integer", "K_alias", "Log_And", "K_break", "K_continue",
              "K_extend", "K_else", "K_false", "K_for", "K_fn", "K_if", "K_in",
              "K_import", "K_match", "K_module", "Log_Or", "K_return", "K_true",
              "K_type", "K_unalias", "K_while"}

\* The lexeme that holds the character k places after the start of lexeme i
\* (Source_Code::peek).
RECURSIVE Peeked(_, _, _)
Peeked(src, i, k) ==
    IF i > Len(src) THEN EndOfFile
    ELSE IF k < src[i].width THEN src[i]
    ELSE Peeked(src, i + 1, k - src[i].width)

\* The characters between lexeme i and the next one that is no white space.
RECURSIVE BlankWidth(_, _)
BlankWidth(src, i) ==
    IF i <= Len(src) /\ src[i].id \in Whitespace
    THEN src[i].width + BlankWidth(src, i + 1)
    ELSE 0

BeginsWithElse(l) == l.id = "K_else" \/ l.text = "elsewhere"

\* match_ident(src, "else", offset): the four characters match, and no
\* identifier character follows.  What follows is looked up from the current
\* position, not from the offset.
MatchesElse(src, i, offset) ==
    /\ BeginsWithElse(Peeked(src, i, offset))
    /\ ~IsWordLike(Peeked(src, i, 4))

\* Asked at a line end, lexeme i.  The brace is looked for at the line end
\* itself, which it is not.
ShouldNotInsertSemicolonNext(src, i) ==
    \/ MatchesElse(src, i, BlankWidth(src, i))
    \/ Peeked(src, i, 0).id = "Open_Curly"

\* A seeded bug: no terminator after a closing bracket.
ReplaceNewlineButSquare ==
    {"Identifier", "K_break", "K_continue", "K_return", "Integer", "Real",
     "String", "Character", "Close_Paren", "Close_Curly"}

\* The tokens a statement can end with.
ReplaceNewlineWithSemicolon ==
    {"Identifier", "K_break", "K_continue", "K_return", "Integer", "Real",
     "String", "Character", "Close_Paren", "Close_Curly", "Close_Square"}

\* What a line end does to the tokens read so far.
AtNewline(src, i, toks) ==
    IF toks = <<>> THEN toks
    ELSE LET prev == toks[Len(toks)].id
         IN  IF prev = "Back_Slash" THEN SubSeq(toks, 1, Len(toks) - 1)
             ELSE IF /\ prev \in ReplaceNewlineWithSemicolon
                     /\ ~ShouldNotInsertSemicolonNext(src, i)
             THEN Append(toks, Terminator)
             ELSE toks

\* Lexer::lex: the loop over the text.  A character it does not know ends it
\* with the tokens so far, and without the terminator that closes a file.
RECURSIVE LexFrom(_, _, _)
LexFrom(src, i, toks) ==
    IF i > Len(src) THEN [ok |-> TRUE, toks |-> Append(toks, Terminator)]
    ELSE LET l == src[i]
         IN  CASE l.id = "Stray" -> [ok |-> FALSE, toks |-> toks]
               [] l.id \in {"Blanks", "Comment"} -> LexFrom(src, i + 1, toks)
               [] l.id = "Newline" -> LexFrom(src, i + 1, AtNewline(src, i, toks))
               [] OTHER -> LexFrom(src, i + 1, Append(toks, Token(l)))

Lex(src) == LexFrom(src, 1, <<>>)
=============================================================================
