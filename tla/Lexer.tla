---- MODULE Lexer ----
(****************************************************************************)
(* lexer/aec_lexer.c and the strike checks of lexer/unix_strike.c.           *)
(*                                                                          *)
(* A source is a sequence of atoms: a run of letters, a run of digits, a     *)
(* closed string literal, one punctuation character, " " or "NL".  What is   *)
(* kept is how atoms join into tokens (an identifier swallows "/" and "-",   *)
(* the longest operator wins), which words are keywords, and the spellings   *)
(* on which the compiler strikes, that is exits.  A token is its type and    *)
(* its lexeme, the atoms it was made of.                                     *)
(****************************************************************************)
EXTENDS Naturals, Sequences, SequencesExt

CONSTANTS
    Letters,    \* the runs of letters a source may hold
    Digits,     \* the runs of digits
    Literals    \* the closed string literals

Token(t, v) == [t |-> t, v |-> v]

\* The keyword table; every other word is an identifier.
KeywordTypes ==
    [import |-> "IMPORT", rimport |-> "RIMPORT", use |-> "USE", let |-> "LET",
     var |-> "VAR", const |-> "CONST", pbit |-> "PBIT", func |-> "FUNC",
     fn |-> "FUNC", extern |-> "EXTERN", async |-> "ASYNC", await |-> "AWAIT",
     return |-> "RETURN", if |-> "IF", else |-> "ELSE", guard |-> "GUARD",
     while |-> "WHILE", for |-> "FOR", in |-> "IN", match |-> "MATCH",
     struct |-> "STRUCT", enum |-> "ENUM", protocol |-> "PROTOCOL",
     class |-> "CLASS", extension |-> "EXTENSION", switch |-> "SWITCH",
     case |-> "CASE", default |-> "DEFAULT", defer |-> "DEFER", as |-> "AS",
     break |-> "BREAK", continue |-> "CONTINUE", true |-> "TRUE",
     false |-> "FALSE", nil |-> "NIL", null |-> "NIL", self |-> "SELF",
     metal |-> "METAL", ptr |-> "PTR", view |-> "VIEW", reg |-> "REG",
     unmanaged |-> "UNMANAGED", asm |-> "ASM", bytes |-> "BYTES",
     syntax |-> "SYNTAX", using |-> "USING", map |-> "MAP",
     pattern |-> "PATTERN", PhysAddr |-> "PHYSADDR", VirtAddr |-> "VIRTADDR",
     silicon |-> "SILICON", pipeline |-> "PIPELINE", phys |-> "PHYS",
     sys |-> "SYS"]

WordType(v) ==
    IF Len(v) = 1 /\ v[1] \in DOMAIN KeywordTypes THEN KeywordTypes[v[1]] ELSE "IDENT"

\* Operators of two and three characters, tried before those of one.
LongOperators ==
    {<<<<".", ".", ".">>, "RANGE3">>, <<<<".", ".", "<">>, "RANGE_EXCLUSIVE">>,
     <<<<".", ".">>, "RANGE">>, <<<<"<", "<">>, "LSHIFT">>, <<<<"<", "=">>, "LE">>,
     <<<<">", ">">>, "RSHIFT">>, <<<<">", "=">>, "GE">>, <<<<"+", "=">>, "PLUS_ASSIGN">>,
     <<<<"-", "=">>, "MINUS_ASSIGN">>, <<<<"-", ">">>, "ARROW">>,
     <<<<"*", "=">>, "STAR_ASSIGN">>, <<<<"/", "=">>, "SLASH_ASSIGN">>,
     <<<<"=", "=">>, "EQ">>, <<<<"!", "=">>, "NE">>, <<<<"&", "&">>, "AND">>,
     <<<<"&", "=">>, "AMPERSAND_ASSIGN">>, <<<<"|", "|">>, "OR">>,
     <<<<"|", "=">>, "PIPE_ASSIGN">>, <<<<"^", "=">>, "CARET_ASSIGN">>,
     <<<<":", ":">>, "SCOPE">>, <<<<"?", "?">>, "NULL_COALESCE">>}

ShortOperators ==
    {<<<<"<">>, "LT">>, <<<<">">>, "GT">>, <<<<"+">>, "PLUS">>, <<<<"-">>, "MINUS">>,
     <<<<"*">>, "STAR">>, <<<<"/">>, "SLASH">>, <<<<"div">>, "DIVIDE">>,
     <<<<"\\">>, "BACKSLASH">>, <<<<"%">>, "PERCENT">>, <<<<"=">>, "ASSIGN">>,
     <<<<"!">>, "EXCLAIM">>, <<<<"&">>, "AMPERSAND">>, <<<<"|">>, "PIPE">>,
     <<<<"^">>, "CARET">>, <<<<"~">>, "TILDE">>, <<<<".">>, "DOT">>,
     <<<<"(">>, "LPAREN">>, <<<<")">>, "RPAREN">>, <<<<"{">>, "LBRACE">>,
     <<<<"}">>, "RBRACE">>, <<<<"[">>, "LBRACKET">>, <<<<"]">>, "RBRACKET">>,
     <<<<",">>, "COMMA">>, <<<<":">>, "COLON">>, <<<<";">>, "SEMICOLON">>,
     <<<<"?">>, "QUESTION">>, <<<<"@">>, "AT">>, <<<<"$">>, "DOLLAR">>,
     <<<<"'">>, "TICK">>, <<<<"\"">>, "QUOTE">>, <<<<"NL">>, "NEWLINE">>}

\* Where the run of atoms from i on whose members are all in A ends.
RunEnd(src, i, A) ==
    CHOOSE j \in i..Len(src) + 1 :
        /\ \A k \in i..j - 1 : src[k] \in A
        /\ j <= Len(src) => src[j] \notin A

WordAtoms == Letters \cup Digits \cup {"_", "/", "-"}

\* An identifier goes on over digits, "_", "/" and "-".
Word(src, i) ==
    LET v == SubSeq(src, i, RunEnd(src, i, WordAtoms) - 1)
    IN  Token(WordType(v), v)

\* Digits, and a fraction when a "." is followed by digits.
Number(src, i) ==
    IF i + 2 <= Len(src) /\ src[i + 1] = "." /\ src[i + 2] \in Digits
    THEN Token("FLOAT", SubSeq(src, i, i + 2))
    ELSE Token("INT", <<src[i]>>)

Operators == LongOperators \cup ShortOperators

\* The operators that start at i; the lexer takes the longest.
OperatorsAt(src, i) == {op \in Operators : op[1][1] = src[i] /\ IsPrefix(op[1], SubSeq(src, i, Len(src)))}

Operator(src, i) ==
    LET ops == OperatorsAt(src, i)
        op == CHOOSE o \in ops : \A p \in ops : Len(p[1]) <= Len(o[1])
    IN  Token(op[2], op[1])

\* The spellings the compiler refuses by exiting: a "." that is not part of a
\* range or a number, "->", an identifier with "_", and the word asm.
Strikes(tok) ==
    \/ tok.t = "DOT"
    \/ tok.t = "ARROW"
    \/ tok.t \notin {"STRING", "INT", "FLOAT"} /\ Contains(tok.v, "_")
    \/ tok.v = <<"asm">>

\* A comment runs to the end of its line; one that begins with "/*" runs past
\* the next "*/", or to the end of the text.
Follows(src, i, a, b) == src[i] = a /\ i < Len(src) /\ src[i + 1] = b
IsBlockComment(src, i) == Follows(src, i, "/", "*")
IsComment(src, i) == src[i] = "#" \/ Follows(src, i, "/", "/") \/ IsBlockComment(src, i)

CommentEnd(src, i) ==
    IF ~IsBlockComment(src, i)
    THEN RunEnd(src, i, {src[k] : k \in 1..Len(src)} \ {"NL"})
    ELSE LET closing == {j \in i + 2..Len(src) : Follows(src, j, "*", "/")}
         IN  IF closing = {} THEN Len(src) + 1 ELSE Min(closing) + 2

NextToken(src, i) ==
    IF src[i] \in Letters \cup {"_"} THEN Word(src, i)
    ELSE IF src[i] \in Digits THEN Number(src, i)
    ELSE IF src[i] \in Literals THEN Token("STRING", <<src[i]>>)
    ELSE Operator(src, i)

\* The tokens from atom i on, after those in toks; a strike ends the process.
RECURSIVE Scan(_, _, _)
Scan(src, i, toks) ==
    IF i > Len(src) THEN [toks |-> Append(toks, Token("EOF", <<>>)), struck |-> FALSE]
    ELSE IF src[i] = " " THEN Scan(src, i + 1, toks)
    ELSE IF IsComment(src, i)
    THEN Scan(src, CommentEnd(src, i), toks)
    ELSE LET tok == NextToken(src, i)
         IN  IF Strikes(tok) THEN [toks |-> toks, struck |-> TRUE]
             ELSE Scan(src, i + Len(tok.v), Append(toks, tok))

Lex(src) == Scan(src, 1, <<>>)
====
