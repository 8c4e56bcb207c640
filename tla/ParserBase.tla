---- MODULE ParserBase ----
(****************************************************************************)
(* The part of parser/aec_parser.c below expressions: the token cursor, the  *)
(* split of ">>" between two generic arguments, names, import specifiers,    *)
(* attributes, types, and the raw blocks (asm, bytes, map, syntax).          *)
(*                                                                          *)
(* A parsing function maps a parser state to the parser state it leaves:     *)
(* toks and pos are the token array and the cursor, panic is panic_mode (one *)
(* error sets it, max_errors is 1), vgt is has_virtual_gt_token, n the node  *)
(* just returned (Nil for NULL), and hung says that a loop can make no more  *)
(* progress.  A node is its kind, its text and its children.                 *)
(****************************************************************************)
EXTENDS Lexer, Integers, FiniteSetsExt

CONSTANTS
    AsciiText,    \* the text of the string literals that hold a map's layout
    NumberOf      \* the value of each run of digits

Node(k, v, c) == [k |-> k, v |-> v, c |-> c]
Nil == Node("NULL", <<>>, <<>>)

\* parser_create over the tokens of a source.
Start(toks) ==
    [toks |-> toks, pos |-> 1, panic |-> FALSE, vgt |-> FALSE, n |-> Nil, hung |-> FALSE]

(****************************************************************************)
(* The cursor.                                                               *)
(****************************************************************************)
Is(s, K) == s.toks[s.pos].t \in K
Lexeme(s) == s.toks[s.pos].v
Named(s, w) == Is(s, {"IDENT"}) /\ Lexeme(s) = <<w>>

Ret(s, n) == [s EXCEPT !.n = n]
Adv(s) == IF Is(s, {"EOF"}) THEN s ELSE [s EXCEPT !.pos = @ + 1]
Err(s) == [s EXCEPT !.panic = TRUE]
Fail(s) == Ret(Err(s), Nil)
Opt(s, k) == IF Is(s, {k}) THEN Adv(s) ELSE s
Expect(s, k) == IF Is(s, {k}) THEN Adv(s) ELSE Err(s)

\* The loop the parser is in will repeat itself for ever.
Hang(s) == [s EXCEPT !.hung = TRUE, !.pos = Len(s.toks)]
Stuck(s, t) == t.pos = s.pos /\ t.panic = s.panic /\ t.vgt = s.vgt

\* Over the tokens of the kinds in K; up to the first token of a kind in K.
RECURSIVE Skip(_, _), SkipTo(_, _)
Skip(s, K) == IF Is(s, K) THEN Skip([s EXCEPT !.pos = @ + 1], K) ELSE s
SkipTo(s, K) == IF Is(s, K \cup {"EOF"}) THEN s ELSE SkipTo([s EXCEPT !.pos = @ + 1], K)
NL(s) == Skip(s, {"NEWLINE"})
Separators(s) == Skip(s, {"NEWLINE", "SEMICOLON"})

\* The lexemes from the cursor of s to that of t.
Lexemes(s, t) == FlattenSeq([i \in 1..t.pos - s.pos |-> s.toks[s.pos + i - 1].v])

\* The close that matches an open already consumed, or the end.
RECURSIVE Closing(_, _, _, _)
Closing(s, open, close, depth) ==
    IF Is(s, {"EOF"}) \/ (Is(s, {close}) /\ depth = 1) THEN s
    ELSE Closing(Adv(s), open, close,
                 depth + (IF Is(s, {open}) THEN 1 ELSE IF Is(s, {close}) THEN -1 ELSE 0))

\* A mutant of CloseAngle: the second half of a ">>" is dropped.
CloseAngleDropsHalf(s) ==
    IF s.vgt THEN [s EXCEPT !.vgt = FALSE]
    ELSE IF Is(s, {"GT", "RSHIFT"}) THEN Adv(s)
    ELSE Err(s)

\* A ">" that closes a generic argument list; the first half of a ">>" leaves
\* the second half behind as a virtual ">".
CloseAngle(s) ==
    IF s.vgt THEN [s EXCEPT !.vgt = FALSE]
    ELSE IF Is(s, {"GT"}) THEN Adv(s)
    ELSE IF Is(s, {"RSHIFT"}) THEN [Adv(s) EXCEPT !.vgt = TRUE]
    ELSE Err(s)

(****************************************************************************)
(* Names, import specifiers, attributes.                                     *)
(****************************************************************************)
SegmentKinds == {"IDENT", "PTR", "VIEW", "REG", "METAL", "ASM", "BYTES", "SYS"}
MemberKinds == {"IDENT", "PTR", "VIEW", "METAL", "ASM", "BYTES"}

\* name is what was read before: a segment, or nothing at all, must follow.
RECURSIVE SlashIdent(_, _)
SlashIdent(s, name) ==
    IF ~Is(s, SegmentKinds) THEN Ret(IF name = <<>> THEN s ELSE Err(s), Nil)
    ELSE LET t == Adv(s)
             longer == name \o Lexeme(s)
         IN  IF Is(t, {"SLASH"}) THEN SlashIdent(Adv(t), longer \o <<"/">>)
             ELSE Ret(t, Node("NAME", longer, <<>>))

ImportKinds == {"IDENT", "GT", "MINUS", "LBRACKET", "RBRACKET", "COLON", "INT", "STRING"}

ImportSpec(s) ==
    LET t == Skip(s, ImportKinds)
    IN  IF t.pos > s.pos /\ Is(t, {"NEWLINE", "SEMICOLON", "EOF"})
        THEN Ret(t, Node("SPEC", Lexemes(s, t), <<>>))
        ELSE Fail(t)

MaxAttributes == 16

RECURSIVE Attributes(_, _)
Attributes(s, attrs) ==
    IF ~Is(s, {"AT"}) THEN Ret(s, Node("ATTRIBUTES", <<>>, attrs))
    ELSE LET name == Adv(s)
             args == Adv(name)
             t == IF Is(args, {"LPAREN"}) THEN Expect(SkipTo(Adv(args), {"RPAREN"}), "RPAREN")
                  ELSE args
         IN  IF ~Is(name, {"IDENT"}) THEN Ret(Err(name), Node("ATTRIBUTES", <<>>, attrs))
             ELSE Attributes(t, IF Len(attrs) = MaxAttributes THEN attrs
                                ELSE Append(attrs, Node("ATTRIBUTE", Lexemes(s, t), <<>>)))

(****************************************************************************)
(* Types.  A type is its spelling, and its arguments when it is generic.     *)
(****************************************************************************)
Type(name) == Node("TYPE", name, <<>>)
UnknownType(s, prefix, suffix) == Ret(Err(s), Type(prefix \o <<"unknown">> \o suffix))

\* The decorators before a type; their text is left in n.
RECURSIVE Decorators(_, _)
Decorators(s, text) ==
    IF ~Is(s, {"AT"}) THEN Ret(s, Type(text))
    ELSE LET t == Adv(s)
         IN  IF Is(t, {"IDENT"}) THEN Decorators(Adv(t), text \o <<"@">> \o Lexeme(t))
             ELSE Decorators(Err(t), text)

Optional(s) ==
    IF Is(s, {"QUESTION"}) THEN Ret(Adv(s), [s.n EXCEPT !.v = Append(@, "?")]) ELSE s

MaxTypeArgs == 32

\* "<A,B>" after a name, from the types that were read between the brackets.
Generic(name, args) ==
    Node("TYPE",
         name \o <<"<">> \o FlattenSeq([i \in 1..Len(args) |->
             (IF i = 1 THEN <<>> ELSE <<",">>) \o args[i].v]) \o <<">">>,
         args)

\* The two rules for a type, which parse one another: ParseTypes is defined
\* behind them.
RECURSIVE ParseTypes(_, _), TypeArgs(_, _)
TypeInGeneric(s) == ParseTypes("in generic", s)
TypeNoParen(s) == ParseTypes("no paren", s)

\* The arguments of a generic name, up to its closing bracket; t is behind the
\* next one.
TypeArgsAfter(t, args) ==
    IF Is(t, {"COMMA"}) THEN TypeArgs(Adv(t), Append(args, t.n))
    ELSE Ret(CloseAngle(t), Node("ARGS", <<>>, Append(args, t.n)))

TypeArgs(s, args) ==
    IF Is(s, {"GT", "RSHIFT"}) \/ Len(args) = MaxTypeArgs
    THEN Ret(CloseAngle(s), Node("ARGS", <<>>, args))
    ELSE TypeArgsAfter(TypeInGeneric(s), args)

\* The ">" behind the type t of a bracketed type that is spelled text so far.
Bracketed(t, text) == Ret(CloseAngle(t), Type(text \o t.n.v \o <<">">>))

\* ptr<T> and view<T>, behind the decorators in text.
PtrType(s, word, text) ==
    IF Is(Adv(s), {"LT"}) THEN Bracketed(TypeInGeneric(Adv(Adv(s))), text \o <<word, "<">>)
    ELSE UnknownType(Adv(s), <<word, "<">>, <<">">>)

\* reg<"rax", T>: the register is a string or a name.
RegType(s, text) ==
    LET name == Adv(Adv(s))
        reg == IF Is(name, {"STRING", "IDENT"}) THEN Ret(Adv(name), Type(Lexeme(name)))
               ELSE UnknownType(name, <<>>, <<>>)
    IN  IF Is(Adv(s), {"LT"})
        THEN Bracketed(TypeInGeneric(Expect(reg, "COMMA")), text \o <<"reg", "<">> \o reg.n.v \o <<",">>)
        ELSE UnknownType(Adv(s), <<"reg", "<">>, <<">">>)

\* A plain name, generic or optional; text is lost when it is generic.
Applied(name, args) == Ret(args, Generic(name, args.n.c))
NamedType(s, text, kept) ==
    Optional(IF Is(Adv(s), {"LT"})
             THEN Applied((IF kept THEN text ELSE <<>>) \o Lexeme(s), TypeArgs(Adv(Adv(s)), <<>>))
             ELSE Ret(Adv(s), Type(text \o Lexeme(s))))

\* A type between angle brackets: also a number, a string, "*T" and "[T]".
StarType(t, text) == Ret(t, Type(text \o <<"*">> \o t.n.v))
ListType(t, open) == Ret(Expect(t, "RBRACKET"), Type(open \o t.n.v \o <<"]">>))

\* s is behind the decorators, whose text it holds.
DecoratedInGeneric(s) ==
    LET text == s.n.v
    IN  CASE Is(s, {"PTR"}) -> PtrType(s, "ptr", text)
          [] Is(s, {"VIEW"}) -> PtrType(s, "view", text)
          [] Is(s, {"REG"}) -> RegType(s, text)
          [] Is(s, {"STAR"}) -> StarType(TypeInGeneric(Adv(s)), text)
          [] Is(s, {"LBRACKET"}) -> ListType(TypeInGeneric(Adv(s)), text \o <<"[">>)
          [] Is(s, {"STRING", "INT"}) -> Ret(Adv(s), Type(text \o Lexeme(s)))
          [] Is(s, {"IDENT"}) -> NamedType(s, text, FALSE)
          [] OTHER -> UnknownType(s, <<>>, <<>>)

TypeInGenericRule(s) == DecoratedInGeneric(Decorators(s, <<>>))

SizeKinds == {"INT", "IDENT", "STAR", "PLUS", "MINUS", "SLASH", "LPAREN", "RPAREN"}

\* [n]T, whose element must be a plain name.
SizedArray(s) ==
    LET size == Skip(s, SizeKinds)
        t == Expect(size, "RBRACKET")
    IN  IF ~Is(t, {"IDENT"}) THEN UnknownType(t, <<>>, <<>>)
        ELSE Ret(Adv(t), Type(<<"[">> \o Lexemes(s, size) \o <<"]">> \o Lexeme(t)))

\* [T; n], [K: V] and [T], behind their first type.
ElementArray(elem) ==
    LET size == Skip(Adv(elem), SizeKinds \cup {"PERCENT"})
    IN  CASE Is(elem, {"SEMICOLON"}) ->
                 Ret(Expect(size, "RBRACKET"),
                     Type(<<"[">> \o elem.n.v \o <<";">> \o Lexemes(Adv(elem), size) \o <<"]">>))
          [] Is(elem, {"COLON"}) -> ListType(TypeNoParen(Adv(elem)), <<"[">> \o elem.n.v \o <<":">>)
          [] OTHER -> ListType(elem, <<"[">>)

\* A type that begins with "[": [*]T keeps its decorators, the others do not.
OpenArray(elem, text) == Ret(elem, Type(text \o <<"[", "*", "]">> \o elem.n.v))

ArrayType(s, text) ==
    IF Is(s, {"STAR"}) /\ Is(Adv(s), {"RBRACKET"}) THEN OpenArray(TypeNoParen(Adv(Adv(s))), text)
    ELSE IF Is(s, {"INT"}) THEN SizedArray(s)
    ELSE ElementArray(TypeNoParen(s))

DecoratedNoParen(s) ==
    LET text == s.n.v
    IN  CASE Is(s, {"LBRACKET"}) -> ArrayType(Adv(s), text)
          [] Is(s, {"PTR"}) -> PtrType(s, "ptr", <<>>)
          [] Is(s, {"VIEW"}) -> PtrType(s, "view", <<>>)
          [] Is(s, {"REG"}) -> RegType(s, <<>>)
          [] Is(s, {"PHYSADDR"}) -> Ret(Adv(s), Type(<<"PhysAddr">>))
          [] Is(s, {"VIRTADDR"}) -> Ret(Adv(s), Type(<<"VirtAddr">>))
          [] Is(s, {"STAR"}) ->
                 IF Is(Adv(s), {"IDENT", "LBRACKET", "STAR"}) THEN StarType(TypeNoParen(Adv(s)), <<>>)
                 ELSE UnknownType(Adv(s), <<"*">>, <<>>)
          [] Is(s, {"IDENT"}) -> NamedType(s, text, TRUE)
          [] OTHER -> UnknownType(s, <<>>, <<>>)

TypeNoParenRule(s) == DecoratedNoParen(Decorators(s, <<>>))

ParseTypes(rule, s) ==
    IF rule = "in generic" THEN TypeInGenericRule(s) ELSE TypeNoParenRule(s)

\* The elements of a tuple type, t behind one of them, and its ")".
RECURSIVE TupleElems(_, _)
TupleNext(t, text) == TupleElems(NL(t), text \o <<",">> \o t.n.v)

TupleElems(t, text) ==
    LET e == NL(Adv(t))
    IN  IF ~Is(t, {"COMMA"}) THEN Ret(Expect(t, "RPAREN"), Type(<<"(">> \o text \o <<")">>))
        ELSE IF Is(e, {"RPAREN"}) THEN Ret(Adv(e), Type(<<"(">> \o text \o <<")">>))
        ELSE TupleNext(TypeNoParen(e), text)

\* Behind the first type after a "(", at t when newlines are passed: a tuple
\* type or a bracketed type; anything else is read again as a type, with the
\* errors of the first reading kept.
ParenType(s, elem) ==
    CASE Is(NL(elem), {"COMMA"}) -> TupleElems(NL(elem), elem.n.v)
      [] Is(NL(elem), {"RPAREN"}) -> Adv(NL(elem))
      [] OTHER -> TypeNoParen([elem EXCEPT !.pos = s.pos])

ParseType(s) ==
    LET first == NL(Adv(s))
    IN  IF Is(s, {"LPAREN"}) /\ Is(first, {"IDENT", "STAR", "LBRACKET"})
        THEN ParenType(s, TypeNoParen(first))
        ELSE TypeNoParen(s)

(****************************************************************************)
(* Raw blocks.                                                               *)
(****************************************************************************)
\* The text of an asm block is kept without its line breaks.
AsmBlock(s) ==
    LET body == Adv(Adv(s))
        end == Closing(body, "LBRACE", "RBRACE", 1)
    IN  IF ~Is(Adv(s), {"LBRACE"}) THEN Fail(Adv(s))
        ELSE Ret(Adv(end), Node("ASM_BLOCK",
                           SelectSeq(Lexemes(body, end), LAMBDA a : a # "NL"), <<>>))

MaxHexStrings == 32

BytesBlock(s) ==
    LET body == Adv(Adv(s))
        end == SkipTo(body, {"RBRACE"})
        strings == SelectSeq(SubSeq(s.toks, body.pos, end.pos - 1), LAMBDA tok : tok.t = "STRING")
        hex == SubSeq(strings, 1, Min({Len(strings), MaxHexStrings}))
    IN  IF ~Is(Adv(s), {"LBRACE"}) THEN Fail(Adv(s))
        ELSE Ret(Expect(end, "RBRACE"),
                 Node("BYTES_BLOCK", <<>>, [i \in 1..Len(hex) |-> Node("HEX", hex[i].v, <<>>)]))

\* The fields drawn in a layout: each "[ name : type ]", in order.
FieldEnds(text) ==
    {i \in 1..Len(text) : text[i] = "]" /\ \E j \in 1..i - 1 : text[j] = "["
                                          /\ \A k \in j + 1..i - 1 : text[k] # "]"}

LayoutField(text, i) ==
    LET open == Max({j \in 1..i - 1 : text[j] = "["})
        cell == SelectSeq(SubSeq(text, open + 1, i - 1), LAMBDA a : a # " ")
        colons == {j \in 1..Len(cell) : cell[j] = ":"}
        colon == IF colons = {} THEN Len(cell) + 1 ELSE Min(colons)
    IN  [name |-> SubSeq(cell, 1, colon - 1), type |-> SubSeq(cell, colon + 1, Len(cell))]

LayoutFields(text) ==
    LET ends == SetToSortSeq(FieldEnds(text), <)
    IN  SelectSeq([i \in 1..Len(ends) |-> LayoutField(text, ends[i])],
                  LAMBDA f : f.name # <<>> /\ f.type # <<>>)

FieldSizes == [u8 |-> 1, i8 |-> 1, u16 |-> 2, i16 |-> 2, u32 |-> 4, i32 |-> 4, u64 |-> 8, i64 |-> 8]

\* A field's size: its type's, or the number given, at least 1.
FieldSize(type) ==
    CASE type[1] \in DOMAIN FieldSizes -> FieldSizes[type[1]]
      [] type[1] \in DOMAIN NumberOf -> Max({1, NumberOf[type[1]]})
      [] OTHER -> 1

\* A field begins where the one before it ends.
Layout(text) ==
    LET fields == LayoutFields(text)
    IN  [i \in 1..Len(fields) |->
            [name |-> fields[i].name, type |-> fields[i].type, size |-> FieldSize(fields[i].type),
             offset |-> FoldSeq(LAMBDA f, sum : sum + FieldSize(f.type), 0,
                                SubSeq(fields, 1, i - 1))]]

RECURSIVE PathEnd(_)
PathEnd(s) == IF Is(s, {"SLASH", "DOT"}) THEN PathEnd(Opt(Adv(s), "IDENT")) ELSE s

\* map NAME at BASE { "layout" }; the base stays the spelling of its number.
MapDef(s) ==
    LET name == Adv(s)
        path == PathEnd(Adv(name))
        at == IF Named(path, "at") THEN Adv(path) ELSE path
        brace == Opt(at, "INT")
        body == NL(Adv(brace))
        text == IF Is(body, {"STRING"}) THEN AsciiText[Lexeme(body)[1]] ELSE <<>>
        end == NL(Opt(body, "STRING"))
    IN  IF ~Is(name, {"IDENT"}) THEN Fail(name)
        ELSE IF ~Is(brace, {"LBRACE"}) THEN Fail(brace)
        ELSE IF ~Is(end, {"RBRACE"}) THEN Fail(end)
        ELSE Ret(Adv(end),
                 Node("MAP_DEF", Lexemes(name, path) \o Lexemes(at, brace), Layout(text)))

MaxPatterns == 64

\* Pattern, arrow and action, each with its own error and resumption.
RECURSIVE SyntaxPairs(_, _)
SyntaxPairs(s0, pairs) ==
    LET s == Separators(s0)
        arrow == Adv(s)
        action == Adv(arrow)
    IN  CASE Is(s, {"RBRACE", "EOF"}) -> Ret(s, Node("PAIRS", <<>>, pairs))
          [] Is(s, {"STRING"}) /\ Is(arrow, {"ARROW"}) /\ Is(action, {"STRING"}) ->
                 SyntaxPairs(Separators(Adv(action)),
                             IF Len(pairs) = MaxPatterns THEN pairs
                             ELSE Append(pairs, Node("PAIR", Lexeme(s) \o Lexeme(action), <<>>)))
          [] Is(s, {"STRING"}) /\ Is(arrow, {"ARROW"}) /\ ~Is(action, {"STRING"}) ->
                 SyntaxPairs(Adv(Err(action)), pairs)
          [] Is(s, {"STRING"}) /\ ~Is(arrow, {"ARROW"}) -> SyntaxPairs(Err(arrow), pairs)
          [] OTHER -> SyntaxPairs(Adv(Err(s)), pairs)

SyntaxDef(s) ==
    LET name == Adv(s)
        pairs == SyntaxPairs(Adv(Adv(name)), <<>>)
    IN  IF ~Is(name, {"IDENT"}) THEN Fail(name)
        ELSE IF ~Is(Adv(name), {"LBRACE"}) THEN Fail(Adv(name))
        ELSE Ret(Expect(pairs, "RBRACE"), Node("SYNTAX_DEF", Lexeme(name), pairs.n.c))
====
