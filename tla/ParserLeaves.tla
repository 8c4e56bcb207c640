---- MODULE ParserLeaves ----
(****************************************************************************)
(* parser/aec_parser.c: the nodes of the tree, the tables of operators, and the*)
(* parts of expressions and statements that hold no other expression or      *)
(* statement.  The rules that parse one another are in Parser.               *)
(*                                                                           *)
(* A list in the tree has its own node, the fields of a node are its children*)
(* in order, a field that is NULL is Nil.                                    *)
(****************************************************************************)
EXTENDS ParserBase

List(items) == Node("LIST", <<>>, items)
Ident(name) == Node("IDENT", name, <<>>)
Literal(value) == Node("LITERAL", value, <<>>)
Binary(op, left, right) == Node("BINARY_OP", op, <<left, right>>)
Access(object, member) == Node("ACCESS", member, <<object>>)
Call(func, args) == Node("CALL", <<>>, <<func, List(args)>>)

\* Append unless there is no item or the array is full.
Store(items, n, cap) == IF n = Nil \/ Len(items) >= cap THEN items ELSE Append(items, n)

MaxCaseValues == 16
MaxCases == 64

Case(values, body) == Node("SWITCH_CASE", <<>>, <<List(values), List(body)>>)

\* \Case, the shorthand of an enum case.
CaseName(s) ==
    LET name == NL(Adv(s))
    IN  IF Is(name, MemberKinds) THEN Ret(Adv(name), Ident(<<"\\">> \o Lexeme(name)))
        ELSE Fail(name)

LiteralKinds == {"INT", "FLOAT", "STRING", "TRUE", "FALSE", "NIL"}

\* true is 1; false and nil are 0.
LiteralValue(s) ==
    CASE Is(s, {"TRUE"}) -> <<"1">> [] Is(s, {"FALSE", "NIL"}) -> <<"0">> [] OTHER -> Lexeme(s)

\* $n
ImplicitParam(s) ==
    IF Is(Adv(s), {"INT"})
    THEN Ret(Adv(Adv(s)), Node("IMPLICIT_PARAM", Lexeme(Adv(s)), <<>>))
    ELSE Fail(Adv(s))

NameKinds == {"IDENT", "PTR", "VIEW", "REG", "SYS"}

Name(s) ==
    LET t == SlashIdent(s, <<>>) IN IF t.n = Nil THEN Fail(t) ELSE Ret(t, Ident(t.n.v))

MaxTupleElems == 20

GenericPrefixes == {<<"cast">>, <<"ptr">>, <<"view">>, <<"reg">>, <<"vector">>}
PrefixKinds == {"IDENT", "INT", "STRING", "COMMA", "PTR", "VIEW", "STAR"}

\* The text of cast<...> up to its closing bracket; a ">>" closes both levels
\* of a nested argument, and the last level even when there is only one.
RECURSIVE PrefixText(_, _, _)
PrefixText(s, depth, text) ==
    LET more(d, atoms) == PrefixText(Adv(s), d, text \o atoms)
        done == Ret(Adv(s), Ident(text))
    IN  IF depth = 0 THEN Ret(s, Ident(text))
        ELSE CASE Is(s, {"LT"}) -> more(depth + 1, <<"<">>)
               [] Is(s, {"GT"}) -> IF depth = 1 THEN done ELSE more(depth - 1, <<">">>)
               [] Is(s, {"RSHIFT"}) -> IF depth = 1 THEN done ELSE more(depth - 2, <<">">>)
               [] Is(s, PrefixKinds) -> more(depth, Lexeme(s))
               [] OTHER -> Ret(s, Ident(text))

\* obj/seg/seg\member\member: one access whose member is the whole path.
RECURSIVE PathSegments(_), PathMembers(_)
PathSegments(s) ==
    LET t == NL(Adv(s))
    IN  IF ~Is(s, {"IDENT"}) THEN s
        ELSE IF Is(t, {"SLASH"}) THEN PathSegments(NL(Adv(t)))
        ELSE t
PathMembers(s) ==
    LET name == NL(Adv(s))
    IN  IF ~Is(s, {"BACKSLASH"}) THEN s
        ELSE IF Is(name, {"IDENT"}) THEN PathMembers(NL(Adv(name)))
        ELSE Err(name)

\* The text of \read<...>: a ">>" that closes the last level leaves no text.
RECURSIVE MethodText(_, _, _)
MethodText(s, depth, text) ==
    LET more(d, atoms) == MethodText(Adv(s), d, text \o atoms)
    IN  IF depth <= 0 THEN Ret(s, Ident(text))
        ELSE CASE Is(s, {"LT"}) -> more(depth + 1, <<"<">>)
               [] Is(s, {"GT"}) -> more(depth - 1, IF depth > 1 THEN <<">">> ELSE <<>>)
               [] Is(s, {"RSHIFT"}) -> more(depth - 2, IF depth > 2 THEN <<">">> ELSE <<>>)
               [] Is(s, {"COMMA", "IDENT", "INT"}) -> more(depth, Lexeme(s))
               [] OTHER -> Ret(s, Ident(text))

MaxInitArgs == 64

\* A "{" that opens a struct literal: "}" or "name:" follows it.
OpensStruct(s) ==
    LET first == NL(Adv(s))
    IN  /\ Is(s, {"LBRACE"})
        /\ s.n.k \in {"IDENT", "ACCESS", "CALL"}
        /\ Is(first, {"RBRACE"}) \/ (Is(first, {"IDENT"}) /\ Is(NL(Adv(first)), {"COLON"}))

(****************************************************************************)
(* The ladder of binary operators, loosest first.                            *)
(****************************************************************************)
LogicalOr == {"OR"}
LogicalAnd == {"AND"}
NullCoalesce == {"NULL_COALESCE"}
BitwiseOr == {"PIPE"}
BitwiseXor == {"CARET"}
BitwiseAnd == {"AMPERSAND"}
Equality == {"EQ", "NE"}
Relational == {"LT", "LE", "GT", "GE"}
RangeOps == {"RANGE", "RANGE3", "RANGE_EXCLUSIVE"}
CastOps == {"AS"}
Shift == {"LSHIFT", "RSHIFT"}
Additive == {"PLUS", "MINUS"}
Multiplicative == {"STAR", "SLASH", "DIVIDE", "PERCENT"}
UnaryOps == {"EXCLAIM", "MINUS", "PLUS", "TILDE", "AMPERSAND", "STAR"}

Ladder == <<LogicalOr, LogicalAnd, NullCoalesce, BitwiseOr, BitwiseXor, BitwiseAnd,
            Equality, Relational, RangeOps, CastOps, Shift, Additive, Multiplicative>>
RangeRung == 9
CastRung == 10
UnaryRung == 14

\* What stands to the right of an operator of a rung: a relational operator
\* takes a range on its left only.
RightRung(i) == IF Ladder[i] = Relational THEN CastRung ELSE i + 1

AssignOps == {"ASSIGN", "PLUS_ASSIGN", "MINUS_ASSIGN", "STAR_ASSIGN", "SLASH_ASSIGN",
              "PIPE_ASSIGN", "AMPERSAND_ASSIGN", "CARET_ASSIGN"}

MaxPatternNames == 10

\* Past the names of a tuple pattern and its ")".
RECURSIVE TuplePattern(_, _)
TuplePattern(s, count) ==
    IF Is(s, {"IDENT"}) /\ count < MaxPatternNames /\ Is(Adv(s), {"COMMA"})
    THEN TuplePattern(Adv(Adv(s)), count + 1)
    ELSE IF Is(s, {"IDENT"}) /\ count < MaxPatternNames THEN Expect(Adv(s), "RPAREN")
    ELSE Expect(s, "RPAREN")

MaxMorphItems == 128

\* A pattern whose error ends the statement it is in.
Abandoned == Node("ABANDONED", <<>>, <<>>)
Abandon(s) == Ret(Err(s), Abandoned)

\* The bindings of guard case \Name(let a, let b); the last one is kept.
RECURSIVE CaseBindings(_)
CaseBindings(s) ==
    LET t == IF Is(s, {"LET"}) /\ Is(Adv(s), {"IDENT"})
             THEN Ret(Adv(Adv(s)), Ident(Lexeme(Adv(s))))
             ELSE Opt(s, "LET")
    IN  IF Is(s, {"RPAREN", "EOF"}) THEN s
        ELSE IF Is(t, {"COMMA"}) THEN CaseBindings(Adv(t))
        ELSE t

\* The pattern of a guard, before its "=": n is the binding.
CasePattern(name) ==
    IF ~Is(name, {"IDENT"}) THEN Abandon(name)
    ELSE IF Is(Adv(name), {"LPAREN"})
    THEN Expect(CaseBindings(Ret(Adv(Adv(name)), Nil)), "RPAREN")
    ELSE Ret(Adv(name), Nil)
GuardPattern(s) ==
    IF Is(s, {"LET"})
    THEN IF Is(Adv(s), {"IDENT"}) THEN Ret(Adv(Adv(s)), Ident(Lexeme(Adv(s)))) ELSE Abandon(Adv(s))
    ELSE IF ~Is(Adv(s), {"BACKSLASH"}) THEN Abandon(Adv(s))
    ELSE CasePattern(Adv(Adv(s)))

MaxCaseItems == 100

MaxMetalItems == 256

\* The statement form keeps no line break either; it is a node even unopened.
AsmStatement(s) ==
    LET t == AsmBlock(s) IN IF t.n = Nil THEN Ret(t, Node("ASM_BLOCK", <<>>, <<>>)) ELSE t

\* The tokens that are the caller's business: no statement, and no error.
ClosingKinds == {"RBRACE", "ELSE", "EOF", "SEMICOLON", "CASE", "DEFAULT"}

MaxConfigs == 64
MaxPipelineItems == 128
MaxSiliconItems == 256

PathKinds == {"IDENT", "SLASH"}

\* \name, in the places where a "." may stand for the "\".
Selector(s) == Opt(IF Is(s, {"BACKSLASH", "DOT"}) THEN Adv(s) ELSE s, "IDENT")

\* (behavior: \serialize, speculation: \block): the flags that were set.
RECURSIVE PipelineParams(_, _)
PipelineParams(s, flags) ==
    LET value == Selector(Adv(Adv(s)))
        labelled == Is(s, {"IDENT"}) /\ Is(Adv(s), {"COLON"})
        text == Lexeme(s) \o Lexemes(Adv(Adv(s)), value)
        t == IF labelled THEN value ELSE Opt(s, "IDENT")
        more == IF labelled /\ Len(text) = 3
                /\ <<text[1], text[3]>> \in {<<"behavior", "serialize">>, <<"speculation", "block">>}
                THEN flags \cup {text[3]} ELSE flags
    IN  IF Is(s, {"RPAREN", "EOF"}) THEN Ret(s, flags)
        ELSE IF Is(t, {"COMMA"}) THEN PipelineParams(Adv(t), more)
        ELSE Ret(t, more)

BarrierMode(text) ==
    CASE Contains(text, "memory") /\ Contains(text, "load") -> "LOAD"
      [] Contains(text, "memory") /\ ~Contains(text, "load") /\ Contains(text, "store") -> "STORE"
      [] OTHER -> "FULL"

\* pipeline\barrier(\memory/load) and pipeline\hint(\kind), for an identifier
\* spelled pipeline.
PipelineOp(s) ==
    LET op == Adv(Adv(s))
        dotted == Adv(Adv(op))
        start == IF Is(dotted, {"BACKSLASH", "DOT"}) THEN Adv(dotted) ELSE dotted
        end == IF start = dotted THEN dotted ELSE Skip(start, PathKinds)
        text == Lexemes(start, end)
    IN  CASE ~Is(Adv(s), {"BACKSLASH"}) -> Ret(Adv(s), Nil)
          [] Is(Adv(s), {"BACKSLASH"}) /\ ~Named(op, "barrier") /\ ~Named(op, "hint") -> Ret(op, Nil)
          [] OTHER ->
                 IF ~Is(Adv(op), {"LPAREN"}) THEN Ret(Adv(op), Nil)
                 ELSE Ret(Expect(end, "RPAREN"),
                          IF Named(op, "hint") THEN Node("PIPELINE_HINT", text, <<>>)
                          ELSE Node("PIPELINE_BARRIER", <<BarrierMode(text)>> \o text, <<>>))

\* The hint: and intent: arguments of a prefetch; the last hint is kept.
RECURSIVE PrefetchParams(_, _, _)
PrefetchParams(s, hint, intent) ==
    LET name == NL(Adv(s))
        mark == Adv(Adv(name))
        known == /\ Named(name, "hint") \/ Named(name, "intent")
                 /\ Is(Adv(name), {"COLON"}) /\ Is(mark, {"BACKSLASH", "DOT"})
        value == Adv(mark)
        t == IF known THEN Opt(value, "IDENT")
             ELSE IF Is(name, {"IDENT"}) THEN Opt(Adv(name), "COLON") ELSE name
        given == known /\ Is(value, {"IDENT"})
    IN  IF ~Is(s, {"COMMA"}) THEN Ret(s, Node("PARAMS", hint \o intent, <<>>))
        ELSE PrefetchParams(t,
                 IF given /\ Named(name, "hint") THEN Lexeme(value) ELSE hint,
                 IF given /\ Named(name, "intent") /\ Named(value, "write") THEN <<"write">> ELSE intent)
====
