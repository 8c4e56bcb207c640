---- MODULE Parser ----
(****************************************************************************)
(* parser/aec_parser.c: expressions, blocks and statements, by recursive     *)
(* descent over a parser state (ParserBase).  What is read behind a rule is an *)
(* operator of the state the rule left.                                       *)
(****************************************************************************)
EXTENDS ParserLeaves

(****************************************************************************)
(* The rules that parse one another, by name: a rule stands for the function *)
(* that is called through Parse, defined at the end of this module.          *)
(****************************************************************************)
RECURSIVE Parse(_, _)
Expression(s) == Parse("expression", s)
Primary(s) == Parse("primary", s)
PostfixTail(s) == Parse("postfix", s)
Statement(s) == Parse("statement", s)
TypeAt(s) == Parse("type", s)

(****************************************************************************)
(* Blocks.                                                                   *)
(****************************************************************************)
RECURSIVE BlockItems(_, _)

\* A mutant of BlockNext: what is no statement is not skipped.
BlockNextNoSkip(s, t, items) ==
    IF t.n # Nil THEN BlockItems(Separators(t), Append(items, t.n))
    ELSE IF Stuck(s, t) THEN Ret(Hang(s), List(items))
    ELSE BlockItems(t, items)

\* From s a block's next item was read, up to t; one that is not a statement
\* and does not advance is skipped over.
BlockNext(s, t, items) ==
    IF t.n # Nil THEN BlockItems(Separators(t), Append(items, t.n))
    ELSE BlockItems(IF t.pos = s.pos THEN Adv(t) ELSE t, items)

BlockItems(s0, items) ==
    LET s == NL(s0)
    IN  IF Is(s, {"RBRACE", "EOF"}) THEN Ret(s, List(items))
        ELSE BlockNext(s, Statement(s), items)

Block(s) ==
    LET items == BlockItems(Adv(s), <<>>)
    IN  IF Is(s, {"LBRACE"}) THEN Ret(Expect(items, "RBRACE"), Node("BLOCK", <<>>, items.n.c))
        ELSE Fail(s)

RECURSIVE Items(_, _, _)

\* The statements of a metal, win, sys or hardware block, cap of them kept.
ItemsNext(s, t, items, cap) ==
    Items(Separators(IF t.n = Nil /\ t.pos = s.pos THEN Adv(t) ELSE t),
          Store(items, t.n, cap), cap)

Items(s0, items, cap) ==
    LET s == NL(s0)
    IN  IF Is(s, {"RBRACE", "EOF"}) THEN Ret(s, List(items))
        ELSE ItemsNext(s, Statement(s), items, cap)

\* A block or a single statement.
Body(s) == IF Is(s, {"LBRACE"}) THEN Block(s) ELSE Statement(s)

(****************************************************************************)
(* Primary expressions.                                                      *)
(****************************************************************************)
\* The block of a branch of an if expression, at the next line's "{".
Branch(s) == IF Is(s, {"LBRACE"}) THEN Block(s) ELSE Fail(s)
ElseBranch(s) == IF Is(s, {"IF"}) THEN Primary(s) ELSE Branch(s)

IfNode(else, cond, then) == Ret(else, Node("IF_STMT", <<>>, <<cond, then, else.n>>))

\* What follows the first branch of an if expression.
IfElse(then, cond) ==
    LET end == NL(then)
    IN  IfNode(IF Is(end, {"ELSE"}) THEN ElseBranch(NL(Adv(end))) ELSE Ret(end, Nil), cond, then.n)

\* if c { } else { } as an expression; both branches must be blocks.
IfThen(cond) == IfElse(Branch(NL(cond)), cond.n)
IfExpr(s) == IfThen(Expression(Adv(s)))

\* What a match or a switch is about, bracketed or not.
Subject(s) ==
    IF Is(s, {"LPAREN"}) THEN Opt(Expression(Adv(s)), "RPAREN") ELSE Expression(s)

RECURSIVE CaseValues(_, _, _)
\* The values of a case; a trailing comma before one of stops ends them.
MoreCaseValues(e, values, stops) ==
    IF Is(e, {"COMMA"}) /\ ~Is(Adv(e), stops) THEN CaseValues(Adv(e), values, stops)
    ELSE Ret(Opt(e, "COMMA"), List(values))

CaseValueRead(e, values, stops) == MoreCaseValues(NL(e), Store(values, e.n, MaxCaseValues), stops)

CaseValues(s, values, stops) == CaseValueRead(Expression(s), values, stops)

\* The block or the expression after the arrow of a match case.
BodyList(t) == Ret(t, List(Store(<<>>, t.n, 1)))
MatchBody(s) == BodyList(IF Is(s, {"LBRACE"}) THEN Block(s) ELSE Expression(s))

RECURSIVE MatchCases(_, _, _)
\* A case behind its values, its body, and the cases after it.
MatchCaseRead(body, values, cases, default) ==
    MatchCases(NL(body), Store(cases, Case(values, body.n.c), MaxCases), default)
MatchCase(values, cases, default) ==
    MatchCaseRead(MatchBody(NL(IF Is(values, {"ARROW"}) THEN Adv(values) ELSE Adv(Err(values)))),
                  values.n.c, cases, default)
MatchDefault(body, cases) == MatchCases(NL(body), cases, Case(<<>>, body.n.c))

MatchCases(s0, cases, default) ==
    LET s == NL(s0)
    IN  CASE Is(s, {"RBRACE", "EOF"}) -> Ret(s, Node("CASES", <<>>, <<List(cases), default>>))
          [] Is(s, {"CASE"}) ->
                 MatchCase(CaseValues(Adv(s), <<>>, {"ARROW", "RBRACE"}), cases, default)
          [] Is(s, {"DEFAULT"}) -> MatchDefault(MatchBody(NL(Expect(Adv(s), "ARROW"))), cases)
          [] OTHER -> MatchCases(Adv(s), cases, default)

\* The cases of a match or a switch, behind what it is about.
CasesNode(cases, subject, kind) ==
    Ret(Expect(cases, "RBRACE"), Node(kind, <<>>, <<subject>> \o cases.n.c))

MatchOn(subject) ==
    IF Is(subject, {"LBRACE"})
    THEN CasesNode(MatchCases(Adv(subject), <<>>, Nil), subject.n, "MATCH_STMT")
    ELSE Ret(subject, Node("MATCH_STMT", <<>>, <<subject.n, List(<<>>), Nil>>))
MatchExpr(s) == MatchOn(Subject(Adv(s)))

RECURSIVE TupleTail(_, _)
\* The elements of a tuple after the first; the comma after a full array is
\* consumed and ends it.
TupleTail(s, elems) ==
    LET e == NL(Adv(s))
        t == Expression(e)
    IN  IF ~Is(s, {"COMMA"}) THEN Ret(s, List(elems))
        ELSE IF Len(elems) = MaxTupleElems THEN Ret(Adv(s), List(elems))
        ELSE IF Is(e, {"RPAREN"}) THEN Ret(e, List(elems))
        ELSE TupleTail(t, Append(elems, t.n))

\* (), (e) and (e, e, ...)
Parenthesised(s) ==
    LET first == Expression(Adv(s))
        elems == TupleTail(first, <<first.n>>)
    IN  CASE Is(Adv(s), {"RPAREN"}) -> Ret(Adv(Adv(s)), Node("TUPLE_LITERAL", <<>>, <<>>))
          [] ~Is(Adv(s), {"RPAREN"}) /\ Is(first, {"COMMA"}) ->
                 Ret(Expect(elems, "RPAREN"), Node("TUPLE_LITERAL", <<>>, elems.n.c))
          [] OTHER -> Expect(first, "RPAREN")

RECURSIVE ArrayTail(_)
ArrayTail(s) ==
    LET e == NL(Adv(s))
    IN  IF ~Is(s, {"COMMA"}) THEN s
        ELSE ArrayTail(IF Is(e, {"RBRACKET"}) THEN e ELSE Expression(e))

RECURSIVE DictTail(_)
DictTail(s) ==
    LET e == NL(Adv(s))
        key == NL(Expression(e))
        value == IF Is(key, {"COLON"}) THEN Expression(NL(Adv(key))) ELSE key
    IN  IF ~Is(s, {"COMMA"}) THEN s
        ELSE IF Is(e, {"RBRACKET"}) THEN e
        ELSE DictTail(NL(value))

\* An array or a dictionary: the elements are read, and the node is a zero.
ArrayOrDict(s) ==
    LET open == NL(Adv(s))
        first == NL(Expression(open))
        value == NL(Expression(NL(Adv(first))))
        end == CASE Is(open, {"COLON"}) -> Adv(open)
                 [] Is(open, {"RBRACKET"}) -> open
                 [] ~Is(open, {"COLON", "RBRACKET"}) /\ Is(first, {"COLON"}) -> DictTail(value)
                 [] OTHER -> ArrayTail(first)
    IN  Ret(Expect(NL(end), "RBRACKET"), Literal(<<"0">>))

MetalBlock(s) ==
    LET items == Items(Adv(Adv(s)), <<>>, Len(s.toks))
    IN  IF ~Is(Adv(s), {"LBRACE"}) THEN Fail(Adv(s))
        ELSE Ret(Expect(items, "RBRACE"), Node("METAL_BLOCK", <<>>, items.n.c))

RECURSIVE SiliconItems(_, _)

SiliconOf(items) ==
    IF Is(items, {"RBRACE"}) THEN Ret(Adv(items), Node("SILICON_BLOCK", <<>>, items.n.c))
    ELSE Fail(items)

\* silicon { ... }: an unclosed block is no node.
SiliconBlock(s0) ==
    LET s == Opt(s0, "SILICON")
    IN  IF Is(s, {"LBRACE"}) THEN SiliconOf(SiliconItems(Adv(s), <<>>)) ELSE Fail(s)

PrimaryRule(s) ==
    CASE Is(s, {"METAL"}) -> MetalBlock(s)
      [] Is(s, {"ASM"}) -> AsmBlock(s)
      [] Is(s, {"BYTES"}) -> BytesBlock(s)
      [] Is(s, {"SILICON"}) -> SiliconBlock(s)
      [] Is(s, {"IF"}) -> IfExpr(s)
      [] Is(s, {"MATCH"}) -> MatchExpr(s)
      [] Is(s, {"BACKSLASH"}) -> CaseName(s)
      [] Is(s, LiteralKinds) -> Ret(Adv(s), Literal(LiteralValue(s)))
      [] Is(s, {"DOLLAR"}) -> ImplicitParam(s)
      [] Is(s, NameKinds) -> Name(s)
      [] Is(s, {"LPAREN"}) -> Parenthesised(s)
      [] Is(s, {"LBRACKET"}) -> ArrayOrDict(s)
      [] OTHER -> Fail(s)

(****************************************************************************)
(* Postfix expressions; s.n is the expression so far.                        *)
(****************************************************************************)
RECURSIVE Args(_, _, _, _)

\* The argument e was read from start; end is e behind the newlines.
ArgRead(start, e, end, args, labels, lenient) ==
    LET skip == IF e.pos = start.pos /\ ~Is(e, {"RPAREN", "EOF"}) THEN Adv(e) ELSE e
    IN  IF e.n = Nil
        THEN IF Is(skip, {"RPAREN", "EOF"}) THEN Ret(skip, List(args))
             ELSE Args(skip, args, labels, lenient)
        ELSE IF Is(end, {"COMMA"}) \/ (lenient /\ ~Is(end, {"RPAREN"}))
        THEN Args(Opt(end, "COMMA"), Append(args, e.n), labels, lenient)
        ELSE Ret(IF Is(end, {"RPAREN"}) THEN end ELSE Err(end), List(Append(args, e.n)))

Arg(start, e, args, labels, lenient) == ArgRead(start, e, NL(e), args, labels, lenient)
ArgFrom(start, args, labels, lenient) == Arg(start, Expression(start), args, labels, lenient)

\* Arguments up to ")".  labels: "name:" before an argument is skipped;
\* lenient: a missing comma is not an error.
Args(s0, args, labels, lenient) ==
    LET s == NL(s0)
        colon == NL(Adv(s))
    IN  IF Is(s, {"RPAREN"}) THEN Ret(s, List(args))
        ELSE ArgFrom(IF labels /\ Is(s, {"IDENT"}) /\ Is(colon, {"COLON"}) THEN NL(Adv(colon)) ELSE s,
                     args, labels, lenient)

\* The call of func, whose "(" is the next token.
CallWith(args, func) == Ret(Expect(NL(args), "RPAREN"), Call(func, args.n.c))
CallOf(s, func, labels, lenient) == CallWith(Args(Adv(s), <<>>, labels, lenient), func)

\* The member after "::", "->" or "\", or an error.
Scope(s) ==
    LET name == NL(Adv(s))
    IN  IF Is(name, MemberKinds) THEN PostfixTail(Ret(Adv(name), Access(s.n, Lexeme(name))))
        ELSE Err(name)

\* sizeof(T): the type is skipped.
SizeOf(s) ==
    PostfixTail(Ret(Adv(Closing(Adv(s), "LPAREN", "RPAREN", 1)), Ident(<<"__sizeof_result__">>)))

Prefixed(text, name) ==
    IF Is(text, {"LPAREN"}) THEN CallOf(text, name, FALSE, FALSE) ELSE Ret(text, name)
NamedPrefix(text, name) == Prefixed(text, Ident(name \o <<"<">> \o text.n.v \o <<">">>))

GenericPrefix(s) == PostfixTail(NamedPrefix(PrefixText(Adv(s), 1, <<>>), s.n.v))

PathAccess(s) ==
    LET end == PathMembers(PathSegments(NL(Adv(s))))
    IN  PostfixTail(Ret(end, Access(s.n, SelectSeq(Lexemes(s, end), LAMBDA a : a # "NL"))))

RECURSIVE IsaArgs(_, _)
\* The arguments of hardware\isa\op(...), with no recovery.
IsaArgRead(e, args) == IF Is(e, {"COMMA"}) THEN IsaArgs(Adv(e), args) ELSE Ret(e, List(args))
IsaArg(e, args) == IsaArgRead(NL(e), Store(args, e.n, Len(e.toks)))

IsaArgs(s0, args) ==
    LET s == NL(s0) IN IF Is(s, {"RPAREN"}) THEN Ret(s, List(args)) ELSE IsaArg(Expression(s), args)

IsaNode(args, op) == Ret(Expect(NL(args), "RPAREN"), Node("HW_ISA_CALL", op, args.n.c))
IsaCall(s, op) == IsaNode(IsaArgs(Adv(s), <<>>), op)

\* A member that may be generic, called or not.
GenericMethod(text, object, member) ==
    Prefixed(text, Access(object, member \o <<"<">> \o text.n.v \o <<">">>))
Method(s, object, member) ==
    IF Is(s, {"LT"}) THEN GenericMethod(MethodText(Adv(s), 1, <<>>), object, member)
    ELSE IF Is(s, {"LPAREN"}) THEN CallOf(s, Access(object, member), TRUE, FALSE)
    ELSE Ret(s, Access(object, member))

\* "\": hardware\isa\op(...) is an instruction, and ends the expression; its
\* name is lost when no arguments follow.
IsaMember(op, rest, object) ==
    IF Is(op, {"IDENT"}) /\ Is(rest, {"LPAREN"}) THEN IsaCall(rest, Lexeme(op))
    ELSE PostfixTail(Method(rest, object, <<"isa">>))

MemberAt(name, object) ==
    LET isa == object = Ident(<<"hardware">>) /\ Lexeme(name) = <<"isa">>
               /\ Is(Adv(name), {"BACKSLASH"})
        op == NL(Adv(Adv(name)))
    IN  IF ~Is(name, MemberKinds) THEN Err(name)
        ELSE IF isa THEN IsaMember(op, Opt(op, "IDENT"), object)
        ELSE PostfixTail(Method(Adv(name), object, Lexeme(name)))

Member(s) == MemberAt(NL(Adv(s)), s.n)

\* object:[start ' end] or object:[]; any other ":" is an error.
PbitSlice(s) ==
    LET open == Adv(s)
        first == NL(Adv(open))
        start == Expression(first)
        end == Expression(Expect(start, "TICK"))
    IN  PostfixTail(
            IF ~Is(open, {"LBRACKET"}) THEN Err(open)
            ELSE IF Is(first, {"RBRACKET"})
            THEN Ret(Adv(first), Node("PBIT_SLICE", <<"full">>, <<s.n>>))
            ELSE Ret(Expect(end, "RBRACKET"), Node("PBIT_SLICE", <<>>, <<s.n, start.n, end.n>>)))

Index(s) ==
    LET e == Expression(NL(Adv(s)))
    IN  PostfixTail(Ret(Expect(NL(e), "RBRACKET"), Node("ACCESS", <<"[index]">>, <<s.n, e.n>>)))

\* ptr->member, called or not.
ArrowAt(name, access) ==
    IF ~Is(name, MemberKinds) THEN Err(name)
    ELSE PostfixTail(IF Is(Adv(name), {"LPAREN"}) THEN CallOf(Adv(name), access, FALSE, TRUE)
                     ELSE Ret(Adv(name), access))
Arrow(s) ==
    LET name == NL(Adv(s)) IN ArrowAt(name, Access(s.n, <<"->">> \o Lexeme(name)))

\* name: value pairs, kept in turn as arguments, up to the last slot but one.
RECURSIVE StructFields(_, _)
StructFields(s0, args) ==
    LET s == NL(s0)
        e == Expression(NL(Adv(Adv(s))))
        more == IF e.n = Nil \/ Len(args) + 1 >= MaxInitArgs THEN args
                ELSE args \o <<Ident(Lexeme(s)), e.n>>
        end == NL(e)
    IN  CASE Is(s, {"RBRACE", "EOF"}) -> Ret(s, List(args))
          [] Is(s, {"IDENT"}) /\ Is(Adv(s), {"COLON"}) ->
                 StructFields(IF Is(end, {"RBRACE"}) THEN end ELSE Expect(end, "COMMA"), more)
          [] OTHER -> Ret(Err(Opt(s, "IDENT")), List(args))

StructLiteral(s) ==
    LET fields == StructFields(Adv(s), <<>>)
    IN  IF OpensStruct(s) THEN Ret(Expect(NL(fields), "RBRACE"), Call(s.n, fields.n.c)) ELSE s

PostfixRule(s) ==
    CASE Is(s, {"SCOPE"}) -> Scope(s)
      [] Is(s, {"LPAREN"}) -> IF s.n = Ident(<<"sizeof">>) THEN SizeOf(s)
                              ELSE PostfixTail(CallOf(s, s.n, TRUE, FALSE))
      [] Is(s, {"LT"}) /\ s.n.k = "IDENT" /\ s.n.v \in GenericPrefixes -> GenericPrefix(s)
      [] Is(s, {"SLASH"}) -> PathAccess(s)
      [] Is(s, {"BACKSLASH"}) -> Member(s)
      [] Is(s, {"COLON"}) -> PbitSlice(s)
      [] Is(s, {"LBRACKET"}) -> Index(s)
      [] Is(s, {"ARROW"}) -> Arrow(s)
      [] Is(s, {"EXCLAIM"}) -> PostfixTail(Ret(Adv(s), Node("FORCE_UNWRAP", <<>>, <<s.n>>)))
      [] OTHER -> StructLiteral(s)

(****************************************************************************)
(* The ladder of binary operators, from the tightest to the loosest.         *)
(****************************************************************************)
RECURSIVE Unary(_)
Unary(s) ==
    LET operand == Unary(Adv(s))
        p == Primary(s)
    IN  IF Is(s, {"AMPERSAND"}) THEN Ret(operand, Node("REFERENCE", <<>>, <<operand.n>>))
        ELSE IF Is(s, UnaryOps) THEN Ret(operand, Node("UNARY_OP", Lexeme(s), <<operand.n>>))
        ELSE IF p.n = Nil THEN p ELSE PostfixTail(p)

RECURSIVE Rung(_, _), RungTail(_, _)

\* a..b, a...b, a..<b, with no end before "]", "," or ")"; it does not chain.
RangeNode(end, start) ==
    Ret(end, Node("RANGE", IF Is(start, {"RANGE_EXCLUSIVE"}) THEN <<"..<">> ELSE <<"..">>,
                  <<start.n, end.n>>))
RangeFrom(start) ==
    IF ~Is(start, RangeOps) THEN start
    ELSE RangeNode(IF Is(Adv(start), {"RBRACKET", "COMMA", "RPAREN"}) THEN Ret(Adv(start), Nil)
                   ELSE Rung(Adv(start), CastRung), start)
RangeExpr(s) == RangeFrom(Rung(s, CastRung))

RECURSIVE CastTail(_)
CastTail(s) ==
    LET type == TypeAt(Adv(s))
    IN  IF Is(s, CastOps) THEN CastTail(Ret(type, Node("TYPECAST", <<>>, <<s.n, type.n>>))) ELSE s

RungTail(s, i) ==
    LET right == Rung(Adv(s), RightRung(i))
    IN  IF Is(s, Ladder[i]) THEN RungTail(Ret(right, Binary(Lexeme(s), s.n, right.n)), i) ELSE s

Rung(s, i) ==
    CASE i = UnaryRung -> Unary(s)
      [] i = RangeRung -> RangeExpr(s)
      [] i = CastRung -> CastTail(Rung(s, i + 1))
      [] OTHER -> RungTail(Rung(s, i + 1), i)

\* c ? a : b, right associative; the tree nests two binary nodes.
RECURSIVE Ternary(_)
TernaryNode(no, yes, cond) == Ret(no, Binary(<<"?:">>, cond, Binary(<<":">>, yes, no.n)))
TernaryElse(yes, cond) == TernaryNode(Ternary(Expect(yes, "COLON")), yes.n, cond)
TernaryOf(cond) == IF Is(cond, {"QUESTION"}) THEN TernaryElse(Rung(Adv(cond), 1), cond.n) ELSE cond
Ternary(s) == TernaryOf(Rung(s, 1))

\* The operator of a compound assignment is not kept.
AssignmentNode(right, left) == Ret(right, Node("ASSIGNMENT", <<>>, <<left, right.n>>))
AssignmentTo(left) ==
    IF Is(left, AssignOps) THEN AssignmentNode(Ternary(NL(Adv(left))), left.n) ELSE left
ExpressionRule(s) == IF s.panic THEN Ret(s, Nil) ELSE AssignmentTo(NL(Ternary(NL(s))))

(****************************************************************************)
(* Statements.                                                               *)
(****************************************************************************)
\* pbit x" = a ' b, pbit x: [a ' b], pbit x: object:[a ' b] and pbit x = e.
PbitDecl(s) ==
    LET name == SlashIdent(Adv(s), <<>>)
        formA == Expression(Expect(Adv(name), "ASSIGN"))
        formB == Expression(Adv(Adv(name)))
        slice == Expression(Adv(name))
        end(t) == Expression(Expect(t, "TICK"))
        decl(t, kind, fields) == Ret(Opt(t, "SEMICOLON"), Node(kind, name.n.v, fields))
    IN  CASE ~Is(Adv(s), {"IDENT"}) -> Fail(Adv(s))
          [] Is(Adv(s), {"IDENT"}) /\ name.n = Nil -> name
          [] OTHER ->
             CASE Is(name, {"QUOTE"}) -> decl(end(formA), "PBIT_BLOCK", <<formA.n, end(formA).n>>)
               [] Is(name, {"COLON"}) /\ Is(Adv(name), {"LBRACKET"}) ->
                      decl(Expect(end(formB), "RBRACKET"), "PBIT_BLOCK", <<formB.n, end(formB).n>>)
               [] Is(name, {"COLON"}) /\ ~Is(Adv(name), {"LBRACKET"}) ->
                      decl(slice, "PBIT_BLOCK", <<slice.n, Nil>>)
               [] Is(name, {"ASSIGN"}) -> decl(slice, "PBIT_VALUE", <<slice.n, Nil>>)
               [] OTHER -> decl(Err(name), "PBIT_VALUE", <<Nil, Nil>>)

\* The value after "=", if there is one.
Initialiser(s) == IF Is(s, {"ASSIGN"}) THEN Expression(Adv(s)) ELSE Ret(s, Nil)
Annotation(s) == IF Is(s, {"COLON"}) THEN TypeAt(Adv(s)) ELSE Ret(s, Nil)

\* var and let; the names of a tuple pattern, and its type, are not kept.
VarDecl(s) ==
    LET t == Adv(s)
        tuple == Initialiser(Annotation(TuplePattern(Adv(t), 0)))
        name == SlashIdent(t, <<>>)
        type == Annotation(name)
        init == Initialiser(type)
    IN  CASE Is(t, {"LPAREN"}) ->
                 Ret(Opt(tuple, "SEMICOLON"),
                     Node("VAR_DECL", <<"__tuple_pattern__">>, <<Nil, tuple.n>>))
          [] Is(t, MemberKinds) /\ name.n # Nil ->
                 Ret(Opt(init, "SEMICOLON"), Node("VAR_DECL", name.n.v, <<type.n, init.n>>))
          [] ~Is(t, MemberKinds \cup {"LPAREN"}) -> Fail(t)
          [] OTHER -> Fail(name)

\* for x in e, and for (init; cond; inc).
For(s) ==
    LET t == Adv(s)
        iterable == Expression(Adv(Adv(t)))
        each == Body(iterable)
        part(u, close) == IF Is(u, {close}) THEN Ret(u, Nil) ELSE Expression(u)
        init == part(Expect(t, "LPAREN"), "SEMICOLON")
        cond == part(Expect(init, "SEMICOLON"), "SEMICOLON")
        inc == part(Expect(cond, "SEMICOLON"), "RPAREN")
        body == Body(Expect(inc, "RPAREN"))
    IN  IF Is(t, {"IDENT"})
        THEN IF Is(Adv(t), {"IN"})
             THEN Ret(each, Node("FOR_STMT", Lexeme(t), <<iterable.n, each.n>>))
             ELSE Fail(Adv(t))
        ELSE Ret(body, Node("FOR_STMT", <<>>, <<init.n, cond.n, inc.n, body.n>>))

\* loop: a while that is always true.
Loop(s) ==
    LET body == Body(NL(Adv(s)))
    IN  Ret(body, Node("WHILE_STMT", <<>>, <<Literal(<<"1">>), body.n>>))

RECURSIVE MorphItems(_, _)
\* What is no statement is skipped, however far it was read.
MorphItems(s0, items) ==
    LET s == Separators(s0)
        t == Statement(s)
    IN  IF Is(s, {"RBRACE", "EOF"}) THEN Ret(s, List(items))
        ELSE MorphItems(IF t.n = Nil /\ ~Is(t, {"RBRACE"}) THEN Adv(t) ELSE t,
                        Store(items, t.n, MaxMorphItems))

Morph(s) ==
    LET open == NL(Adv(s))
        items == MorphItems(Adv(open), <<>>)
    IN  IF Is(open, {"LBRACE"})
        THEN Ret(Expect(items, "RBRACE"), Node("HW_MORPH_BLOCK", <<>>, items.n.c))
        ELSE Ret(Err(open), Node("HW_MORPH_BLOCK", <<>>, <<>>))

Goto(s) ==
    LET t == NL(Adv(s))
        target == IF Is(t, {"SEMICOLON", "RBRACE", "EOF"}) THEN Ret(t, Nil) ELSE Expression(t)
    IN  Ret(Opt(target, "SEMICOLON"), Node("HW_ISA_CALL", <<"goto">>, Store(<<>>, target.n, 1)))

\* The else of a guard, which must follow.
GuardNode(body, fields) == Ret(body, Node("GUARD_STMT", <<>>, Append(fields, body.n)))
GuardElse(tail, fields) ==
    IF Is(tail, {"ELSE"}) THEN GuardNode(Body(NL(Adv(tail))), fields) ELSE Fail(tail)

BoundGuard(value, binding) == GuardElse(NL(value), <<binding, value.n, Nil>>)
FreeGuard(value) == GuardElse(NL(value), <<Nil, Nil, value.n>>)
GuardOn(pattern) ==
    IF pattern.n = Abandoned \/ ~Is(pattern, {"ASSIGN"}) THEN Fail(pattern)
    ELSE BoundGuard(Expression(Adv(pattern)), pattern.n)

\* guard c, guard let x = e and guard case \Name(...) = e.
Guard(s) ==
    IF Is(Adv(s), {"CASE", "LET"}) THEN GuardOn(GuardPattern(Adv(s))) ELSE FreeGuard(Expression(Adv(s)))

Return(s) ==
    LET t == Adv(s)
        value == IF Is(t, {"SEMICOLON", "RBRACE", "NEWLINE", "EOF"}) THEN Ret(t, Nil)
                 ELSE Expression(t)
    IN  Ret(Opt(NL(value), "SEMICOLON"), Node("RETURN_STMT", <<>>, <<value.n>>))

RECURSIVE ExtraConditions(_)
\* Conditions after the first are read and not kept.
ExtraConditions(s) ==
    IF Is(s, {"COMMA"})
    THEN ExtraConditions(Ret(Expression(NL(Adv(s))), s.n))
    ELSE s

\* if case: the condition is the pattern, what it matches is not kept.
IfCaseOn(pattern) ==
    IF pattern.n = Abandoned THEN pattern
    ELSE Ret(Expression(Expect(pattern, "ASSIGN")), pattern.n)
IfCase(s) ==
    LET name == Adv(Adv(s))
    IN  IfCaseOn(IF ~Is(Adv(s), {"BACKSLASH"}) THEN Expression(Adv(s))
                 ELSE IF Is(name, {"IDENT"}) THEN Ret(Adv(name), Ident(<<"\\">> \o Lexeme(name)))
                 ELSE Abandon(name))

\* if let: the condition is the value, the pattern is not kept.
IfLet(s) ==
    LET t == Adv(s)
        end == IF Is(t, {"LPAREN"}) THEN TuplePattern(Adv(t), 0) ELSE Adv(t)
    IN  IF ~Is(t, {"LPAREN", "IDENT"}) THEN Abandon(t)
        ELSE IF ~Is(end, {"ASSIGN"}) THEN Abandon(end)
        ELSE Expression(Adv(end))

\* The else of an if, behind its first branch.
IfTail(then, end, cond) ==
    IfNode(IF Is(end, {"ELSE"}) THEN Body(NL(Adv(end))) ELSE Ret(end, Nil), cond, then)
IfBody(then, cond) == IfTail(then.n, NL(then), cond)
IfOn(cond) == IF cond.n = Abandoned THEN Ret(cond, Nil) ELSE IfBody(Body(NL(cond)), cond.n)

If(s) ==
    LET t == Adv(s)
    IN  IfOn(CASE Is(t, {"CASE"}) -> IfCase(t)
               [] Is(t, {"LET"}) -> IfLet(t)
               [] OTHER -> ExtraConditions(Expression(t)))

\* The statements of a case, up to one of stops.
RECURSIVE CaseBody(_, _, _)
CaseItem(s, t, items, stops) ==
    CaseBody(IF t.pos = s.pos THEN Adv(t) ELSE t, Store(items, t.n, MaxCaseItems), stops)

CaseBody(s0, items, stops) ==
    LET s == NL(s0)
    IN  IF Is(s, stops \cup {"EOF"}) THEN Ret(s, List(items))
        ELSE CaseItem(s, Statement(s), items, stops)

\* The ":" of a case or a default; whatever stands in its place is skipped.
CaseColon(s) == NL(IF Is(s, {"COLON"}) THEN Adv(s) ELSE Adv(Err(s)))

\* A case behind its values, and the cases after it; the statements of a
\* default go on to the end of the switch.
RECURSIVE SwitchCases(_, _, _)
SwitchCaseRead(body, values, cases, default) ==
    SwitchCases(body, Store(cases, Case(values, body.n.c), MaxCases), default)
SwitchCase(values, cases, default) ==
    SwitchCaseRead(CaseBody(CaseColon(values), <<>>, {"CASE", "DEFAULT", "RBRACE"}), values.n.c,
                   cases, default)
SwitchDefault(body, cases) == SwitchCases(body, cases, Case(<<>>, body.n.c))

SwitchCases(s0, cases, default) ==
    LET s == NL(s0)
    IN  CASE Is(s, {"RBRACE", "EOF"}) -> Ret(s, Node("CASES", <<>>, <<List(cases), default>>))
          [] Is(s, {"CASE"}) -> SwitchCase(CaseValues(Adv(s), <<>>, {"COLON"}), cases, default)
          [] Is(s, {"DEFAULT"}) -> SwitchDefault(CaseBody(CaseColon(Adv(s)), <<>>, {"RBRACE"}), cases)
          [] OTHER -> SwitchCases(Adv(s), cases, default)

SwitchOn(subject) ==
    IF Is(subject, {"LBRACE"})
    THEN CasesNode(SwitchCases(Adv(subject), <<>>, Nil), subject.n, "SWITCH_STMT")
    ELSE Ret(Err(subject), Node("SWITCH_STMT", <<>>, <<subject.n, List(<<>>), Nil>>))
Switch(s) == SwitchOn(Subject(Adv(s)))

Defer(s) == LET body == Body(Adv(s)) IN Ret(body, Node("DEFER_STMT", <<>>, <<body.n>>))

\* The "(" after while is taken for the whole condition's.
While(s) ==
    LET cond == ExtraConditions(Expression(Opt(Adv(s), "LPAREN")))
        body == Statement(Opt(cond, "RPAREN"))
    IN  Ret(body, Node("WHILE_STMT", <<>>, <<cond.n, body.n>>))

MetalStatement(s) ==
    LET items == Items(Adv(Adv(s)), <<>>, MaxMetalItems)
    IN  IF Is(Adv(s), {"LBRACE"})
        THEN Ret(Expect(items, "RBRACE"), Node("METAL_BLOCK", <<>>, items.n.c))
        ELSE Ret(Err(Adv(s)), Node("METAL_BLOCK", <<>>, <<>>))

\* win { }, sys { } and hardware { }, told from the same words in expressions
\* by the brace.
HostBlock(s, kind) ==
    LET items == Items(Adv(Adv(s)), <<>>, Len(s.toks))
    IN  Ret(Expect(items, "RBRACE"), Node(kind, <<>>, items.n.c))
WinBlock(s) == HostBlock(s, "WIN_BLOCK")
SysBlock(s) == HostBlock(s, "SYS_BLOCK")
HardwareBlock(s) == HostBlock(s, "HW_BLOCK")

ExprStatement(s) ==
    LET e == Expression(s)
    IN  IF e.n = Nil THEN e
        ELSE Ret(Opt(e, "SEMICOLON"),
                 IF e.n.k = "ASSIGNMENT" THEN e.n ELSE Node("EXPR_STMT", <<>>, <<e.n>>))

StatementRule(s) ==
    LET opens == Is(Adv(s), {"LBRACE"})
    IN  CASE Is(s, {"PBIT"}) -> PbitDecl(s)
          [] Is(s, {"VAR", "LET"}) -> VarDecl(s)
          [] Is(s, {"FOR"}) -> For(s)
          [] Named(s, "loop") -> Loop(s)
          [] Named(s, "morph") -> Morph(s)
          [] Named(s, "goto") -> Goto(s)
          [] Is(s, {"GUARD"}) -> Guard(s)
          [] Is(s, {"RETURN"}) -> Return(s)
          [] Is(s, {"IF"}) -> If(s)
          [] Is(s, {"SWITCH"}) -> Switch(s)
          [] Is(s, {"DEFER"}) -> Defer(s)
          [] Is(s, {"WHILE"}) -> While(s)
          [] Is(s, {"METAL"}) -> MetalStatement(s)
          [] Named(s, "win") /\ opens -> WinBlock(s)
          [] Is(s, {"SYS"}) /\ opens -> SysBlock(s)
          [] Named(s, "hardware") /\ opens -> HardwareBlock(s)
          [] Is(s, {"SILICON"}) -> SiliconBlock(Adv(s))
          [] Is(s, {"ASM"}) -> AsmStatement(s)
          [] Is(s, {"LBRACE"}) -> Block(s)
          [] Is(s, {"BREAK"}) -> Ret(Opt(Adv(s), "SEMICOLON"), Node("BREAK_STMT", <<>>, <<>>))
          [] Is(s, {"CONTINUE"}) -> Ret(Opt(Adv(s), "SEMICOLON"), Node("CONTINUE_STMT", <<>>, <<>>))
          [] Is(s, ClosingKinds) -> Ret(s, Nil)
          [] OTHER -> ExprStatement(s)

(****************************************************************************)
(* Silicon blocks.  Their loops do not skip what they cannot read: one that  *)
(* did not advance goes round for ever.                                      *)
(****************************************************************************)
RECURSIVE ConfigItems(_, _, _)
\* REGISTER\Property = value entries; braces inside are only counted.
ConfigItems(s0, depth, items) ==
    LET s == NL(s0)
        register == Skip(s, PathKinds)
        property == Skip(Opt(register, "BACKSLASH"), PathKinds)
        value == Expression(Adv(property))
        entry == Node("CONFIG", Lexemes(s, property), <<value.n>>)
        named == Is(s, {"IDENT"})
        assigned == named /\ Is(property, {"ASSIGN"})
        next == Separators(IF assigned THEN value ELSE IF named THEN property ELSE s)
    IN  CASE Is(s, {"EOF"}) \/ (Is(s, {"RBRACE"}) /\ depth = 1) -> Ret(Adv(s), List(items))
          [] Is(s, {"RBRACE"}) /\ depth > 1 -> ConfigItems(Adv(s), depth - 1, items)
          [] Is(s, {"LBRACE"}) -> ConfigItems(Adv(s), depth + 1, items)
          [] OTHER ->
                 IF Stuck(s, next) THEN Ret(Hang(s), List(items))
                 ELSE ConfigItems(next, depth,
                                  IF assigned THEN Store(items, entry, MaxConfigs) ELSE items)

\* using CPU/Current { ... }
Using(s) ==
    LET context == Skip(Adv(s), PathKinds)
        items == ConfigItems(Adv(context), 1, <<>>)
    IN  IF Is(context, {"LBRACE"})
        THEN Ret(items, Node("MICROARCH_CONFIG", Lexemes(Adv(s), context), items.n.c))
        ELSE Ret(context, Nil)

RECURSIVE PipelineItems(_, _, _)
PipelineItem(s, item, next, depth, items) ==
    IF Stuck(s, next) THEN Ret(Hang(s), List(items))
    ELSE PipelineItems(next, depth, Store(items, item, MaxPipelineItems))
PipelineRead(s, t, depth, items) == PipelineItem(s, t.n, Separators(t), depth, items)

PipelineItems(s0, depth, items) ==
    LET s == NL(s0)
    IN  CASE Is(s, {"EOF"}) \/ (Is(s, {"RBRACE"}) /\ depth = 1) -> Ret(Adv(s), List(items))
          [] Is(s, {"RBRACE"}) /\ depth > 1 -> PipelineItems(Adv(s), depth - 1, items)
          [] Is(s, {"LBRACE"}) -> PipelineItems(Adv(s), depth + 1, items)
          [] OTHER ->
                 PipelineRead(s, IF Named(s, "pipeline") THEN PipelineOp(s) ELSE Statement(s), depth, items)

PipelineNode(items, flags) == Ret(items, Node("PIPELINE_BLOCK", flags, items.n.c))
PipelineBody(open, flags) ==
    IF Is(open, {"LBRACE"}) THEN PipelineNode(PipelineItems(Adv(open), 1, <<>>), flags) ELSE Ret(open, Nil)
FlaggedPipeline(params) ==
    PipelineBody(Expect(Ret(params, Nil), "RPAREN"),
                 SetToSortSeq(params.n, LAMBDA a, b : a = "serialize"))

Pipeline(s) ==
    IF Is(Adv(s), {"LPAREN"}) THEN FlaggedPipeline(PipelineParams(Adv(Adv(s)), {}))
    ELSE PipelineBody(Adv(s), <<>>)

\* silicon\cache\op(target); what is incomplete is dropped.
CacheOp(s) ==
    LET op == Adv(Adv(s))
        target == Expression(Adv(Adv(op)))
    IN  IF ~Is(Adv(s), {"BACKSLASH"}) THEN Ret(Adv(s), Nil)
        ELSE IF ~Is(op, {"IDENT"}) THEN Ret(op, Nil)
        ELSE IF ~Is(Adv(op), {"LPAREN"}) THEN Ret(Adv(op), Nil)
        ELSE Ret(Expect(target, "RPAREN"), Node("CACHE_OPERATION", Lexeme(op), <<target.n>>))

PrefetchNode(params, address) ==
    Ret(Expect(params, "RPAREN"), Node("PREFETCH_OPERATION", params.n.v, <<address>>))
PrefetchOf(address) == PrefetchNode(PrefetchParams(address, <<"NTA">>, <<>>), address.n)
Prefetch(s) ==
    IF Is(Adv(s), {"LPAREN"}) THEN PrefetchOf(Expression(Adv(Adv(s)))) ELSE Ret(Adv(s), Nil)

SiliconItem(s) ==
    LET op == Adv(Adv(s))
        own == Is(s, {"SILICON"}) /\ Is(Adv(s), {"BACKSLASH"})
    IN  CASE Is(s, {"USING"}) -> Using(s)
          [] Is(s, {"PIPELINE"}) -> Pipeline(s)
          [] own /\ Named(op, "cache") -> CacheOp(op)
          [] own /\ Named(op, "prefetch") -> Prefetch(op)
          [] OTHER -> Statement(s)

SiliconNext(s, t, items) ==
    IF Stuck(s, Separators(t)) THEN Ret(Hang(s), List(items))
    ELSE SiliconItems(Separators(t), Store(items, t.n, MaxSiliconItems))

SiliconItems(s0, items) ==
    LET s == NL(s0)
    IN  IF Is(s, {"RBRACE", "EOF"}) THEN Ret(s, List(items))
        ELSE SiliconNext(s, SiliconItem(s), items)

Parse(rule, s) ==
    CASE rule = "expression" -> ExpressionRule(s)
      [] rule = "primary" -> PrimaryRule(s)
      [] rule = "postfix" -> PostfixRule(s)
      [] rule = "statement" -> StatementRule(s)
      [] rule = "type" -> ParseType(s)
====
