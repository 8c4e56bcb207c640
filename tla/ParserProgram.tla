---- MODULE ParserProgram ----
(****************************************************************************)
(* parser_parse_program of parser/aec_parser.c: the loop over the top-level  *)
(* declarations of one source, one action per kind of declaration, with the  *)
(* guard against an iteration that makes no progress and the recovery from   *)
(* text that is no declaration.                                              *)
(*                                                                          *)
(* A source is its text, and the tree its author meant when one is known;    *)
(* the parser reads the text only.                                           *)
(****************************************************************************)
EXTENDS Parser

CONSTANTS
    Sources,    \* the sources that may be compiled: [text |-> ..., tree |-> ...]
    MaxSkip,    \* tokens one recovery may pass over, 500 in the code
    MaxDecls    \* declarations a program holds, 100 in the code

ASSUME BoundsAssumption == MaxSkip \in Nat \ {0} /\ MaxDecls \in Nat \ {0}

VARIABLES
    source,     \* the source being compiled
    s,          \* the parser
    decls,      \* the declarations of the program node
    stall,      \* last_safe_pos and stalled_count
    status      \* "parsing", "done", "struck" (the process exited) or "spinning"

vars == <<source, s, decls, stall, status>>

(****************************************************************************)
(* The declarations.  Each leaves its node in n, Nil when it gives up.       *)
(****************************************************************************)
\* A mutant of Use: the keyword is left for the next iteration.
UseNotConsumed(t) == Separators(Ret(t, Nil))

Use(t) == Separators(Ret(IF Is(Adv(t), {"STRING", "IDENT"}) THEN Adv(Adv(t)) ELSE Adv(t), Nil))

\* import and rimport; the kind of import is kept.
Import(t) ==
    LET spec == ImportSpec(Adv(t))
        kind == IF Is(t, {"RIMPORT"}) THEN <<"rimport">> ELSE <<"import">>
    IN  IF spec.n = Nil THEN spec
        ELSE Separators(Ret(spec, Node("IMPORT_STMT", kind \o spec.n.v, <<>>)))

ConstNode(value, name) == Separators(Ret(value, Node("CONST_DECL", name, <<value.n>>)))

Const(t) ==
    LET name == SlashIdent(Adv(t), <<>>)
    IN  IF ~Is(Adv(t), {"IDENT"}) THEN Ret(NL(Adv(Err(Adv(t)))), Nil)
        ELSE IF name.n = Nil THEN NL(Fail(name))
        ELSE ConstNode(Initialiser(IF Is(name, {"COLON"}) THEN ParseType(NL(Adv(name))) ELSE name),
                       name.n.v)

MaxParams == 64
ParamKinds == SegmentKinds \ {"SYS"}

\* What stands where a "," or a ")" should is an error and is skipped.
AfterParam(t) == Opt(SkipTo(Err(t), {"COMMA", "RPAREN"}), "COMMA")

\* The parameter of a name whose type was just read, and those after it.
RECURSIVE Params(_, _)
ParamAndRest(end, name, params) ==
    LET more == Store(params, Node("PARAM", name, <<end.n>>), MaxParams)
    IN  IF Is(end, {"COMMA"}) THEN Params(Adv(end), more)
        ELSE IF Is(end, {"RPAREN", "EOF"}) THEN Ret(end, List(more))
        ELSE Params(AfterParam(end), more)

Params(t0, params) ==
    LET t == NL(t0)
        name == SlashIdent(t, <<>>)
        colon == NL(name)
    IN  IF Is(t0, {"EOF"}) \/ Is(t, {"RPAREN"}) THEN Ret(t, List(params))
        ELSE IF ~Is(t, ParamKinds) THEN Params(AfterParam(t), params)
        ELSE IF name.n = Nil THEN Ret(Err(name), List(params))
        ELSE ParamAndRest(NL(IF Is(colon, {"COLON"}) THEN ParseType(NL(Adv(colon))) ELSE Ret(colon, Nil)),
                          name.n.v, params)

FuncNode(body, name, fields) == Ret(body, Node("FUNC_DECL", name, Append(fields, body.n)))

\* The body of a function, behind its type.
FuncBody(type, extern, name, fields) ==
    FuncNode(IF extern THEN Ret(NL(type), Nil) ELSE Block(type), name, Append(fields, type.n))

\* The type and the body of a function, behind its parameters.
FuncRest(head, extern, name, attrs) ==
    FuncBody(IF Is(head, {"ARROW", "COLON"}) THEN ParseType(Adv(head)) ELSE Ret(head, Nil),
             extern, name, <<attrs, head.n>>)

\* func: a missing parameter list is no error; an extern one has no body.
Func(t, attrs, extern) ==
    LET name == SlashIdent(Adv(t), <<>>)
    IN  IF ~Is(Adv(t), {"IDENT"}) THEN Fail(Adv(t))
        ELSE IF name.n = Nil THEN Fail(name)
        ELSE FuncRest(NL(IF Is(name, {"LPAREN"}) THEN Expect(Params(Adv(name), <<>>), "RPAREN")
                         ELSE Ret(name, List(<<>>))),
                      extern, name.n.v, attrs)

\* A method of a struct, which is passed over.
MethodBody(type) ==
    IF Is(type, {"LBRACE"}) THEN Adv(Closing(Adv(type), "LBRACE", "RBRACE", 1)) ELSE type
MethodDecl(t) ==
    LET name == Opt(Adv(t), "IDENT")
        params == NL(IF Is(name, {"LPAREN"})
                     THEN Adv(Closing(Adv(name), "LPAREN", "RPAREN", 1)) ELSE name)
    IN  MethodBody(IF Is(params, {"ARROW", "COLON"}) THEN ParseType(Adv(params)) ELSE params)

\* A field is named by any token, and by segments after it.
RECURSIVE FieldName(_)
FieldName(t) ==
    IF ~Is(t, {"SLASH"}) THEN t
    ELSE IF Is(Adv(t), ParamKinds) THEN FieldName(Adv(Adv(t)))
    ELSE Err(Adv(t))

AfterItem(end) == IF Is(end, {"COMMA"}) THEN Adv(end) ELSE Separators(end)

\* The "@ offset" and the default of a field, neither of them kept.
FieldTail(t) ==
    LET at == IF ~Is(t, {"AT"}) THEN t
              ELSE IF Is(Adv(t), {"INT", "IDENT"}) THEN Adv(Adv(t))
              ELSE Err(Adv(t))
    IN  Initialiser(at)

\* The field of a name whose type was just read, and the fields after it.
RECURSIVE Fields(_, _)
FieldAndRest(type, name, fields) ==
    Fields(AfterItem(FieldTail(type)), Append(fields, Node("FIELD", name, <<type.n>>)))

Fields(t0, fields) ==
    LET t == NL(t0)
        mutating == IF Named(t, "mutating") THEN Adv(t) ELSE t
        start == IF Is(mutating, {"VAR", "LET"}) THEN Adv(mutating) ELSE mutating
        name == FieldName(Adv(start))
    IN  IF Is(t0, {"RBRACE", "EOF"}) \/ Is(t, {"RBRACE"}) THEN Ret(t, List(fields))
        ELSE IF Is(mutating, {"FUNC"}) THEN Fields(MethodDecl(mutating), fields)
        ELSE IF Is(start, {"RBRACE", "EOF"}) THEN Ret(Err(start), List(fields))
        ELSE IF ~Is(name, {"COLON"}) THEN Ret(Err(name), List(fields))
        ELSE FieldAndRest(ParseType(Adv(name)), Lexemes(start, name), fields)

StructNode(end, name, attrs) == Ret(end, Node("STRUCT_DECL", name, <<attrs, end.n>>))

Struct(t, attrs) ==
    LET name == Adv(t)
    IN  IF ~Is(name, {"IDENT"}) THEN Fail(name)
        ELSE StructNode(IF Is(Adv(name), {"LBRACE"})
                        THEN Expect(Fields(Adv(Adv(name)), <<>>), "RBRACE")
                        ELSE Ret(Adv(name), List(<<>>)),
                        Lexeme(name), attrs)

MaxEnumCases == 16

\* A value or the associated types of a case, neither of them kept.
CaseTail(t) ==
    IF Is(t, {"ASSIGN"}) THEN Expression(Adv(t))
    ELSE IF Is(t, {"LPAREN"}) THEN Adv(Closing(Adv(t), "LPAREN", "RPAREN", 1))
    ELSE t

RECURSIVE EnumCases(_, _)
EnumCases(t0, cases) ==
    LET t == NL(t0)
        name == Opt(t, "CASE")
        more == IF Len(cases) = MaxEnumCases THEN cases ELSE Append(cases, Ident(Lexeme(name)))
    IN  IF Is(t0, {"RBRACE", "EOF"}) \/ ~Is(t, {"IDENT", "CASE"}) THEN Ret(t, List(cases))
        ELSE IF ~Is(name, {"IDENT"}) THEN Ret(Err(name), List(cases))
        ELSE EnumCases(AfterItem(CaseTail(Adv(name))), more)

EnumNode(end, name) == Ret(end, Node("ENUM_DECL", name, end.n.c))

Enum(t) ==
    LET name == Adv(t)
    IN  IF ~Is(name, {"IDENT"}) THEN Fail(name)
        ELSE EnumNode(IF Is(Adv(name), {"LBRACE"})
                      THEN Expect(EnumCases(Adv(Adv(name)), <<>>), "RBRACE")
                      ELSE Ret(Adv(name), List(<<>>)),
                      Lexeme(name))

(****************************************************************************)
(* Recovery: on to the next keyword of a declaration outside all brackets,   *)
(* or past a line's end once three tokens were passed; no error is recorded. *)
(****************************************************************************)
DeclKinds == {"FUNC", "STRUCT", "ENUM", "VAR", "LET", "CONST", "IMPORT", "RIMPORT",
              "USE", "METAL", "ASM", "BYTES"}

Open == [LBRACKET |-> "square", LPAREN |-> "round", LBRACE |-> "curly"]
Close == [RBRACKET |-> "square", RPAREN |-> "round", RBRACE |-> "curly"]

Depth(depth, k) ==
    IF k \in DOMAIN Open THEN [depth EXCEPT ![Open[k]] = @ + 1]
    ELSE IF k \in DOMAIN Close THEN [depth EXCEPT ![Close[k]] = @ - 1]
    ELSE depth

RECURSIVE SkipForeign(_, _, _)
SkipForeign(t, depth, passed) ==
    LET here == Depth(depth, t.toks[t.pos].t)
        outside == \A b \in DOMAIN here : here[b] = 0
    IN  IF Is(t, {"EOF"}) \/ passed = MaxSkip \/ (outside /\ Is(t, DeclKinds)) THEN t
        ELSE IF outside /\ Is(t, {"NEWLINE"}) /\ passed >= 3 THEN Adv(t)
        ELSE SkipForeign(Adv(t), here, passed + 1)

Recover(t) ==
    LET end == SkipForeign(t, [b \in {"square", "round", "curly"} |-> 0], 0)
    IN  Ret(IF end.pos = t.pos THEN Adv(end) ELSE end, Nil)

(****************************************************************************)
(* The loop.                                                                 *)
(****************************************************************************)
MaxStall == 5

Stalled == s.pos = stall.pos

\* The stall guard, before the newlines of an iteration.
Begun == NL(IF Stalled /\ stall.count = MaxStall THEN Adv(s) ELSE s)

\* The cursor where the kind of declaration is decided; n is the attributes.
Cursor == NL(Attributes(Begun, <<>>))
Attrs == Cursor.n

\* Behind unmanaged and extern.
Unmanaged == Opt(Cursor, "UNMANAGED")
Extern == Is(Unmanaged, {"EXTERN"})
Bare == Opt(Unmanaged, "EXTERN")

RawKinds == {"METAL", "ASM", "BYTES", "MAP", "SYNTAX"}
ItemKinds == RawKinds \cup {"USE", "IMPORT", "RIMPORT", "CONST"}
BareKinds == {"FUNC", "STRUCT", "ENUM", "VAR", "LET"}

Running == status = "parsing" /\ ~Is(s, {"EOF"}) /\ ~s.panic
Iterating == Running /\ ~Is(Begun, {"EOF"})

\* An iteration that leaves the parser at t and adds the node in n, if any.
\* A parser inside a loop that can make no more progress takes no further step.
Declare(t, added) ==
    /\ s' = t
    /\ decls' = added
    /\ stall' = IF ~Stalled THEN [pos |-> s.pos, count |-> 0]
                ELSE [stall EXCEPT !.count = IF @ = MaxStall THEN 0 ELSE @ + 1]
    /\ status' = IF t.hung THEN "spinning" ELSE status
    /\ UNCHANGED source

\* A mutant of Keep: a declaration that was given up is added all the same.
KeepNil(t) == Append(decls, t.n)
Keep(t) == IF t.n = Nil THEN decls ELSE Append(decls, t.n)

\* The declaration just read, and the separators behind it.
Kept(t) == Declare(Separators(t), Keep(t))

ParseUse == Iterating /\ Is(Cursor, {"USE"}) /\ Declare(Use(Cursor), decls)

ParseImport ==
    /\ Iterating
    /\ Is(Cursor, {"IMPORT", "RIMPORT"})
    /\ Kept(Import(Cursor))

Raw(t) ==
    CASE Is(t, {"METAL"}) -> MetalBlock(t)
      [] Is(t, {"ASM"}) -> AsmBlock(t)
      [] Is(t, {"BYTES"}) -> BytesBlock(t)
      [] Is(t, {"MAP"}) -> MapDef(t)
      [] Is(t, {"SYNTAX"}) -> SyntaxDef(t)

ParseRaw ==
    /\ Iterating
    /\ Is(Cursor, RawKinds)
    /\ Kept(Raw(Cursor))

ParseConst ==
    /\ Iterating
    /\ Is(Cursor, {"CONST"})
    /\ Kept(Const(Cursor))

ParseFunc ==
    /\ Iterating
    /\ ~Is(Cursor, ItemKinds)
    /\ Is(Bare, {"FUNC"})
    /\ Kept(Func(Bare, Attrs, Extern))

ParseStruct ==
    /\ Iterating
    /\ ~Is(Cursor, ItemKinds)
    /\ Is(Bare, {"STRUCT"})
    /\ Kept(Struct(Bare, Attrs))

ParseEnum ==
    /\ Iterating
    /\ ~Is(Cursor, ItemKinds)
    /\ Is(Bare, {"ENUM"})
    /\ Kept(Enum(Bare))

\* The only declaration whose room is checked.
KeptIfRoom(t) ==
    Declare(Separators(IF t.pos = Bare.pos THEN Adv(t) ELSE t),
            IF Len(decls) < MaxDecls THEN Keep(t) ELSE decls)

ParseVar ==
    /\ Iterating
    /\ ~Is(Cursor, ItemKinds)
    /\ Is(Bare, {"VAR", "LET"})
    /\ KeptIfRoom(Statement(Bare))

ParseForeign ==
    /\ Iterating
    /\ ~Is(Cursor, ItemKinds)
    /\ ~Is(Bare, BareKinds)
    /\ Declare(Separators(Recover(Bare)), decls)

\* The end of the source, or the first error.
Finish ==
    /\ status = "parsing"
    /\ ~Iterating
    /\ s' = IF Running THEN Begun ELSE s
    /\ status' = "done"
    /\ UNCHANGED <<source, decls, stall>>

Init ==
    /\ source \in Sources
    /\ \E lexed \in {Lex(source.text)} :
           /\ s = Start(lexed.toks)
           /\ status = IF lexed.struck THEN "struck" ELSE "parsing"
    /\ decls = <<>>
    /\ stall = [pos |-> 0, count |-> 0]

Next ==
    \/ ParseUse \/ ParseImport \/ ParseRaw \/ ParseConst \/ ParseFunc \/ ParseStruct
    \/ ParseEnum \/ ParseVar \/ ParseForeign \/ Finish

Spec == Init /\ [][Next]_vars
====
