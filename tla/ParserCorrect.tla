---- MODULE ParserCorrect ----
(****************************************************************************)
(* What the parser promises: the tree it builds is the one the source was    *)
(* written from.  The reference is a printer, which spells a tree with the   *)
(* precedences and the layout the comments of the parser describe, and       *)
(* brackets where they are needed; lexing and parsing the text must give the *)
(* tree back.                                                                *)
(****************************************************************************)
EXTENDS ParserProgram

(****************************************************************************)
(* The printer.                                                              *)
(****************************************************************************)
\* How tightly an operator binds, by its spelling.
Binding ==
    [o \in {<<"|", "|">>, <<"&", "&">>, <<"?", "?">>, <<"|">>, <<"^">>, <<"&">>, <<"=", "=">>,
            <<"!", "=">>, <<"<">>, <<"<", "=">>, <<">">>, <<">", "=">>, <<"<", "<">>,
            <<">", ">">>, <<"+">>, <<"-">>, <<"*">>, <<"div">>, <<"%">>, <<"?:">>} |->
        CASE o = <<"?:">> -> 0
          [] o = <<"|", "|">> -> 1
          [] o = <<"&", "&">> -> 2
          [] o = <<"?", "?">> -> 3
          [] o = <<"|">> -> 4
          [] o = <<"^">> -> 5
          [] o = <<"&">> -> 6
          [] o \in {<<"=", "=">>, <<"!", "=">>} -> 7
          [] o \in {<<"<">>, <<"<", "=">>, <<">">>, <<">", "=">>} -> 8
          [] o \in {<<"<", "<">>, <<">", ">">>} -> 11
          [] o \in {<<"+">>, <<"-">>} -> 12
          [] OTHER -> 13]

Tightness(e) ==
    CASE e.k = "ASSIGNMENT" -> -1
      [] e.k = "BINARY_OP" -> Binding[e.v]
      [] e.k = "RANGE" -> 9
      [] e.k = "TYPECAST" -> 10
      [] e.k \in {"UNARY_OP", "REFERENCE"} -> 14
      [] OTHER -> 15

Spaced(pieces) == FlattenSeq([i \in 1..Len(pieces) |-> (IF i = 1 THEN <<>> ELSE <<" ">>) \o pieces[i]])

RECURSIVE Spell(_, _), Listed(_), Pieces(_), SpellStatement(_), SpellBody(_)

\* e where an expression at least as tight as level is wanted.
Spell(e, level) ==
    IF Tightness(e) < level THEN Spaced(<<<<"(">>>> \o Pieces(e) \o <<<<")">>>>)
    ELSE Spaced(Pieces(e))

Listed(es) ==
    IF es = <<>> THEN <<>>
    ELSE FlattenSeq([i \in 1..Len(es) |-> (IF i = 1 THEN <<>> ELSE <<",">>) \o Spell(es[i], -1)])

\* An operator associates to the left; a range and a relation do not nest in
\* their right operand.
Pieces(e) ==
    LET t == Tightness(e)
        arg(i, level) == Spell(e.c[i], level)
    IN  CASE e.k \in {"IDENT", "LITERAL"} -> <<e.v>>
          [] e.k = "UNARY_OP" -> <<e.v, arg(1, 14)>>
          [] e.k = "REFERENCE" -> <<<<"&">>, arg(1, 14)>>
          [] e.k = "BINARY_OP" /\ e.v = <<"?:">> ->
                 <<arg(1, 1), <<"?">>, Spell(e.c[2].c[1], 1), <<":">>, Spell(e.c[2].c[2], 0)>>
          [] e.k = "BINARY_OP" /\ e.v # <<"?:">> ->
                 <<arg(1, t), e.v, arg(2, IF t = 8 THEN 10 ELSE t + 1)>>
          [] e.k = "RANGE" ->
                 <<arg(1, 10), IF e.v = <<"..">> THEN <<".", ".">> ELSE <<".", ".", "<">>, arg(2, 10)>>
          [] e.k = "TYPECAST" -> <<arg(1, 10), <<"as">>, e.c[2].v>>
          [] e.k = "ASSIGNMENT" -> <<arg(1, 0), <<"=">>, arg(2, 0)>>
          [] e.k = "FORCE_UNWRAP" -> <<arg(1, 15), <<"!">>>>
          [] e.k = "ACCESS" /\ e.v = <<"[index]">> -> <<arg(1, 15), <<"[">>, arg(2, -1), <<"]">>>>
          [] e.k = "ACCESS" /\ e.v # <<"[index]">> -> <<arg(1, 15), <<"\\">>, e.v>>
          [] e.k = "CALL" -> <<arg(1, 15), <<"(">>, Listed(e.c[2].c), <<")">>>>
          [] e.k = "TUPLE_LITERAL" -> <<<<"(">>, Listed(e.c), <<")">>>>
          [] e.k = "PBIT_SLICE" ->
                 <<arg(1, 15), <<":">>, <<"[">>, arg(2, -1), <<"'">>, arg(3, -1), <<"]">>>>

\* A declared type and an initial value, where there are any.
Typed(type) == IF type = Nil THEN <<>> ELSE <<" ", ":", " ">> \o type.v
Valued(e) == IF e = Nil THEN <<>> ELSE <<" ", "=", " ">> \o Spell(e, -1)

Lines(statements) == FlattenSeq([i \in 1..Len(statements) |-> SpellStatement(statements[i]) \o <<"NL">>])
Braced(statements) == <<"{", "NL">> \o Lines(statements) \o <<"}">>
SpellBody(b) == IF b.k = "BLOCK" THEN Braced(b.c) ELSE SpellStatement(b)

\* The words of the blocks that are a keyword and a body.
BlockWord == [METAL_BLOCK |-> "metal", WIN_BLOCK |-> "win", SYS_BLOCK |-> "sys",
              HW_BLOCK |-> "hardware", SILICON_BLOCK |-> "silicon", HW_MORPH_BLOCK |-> "morph"]

SpellStatement(st) ==
    CASE st.k = "EXPR_STMT" -> Spell(st.c[1], 0)
      [] st.k = "ASSIGNMENT" -> Spell(st, -1)
      [] st.k = "RETURN_STMT" -> <<"return">> \o (IF st.c[1] = Nil THEN <<>> ELSE <<" ">> \o Spell(st.c[1], -1))
      [] st.k = "VAR_DECL" -> <<"let", " ">> \o st.v \o Typed(st.c[1]) \o Valued(st.c[2])
      [] st.k = "IF_STMT" ->
             <<"if", " ">> \o Spell(st.c[1], 0) \o <<" ">> \o SpellBody(st.c[2])
             \o (IF st.c[3] = Nil THEN <<>> ELSE <<" ", "else", " ">> \o SpellBody(st.c[3]))
      [] st.k = "WHILE_STMT" ->
             <<"while", " ">> \o Spell(st.c[1], 0) \o <<" ">> \o SpellBody(st.c[2])
      [] st.k = "FOR_STMT" /\ Len(st.c) = 2 ->
             <<"for", " ">> \o st.v \o <<" ", "in", " ">> \o Spell(st.c[1], 0) \o <<" ">> \o SpellBody(st.c[2])
      [] st.k = "FOR_STMT" /\ Len(st.c) = 4 ->
             <<"for", "(">> \o Spell(st.c[1], -1) \o <<";">> \o Spell(st.c[2], -1) \o <<";">>
             \o Spell(st.c[3], -1) \o <<")">> \o SpellBody(st.c[4])
      [] st.k = "GUARD_STMT" /\ st.c[1] = Nil ->
             <<"guard", " ">> \o Spell(st.c[3], 0) \o <<" ", "else", " ">> \o SpellBody(st.c[4])
      [] st.k = "GUARD_STMT" /\ st.c[1] # Nil ->
             <<"guard", " ", "let", " ">> \o st.c[1].v \o <<"=">> \o Spell(st.c[2], 0)
             \o <<" ", "else", " ">> \o SpellBody(st.c[4])
      [] st.k = "DEFER_STMT" -> <<"defer", " ">> \o SpellBody(st.c[1])
      [] st.k = "SWITCH_STMT" ->
             <<"switch", " ">> \o Spell(st.c[1], -1) \o <<" ", "{">>
             \o FlattenSeq([i \in 1..Len(st.c[2].c) |->
                    <<"NL", "case", " ">> \o Listed(st.c[2].c[i].c[1].c) \o <<":", "NL">>
                    \o Lines(st.c[2].c[i].c[2].c)])
             \o <<"}">>
      [] st.k = "HW_ISA_CALL" -> <<"goto", " ">> \o Spell(st.c[1], -1)
      [] st.k = "PBIT_BLOCK" ->
             <<"pbit", " ">> \o st.v \o <<":", " ", "[">> \o Spell(st.c[1], -1) \o <<"'">>
             \o Spell(st.c[2], -1) \o <<"]">>
      [] st.k = "MICROARCH_CONFIG" ->
             <<"using", " ">> \o st.v \o <<" ", "{", "NL">>
             \o FlattenSeq([i \in 1..Len(st.c) |-> st.c[i].v \o <<"=">> \o Spell(st.c[i].c[1], -1) \o <<"NL">>])
             \o <<"}">>
      [] st.k = "PIPELINE_BLOCK" -> <<"pipeline", " ">> \o Braced(st.c)
      [] st.k = "CACHE_OPERATION" ->
             <<"silicon", "\\", "cache", "\\">> \o st.v \o <<"(">> \o Spell(st.c[1], -1) \o <<")">>
      [] st.k = "PREFETCH_OPERATION" ->
             <<"silicon", "\\", "prefetch", "(">> \o Spell(st.c[1], -1) \o <<",", "hint", ":", "\\">>
             \o st.v \o <<")">>
      [] st.k = "BREAK_STMT" -> <<"break">>
      [] st.k = "CONTINUE_STMT" -> <<"continue">>
      [] st.k = "BLOCK" -> Braced(st.c)
      [] st.k \in DOMAIN BlockWord -> <<BlockWord[st.k], " ">> \o Braced(st.c)

SpellParams(params) ==
    FlattenSeq([i \in 1..Len(params) |->
        (IF i = 1 THEN <<>> ELSE <<",", " ">>) \o params[i].v \o Typed(params[i].c[1])])

\* The literal in which the layout of a map is drawn.
LayoutLiteral == CHOOSE l \in Literals : AsciiText[l] # <<>>

SpellDecl(d) ==
    CASE d.k = "IMPORT_STMT" -> <<d.v[1], " ">> \o Tail(d.v)
      [] d.k = "CONST_DECL" -> <<"const", " ">> \o d.v \o Valued(d.c[1])
      [] d.k = "FUNC_DECL" ->
             FlattenSeq([i \in 1..Len(d.c[1].c) |-> d.c[1].c[i].v \o <<"NL">>])
             \o (IF d.c[4] = Nil THEN <<"extern", " ">> ELSE <<>>)
             \o <<"func", " ">> \o d.v \o <<"(">> \o SpellParams(d.c[2].c) \o <<")">> \o Typed(d.c[3])
             \o (IF d.c[4] = Nil THEN <<>> ELSE <<" ">> \o Braced(d.c[4].c))
      [] d.k = "STRUCT_DECL" ->
             <<"struct", " ">> \o d.v \o <<"{", "NL">>
             \o FlattenSeq([i \in 1..Len(d.c[2].c) |-> d.c[2].c[i].v \o Typed(d.c[2].c[i].c[1]) \o <<"NL">>])
             \o <<"}">>
      [] d.k = "ENUM_DECL" ->
             <<"enum", " ">> \o d.v \o <<"{", "NL">>
             \o FlattenSeq([i \in 1..Len(d.c) |-> <<"case", " ">> \o d.c[i].v \o <<"NL">>]) \o <<"}">>
      [] d.k = "BYTES_BLOCK" ->
             <<"bytes", "{">> \o FlattenSeq([i \in 1..Len(d.c) |-> d.c[i].v \o <<" ">>]) \o <<"}">>
      [] d.k = "MAP_DEF" ->
             <<"map", " ", d.v[1], " ", "at", " ", d.v[2], " ", "{", "NL", LayoutLiteral, "NL", "}">>
      [] OTHER -> SpellStatement(d)

SpellProgram(tree) == FlattenSeq([i \in 1..Len(tree) |-> SpellDecl(tree[i]) \o <<"NL">>])

\* The sources spelled from trees, and sources with no tree to compare with.
Written(trees) == {[text |-> SpellProgram(tree), tree |-> tree] : tree \in trees}
Unwritten == <<Nil>>
Arbitrary(texts) == {[text |-> text, tree |-> Unwritten] : text \in texts}

(****************************************************************************)
(* The properties.                                                           *)
(****************************************************************************)
\* The parser's cursor, its nodes and the state of its loop have their types.
TypeOK ==
    /\ s.pos \in 1..Len(s.toks)
    /\ s.panic \in BOOLEAN /\ s.vgt \in BOOLEAN /\ s.hung \in BOOLEAN
    /\ \A i \in 1..Len(decls) : decls[i] # Nil
    /\ stall.pos \in 0..Len(s.toks) /\ stall.count \in 0..MaxStall
    /\ status \in {"parsing", "done", "struck", "spinning"}

\* A source written from a tree is read back as that tree, without an error:
\* every operator at its precedence and its side, every bracket, type,
\* statement and declaration where its author put it.
TreeIsTheSource ==
    source.tree # Unwritten /\ status = "done" => decls = source.tree /\ ~s.panic

\* What has been read is never put back: a declaration once in the program
\* stays there, and every iteration of the loop passes a token, so the guard
\* against stalls and the limit on iterations are never what ends the loop.
EveryIterationAdvances ==
    [][/\ IsPrefix(decls, decls')
       /\ status' = "parsing" => s'.pos > s.pos]_vars

\* No loop inside a parsing function goes round without reading a token; with
\* EveryIterationAdvances, whatever the text, the parser comes to its end.
NeverSpins == status # "spinning"
====
