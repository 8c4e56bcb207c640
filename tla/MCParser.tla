---- MODULE MCParser ----
(****************************************************************************)
(* Sources for the parser: trees, each spelled by the printer, with every    *)
(* operator under every operator, every statement and declaration; and short *)
(* texts of tokens in no particular order.                                   *)
(****************************************************************************)
EXTENDS ParserCorrect

MCLetters == {"a", "b", "x", "T", "m", "packed", "entry", "goto", "win", "hardware", "morph", "at", "cache",
              "prefetch", "hint",
              "vector", "UInt8", "div"} \cup DOMAIN KeywordTypes
MCDigits == {"1", "7"}
MCLiterals == {"\"90\"", "\"ab\""}
MCAsciiText == [l \in MCLiterals |-> IF l = "\"ab\"" THEN <<"[", "a", ":", "u8", "]", "[", "b", ":", "u32", "]", "[", "m", ":", "7", "]">> ELSE <<>>]
MCNumberOf == [d \in MCDigits |-> IF d = "7" THEN 7 ELSE 1]

A == Ident(<<"a">>)
B == Ident(<<"b">>)
One == Literal(<<"1">>)
Leaves == {A, One}

\* One operator of every rung, over operands from L and R.
BinaryOps == {<<"|", "|">>, <<"&", "&">>, <<"?", "?">>, <<"|">>, <<"^">>, <<"&">>, <<"=", "=">>,
              <<"<">>, <<"<", "<">>, <<"+">>, <<"-">>, <<"*">>, <<"%">>}
PlainType == Type(<<"T">>)

Twofold(L, R) ==
    {Binary(o, l, r) : o \in BinaryOps, l \in L, r \in R}
    \cup {Node("RANGE", v, <<l, r>>) : v \in {<<"..">>, <<"..<">>}, l \in L, r \in R}
    \cup {Node("ACCESS", <<"[index]">>, <<l, r>>) : l \in L, r \in R}
    \cup {Call(l, <<r, B>>) : l \in L \ {One}, r \in R}
    \cup {Node("ASSIGNMENT", <<>>, <<l, r>>) : l \in L, r \in R}
Onefold(L) ==
    {Node("UNARY_OP", o, <<e>>) : o \in {<<"-">>, <<"!">>}, e \in L}
    \cup {Node("REFERENCE", <<>>, <<e>>) : e \in L}
    \cup {Node("TYPECAST", <<>>, <<e, PlainType>>) : e \in L}
    \cup {Node("FORCE_UNWRAP", <<>>, <<e>>) : e \in L \ {One}}
    \cup {Access(e, <<"m">>) : e \in L}

Shallow == Twofold({A}, {One}) \cup Onefold({A})
Deep == Shallow \cup Twofold(Shallow, {B}) \cup Twofold({A}, Shallow) \cup Onefold(Shallow)
        \cup {Node("TUPLE_LITERAL", <<>>, <<e, A>>) : e \in Shallow}
        \cup {Node("PBIT_SLICE", <<>>, <<A, e, One>>) : e \in Shallow}

\* A "<" after a member or a type is read as opening generic arguments; the
\* trees that need it to compare are not among the sources.
TakenForGeneric(e) ==
    LET text == Spell(e, -1)
    IN  \E i \in 1..Len(text) - 3 :
            text[i] \in {"m", "T"} /\ text[i + 2] = "<" /\ text[i + 3] # "<"

Returning(e) == Node("RETURN_STMT", <<>>, <<e>>)
BlockOf(sts) == Node("BLOCK", <<>>, sts)
NoAttrs == Node("ATTRIBUTES", <<>>, <<>>)
FuncOf(sts) == Node("FUNC_DECL", <<"x">>, <<NoAttrs, List(<<>>), Nil, BlockOf(sts)>>)

Expressions == {e \in Deep : ~TakenForGeneric(e)}

Simple == {Returning(Nil), Returning(A), Node("EXPR_STMT", <<>>, <<Call(A, <<>>)>>),
           Node("ASSIGNMENT", <<>>, <<A, One>>), Node("VAR_DECL", <<"x">>, <<PlainType, One>>),
           Node("PBIT_BLOCK", <<"x">>, <<A, One>>), Node("BREAK_STMT", <<>>, <<>>), Node("HW_ISA_CALL", <<"goto">>, <<A>>)}
Bodies == {BlockOf(<<st>>) : st \in Simple} \cup {Returning(A)}
Compound(bs) ==
    {Node("IF_STMT", <<>>, <<A, b, c>>) : b \in bs, c \in bs \cup {Nil}}
    \cup {Node("WHILE_STMT", <<>>, <<Binary(<<"<">>, A, B), b>>) : b \in bs}
    \cup {Node("FOR_STMT", <<"x">>, <<Node("RANGE", <<"..">>, <<One, A>>), b>>) : b \in bs}
    \cup {Node("FOR_STMT", <<>>, <<A, B, One, b>>) : b \in bs}
    \cup {Node("GUARD_STMT", <<>>, <<Nil, Nil, A, b>>) : b \in bs}
    \cup {Node("GUARD_STMT", <<>>, <<B, A, Nil, b>>) : b \in bs}
    \cup {Node("DEFER_STMT", <<>>, <<b>>) : b \in bs}
    \cup {Node(k, <<>>, <<b>>) : k \in DOMAIN BlockWord, b \in bs \ {Returning(A)}}
    \cup {BlockOf(<<b, Returning(Nil)>>) : b \in bs}
SiliconItemTrees ==
    {Node("MICROARCH_CONFIG", <<"a">>, <<Node("CONFIG", <<"x", "\\", "m">>, <<e>>), Node("CONFIG", <<"b">>, <<A>>)>>) :
        e \in {One, Binary(<<"+">>, A, B)}}
    \cup {Node("CACHE_OPERATION", <<"x">>, <<A>>), Node("PREFETCH_OPERATION", <<"T">>, <<A>>)}
    \cup {Node("PIPELINE_BLOCK", <<>>, <<st, Returning(A)>>) : st \in Simple}
Statements ==
    {Node("SILICON_BLOCK", <<>>, <<i, j>>) : i \in SiliconItemTrees, j \in SiliconItemTrees}
    \cup Simple \cup Compound(Bodies)
    \cup Compound({BlockOf(<<c, Returning(A)>>) : c \in Compound({BlockOf(<<Returning(A)>>)})})

Types == {PlainType, Generic(<<"vector">>, <<PlainType>>),
          Generic(<<"vector">>, <<PlainType, Generic(<<"vector">>, <<Type(<<"UInt8">>)>>)>>),
          Generic(<<"vector">>, <<Generic(<<"vector">>, <<Generic(<<"vector">>, <<PlainType>>)>>)>>),
          Type(<<"ptr", "<", "UInt8", ">">>), Type(<<"[", "7", "]", "T">>), Type(<<"[", "T", "]">>)}
FieldOf(name, type) == Node("FIELD", name, <<type>>)
Param(name, type) == Node("PARAM", name, <<type>>)
Packed == Node("ATTRIBUTES", <<>>, <<Node("ATTRIBUTE", <<"@", "packed">>, <<>>)>>)

LaidOut(name, type, size, offset) == [name |-> name, type |-> type, size |-> size, offset |-> offset]
Declarations ==
    {Node("MAP_DEF", <<"x", "7">>, <<LaidOut(<<"a">>, <<"u8">>, 1, 0), LaidOut(<<"b">>, <<"u32">>, 4, 1),
                                    LaidOut(<<"m">>, <<"7">>, 7, 5)>>)}
    \cup {Node("IMPORT_STMT", <<w, "a">>, <<>>) : w \in {"import", "rimport"}}
    \cup {Node("CONST_DECL", <<"a">>, <<One>>),
          Node("METAL_BLOCK", <<>>, <<Returning(A)>>),
          Node("BYTES_BLOCK", <<>>, <<Node("HEX", <<"\"90\"">>, <<>>)>>),
          Node("ENUM_DECL", <<"T">>, <<A, B>>),
          FuncOf(<<Returning(A)>>)}
    \cup {Node("VAR_DECL", <<"x">>, <<t, One>>) : t \in Types}
    \cup {Node("FUNC_DECL", <<"a">>, <<Packed, List(<<Param(<<"b">>, PlainType), Param(<<"x">>, t)>>), t, b>>) :
             t \in Types, b \in {Nil, BlockOf(<<>>)}}
    \cup {Node("STRUCT_DECL", <<"T">>, <<NoAttrs, List(<<FieldOf(<<"x">>, t), FieldOf(<<"m">>, PlainType)>>)>>) :
             t \in Types}

Trees == {<<FuncOf(<<Returning(e), Returning(B)>>)>> : e \in Expressions}
         \cup {<<FuncOf(<<st, Returning(B)>>)>> : st \in Statements}
         \cup {<<d, e>> : d \in Declarations, e \in Declarations}

\* Tokens in no order; a silicon block, whose loops may hang, is not among them.
Alphabet == {"func", "a", "(", "{", "}", ":", "<", ">", "=", "let", "const", "use", "@", "map",
             "extern", "NL"}
Texts == UNION {[1..n -> Alphabet] : n \in 0..3}
         \cup {<<"metal", "{">> \o t : t \in [1..2 -> Alphabet]}
         \cup {<<"let", "a", ":", "vector", "<">> \o t : t \in [1..2 -> Alphabet]}
Padded(t) == FlattenSeq([i \in 1..Len(t) |-> <<t[i], " ">>])

\* A declaration behind a comment and in front of one left open.
Comment == <<"/", "*", "/", "a", "NL", "*", "/">>
Commented ==
    {[w EXCEPT !.text = Comment \o @ \o <<"/", "*", "x">>] : w \in Written({<<d>> : d \in Declarations})}

MCSources == Written(Trees) \cup Commented \cup Arbitrary({Padded(t) : t \in Texts})

\* A parameter whose type ends in ">>", and one after it.
GenericSources ==
    Written({<<Node("FUNC_DECL", <<"a">>, <<NoAttrs, List(<<Param(<<"x">>, t), Param(<<"b">>, PlainType)>>),
                                            Nil, BlockOf(<<>>)>>)>> : t \in Types})
====
