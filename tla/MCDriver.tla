------------------------------ MODULE MCDriver ------------------------------
(* Sessions of one and two commands over files of every kind the front end *)
(* tells apart.                                                            *)
EXTENDS Driver

Node(kind, parent) ==
    [kind |-> kind, parent |-> parent, index |-> FALSE, faults |-> 0, deref |-> FALSE,
     form |-> "path"]
Import(form) == [Node("IMPORT_STMT", 1) EXCEPT !.form = form]

Tree(nodes) == <<Node("PROGRAM", 0)>> \o nodes

Body(kind) == <<Node("FUNC_DECL", 1), Node("BLOCK", 2), Node(kind, 3)>>

File(nodes) ==
    [defect |-> "none", asm |-> "none", tree |-> Tree(nodes),
     code |-> <<"E8", "x", "x", "x", "x", "C3">>, state |-> <<"s">>, constants |-> <<"k">>]

Plain == File(Body("VAR_DECL"))

MCSources ==
    [plain     |-> Plain,
     metal     |-> [File(Body("METAL_BLOCK") \o <<[Node("UNARY_OP", 4) EXCEPT !.deref = TRUE]>>)
                    EXCEPT !.state = <<>>],
     silicon   |-> File(Body("SILICON_BLOCK")),
     hidden    |-> [File(Body("EXPR_STMT") \o <<[Node("IDENT", 4) EXCEPT !.faults = 1]>>)
                    EXCEPT !.code = <<"55", "C3">>, !.constants = <<>>],
     empty     |-> [File(<<>>) EXCEPT !.code = <<>>, !.state = <<>>, !.constants = <<>>],
     import    |-> File(<<Import("path")>>),
     imports   |-> File(<<Import("liba"), Import("path")>>),
     rimport   |-> File(<<Import("rimport")>>),
     badname   |-> File(Body("VAR_DECL") \o <<[Node("IDENT", 4) EXCEPT !.faults = 1]>>),
     intent    |-> File(<<Import("intent")>>),
     malformed |-> File(<<Import("malformed")>>),
     toomany   |-> File([k \in 1 .. 4 |-> Import("path")]),
     foreign   |-> [Plain EXCEPT !.defect = "foreign C"],
     missing   |-> [Plain EXCEPT !.defect = "unreadable"],
     unix      |-> [Plain EXCEPT !.defect = "forbidden include"],
     lexical   |-> [Plain EXCEPT !.defect = "lexical"],
     syntax    |-> [Plain EXCEPT !.defect = "syntax"],
     strike    |-> [Plain EXCEPT !.defect = "strike"],
     assembly  |-> [Plain EXCEPT !.defect = "strike", !.asm = "assembles"],
     nonsense  |-> [Plain EXCEPT !.defect = "strike", !.asm = "rejected"],
     quoted    |-> [Plain EXCEPT !.asm = "assembles"]]

Names == DOMAIN MCSources
Sound == {"plain", "metal", "silicon", "hidden", "empty", "import", "imports", "rimport"}

Command(kind, files, format, architect, to) ==
    [kind |-> kind, files |-> files, format |-> format, architect |-> architect,
     kernel |-> FALSE, flat |-> FALSE, entry |-> NoEntry, bits |-> 64, to |-> to]

\* Every file to every format, in both modes where the format leaves the choice.
Singles ==
    { <<Command("compile", <<name>>, format, FALSE, "output")>> : name \in Names, format \in Formats }
    \cup { <<Command("compile", <<name>>, format, TRUE, "output")>> :
              name \in Names, format \in {"LET", "AETB"} }

\* A target the command line makes a kernel.
Kernels ==
    { <<[Command("compile", <<name>>, format, FALSE, "output") EXCEPT !.kernel = TRUE]>> :
        name \in {"plain", "foreign"}, format \in {"LET", "AETB", "EXE"} }

Several ==
    { <<Command("compile", files, format, architect, "output")>> :
        files \in {<<>>} \cup ((Sound \cup {"badname"}) \X {"plain", "badname", "import", "imports"}),
        format \in {"LET", "BIN"}, architect \in BOOLEAN }

\* An embryo, and what is woven from it.
Weaving ==
    { <<Command("compile", files, "LET", TRUE, "embryo"),
        [Command("weave", <<>>, format, FALSE, "output") EXCEPT !.flat = flat, !.entry = entry]>> :
        files \in {<<"metal", "plain">>, <<"plain", "imports">>, <<"empty">>},
        format \in {"AKI", "BIN", "ROM", "EXE"}, flat \in BOOLEAN, entry \in {NoEntry, 2, 12} }

\* An output, and a second compilation to the same place.
Again ==
    { <<Command("compile", <<"plain">>, format, FALSE, "output"),
        Command("compile", <<name>>, format, FALSE, "output")>> :
        name \in {"hidden", "badname", "unix", "assembly"}, format \in Formats \ {"LET"} }

MCSessions == Singles \cup Kernels \cup Several \cup Weaving \cup Again
=============================================================================
