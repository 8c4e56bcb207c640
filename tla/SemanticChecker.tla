-------------------------- MODULE SemanticChecker --------------------------
(***************************************************************************)
(* The semantic checker, frontend/semantic_checker.c: one walk over the    *)
(* tree of a source file that rejects what the language forbids and sums   *)
(* up what the file asks of the machine, the "identity contract" a LET     *)
(* embryo carries.                                                         *)
(*                                                                         *)
(* A tree is the sequence of its nodes in the order of the walk; the first *)
(* is the program.  A node names its kind, its parent (an earlier node)    *)
(* and, of an access, whether it is the index; faults is the number of     *)
(* rules its own names and operators break, and deref is set on a          *)
(* dereference and on an indexed access.                                   *)
(***************************************************************************)
EXTENDS Integers, Sequences, FiniteSets, SequencesExt

\* The kinds whose case analyses what is below them ...
Walked ==
    {"PROGRAM", "FUNC_DECL", "VAR_DECL", "BLOCK", "IF_STMT", "WHILE_STMT", "FOR_STMT",
     "MATCH_STMT", "CASE_CLAUSE", "SWITCH_STMT", "SWITCH_CASE", "GUARD_STMT", "DEFER_STMT",
     "RETURN_STMT", "ASSIGNMENT", "BINARY_OP", "UNARY_OP", "CALL", "ACCESS", "ARRAY_LITERAL",
     "RANGE", "CLOSURE", "FORCE_UNWRAP", "TUPLE_LITERAL", "REFERENCE", "STRUCT_DECL",
     "METAL_BLOCK", "WIN_BLOCK", "SYS_BLOCK", "SILICON_BLOCK", "PIPELINE_BLOCK",
     "CACHE_OPERATION", "PREFETCH_OPERATION", "TYPECAST"}

\* ... the kinds with a case and nothing below, or nothing analysed there ...
Leaves ==
    {"IDENT", "ENUM_DECL", "MICROARCH_CONFIG", "PIPELINE_BARRIER", "PIPELINE_HINT",
     "SYNTAX_OPCODE_DEF", "PHYS_TYPE", "MAP_DEF", "SYNTAX_DEF", "IMPORT_STMT"}

\* ... and those without a case: their nodes and all below are passed over.
Skipped ==
    {"EXPR_STMT", "STRUCT_INIT", "ASM_BLOCK", "BYTES_BLOCK", "HW_BLOCK", "LITERAL", "TYPE"}

Kinds == Walked \cup Leaves \cup Skipped

\* What a kind asks of the machine.
NeedsArchitect ==
    {"METAL_BLOCK", "WIN_BLOCK", "SYS_BLOCK", "SILICON_BLOCK", "MICROARCH_CONFIG",
     "PIPELINE_BLOCK", "PIPELINE_BARRIER", "PIPELINE_HINT", "CACHE_OPERATION",
     "PREFETCH_OPERATION", "SYNTAX_OPCODE_DEF", "PHYS_TYPE", "MAP_DEF", "SYNTAX_DEF"}
HasMetal == {"METAL_BLOCK", "SILICON_BLOCK"}
Sip(kind) ==
    CASE kind \in {"SILICON_BLOCK", "MICROARCH_CONFIG", "PIPELINE_BLOCK", "PIPELINE_BARRIER",
                   "CACHE_OPERATION", "SYNTAX_OPCODE_DEF"} -> 3
      [] kind \in {"METAL_BLOCK", "PHYS_TYPE", "MAP_DEF", "SYNTAX_DEF"} -> 2
      [] OTHER -> 1

\* The forms of the name an import statement gives, as classify_import tells
\* them apart.
ImportForms == {"rimport", "intent", "liba", "path", "malformed"}

NodeOK(tree, i) ==
    /\ tree[i].kind \in Kinds
    /\ i = 1 <=> tree[i].kind = "PROGRAM"
    /\ i > 1 => /\ tree[i].parent \in 1 .. i - 1
                /\ tree[tree[i].parent].kind \notin Leaves
    /\ tree[i].index => tree[tree[i].parent].kind = "ACCESS"
    /\ tree[i].faults \in Nat
    /\ tree[i].deref \in BOOLEAN
    /\ tree[i].deref => tree[i].kind \in {"UNARY_OP", "ACCESS"}
    /\ tree[i].kind = "IMPORT_STMT" => tree[i].form \in ImportForms

TreeOK(tree) ==
    /\ Len(tree) \in Nat \ {0} /\ DOMAIN tree = 1 .. Len(tree)
    /\ \A i \in DOMAIN tree : NodeOK(tree, i)

\* The nodes analyze_node is called on: the index of an access is not one.
Analysed(tree) ==
    LET reached[i \in DOMAIN tree] ==
            \/ i = 1
            \/ /\ reached[tree[i].parent]
               /\ tree[tree[i].parent].kind \in Walked
               /\ ~tree[i].index
    IN  {i \in DOMAIN tree : reached[i] /\ tree[i].kind \notin Skipped}

NoResult ==
    [errors |-> 0, metal |-> FALSE, architect |-> FALSE, rimport |-> FALSE,
     traps |-> 0, minSip |-> 1, imports |-> <<>>]

AtLeast(a, b) == IF a >= b THEN a ELSE b
CountIf(condition) == IF condition THEN 1 ELSE 0

(* analyze_import: a malformed name ends it, and so does a name Unix would *)
(* use (counted in faults); an intent is recorded and refused all the      *)
(* same; a raw import asks for the architect.                              *)
AfterImport(result, node, architect, maxImports) ==
    IF node.form = "malformed" \/ node.faults > 0
    THEN [result EXCEPT !.errors = @ + 1]
    ELSE LET full == Len(result.imports) >= maxImports
             refused == node.form = "intent" \/ (node.form = "rimport" /\ ~architect)
         IN  [result EXCEPT
                 !.imports = IF full THEN @ ELSE Append(@, node.form),
                 !.rimport = @ \/ node.form = "rimport",
                 !.errors = @ + CountIf(full) + CountIf(refused)]

AfterNode(result, node, architect, maxImports) ==
    IF node.kind = "IMPORT_STMT" THEN AfterImport(result, node, architect, maxImports)
    ELSE [result EXCEPT
            !.errors = @ + node.faults + CountIf(node.kind = "SILICON_BLOCK" /\ ~architect),
            !.metal = @ \/ node.kind \in HasMetal,
            !.architect = @ \/ node.kind \in NeedsArchitect,
            !.minSip = AtLeast(@, Sip(node.kind)),
            !.traps = @ + CountIf(node.deref)]

(* The walk: the result after the first nodes of the tree, ... *)
Walk(tree, architect, maxImports) ==
    LET analysed == Analysed(tree)
        after[i \in 0 .. Len(tree)] ==
            IF i = 0 THEN NoResult
            ELSE IF i \in analysed THEN AfterNode(after[i - 1], tree[i], architect, maxImports)
            ELSE after[i - 1]
    IN  after[Len(tree)]

(* ... then the check of the mode. *)
Analyze(tree, architect, maxImports) ==
    LET walked == Walk(tree, architect, maxImports)
        unfit == (walked.architect \/ walked.rimport) /\ ~architect
    IN  [walked EXCEPT !.errors = @ + CountIf(unfit)]

-----------------------------------------------------------------------------
(* merge_semantic_result: the results of the files of one compilation.     *)
(* The merged table is smaller than that of a file.                        *)
Mergeable_OneMore(total, result, maxMerged) ==
    Len(total.imports) + Len(result.imports) <= maxMerged + 1
Mergeable(total, result, maxMerged) ==
    Len(total.imports) + Len(result.imports) <= maxMerged

Merge_LastSip(total, result) ==
    [total EXCEPT !.metal = @ \/ result.metal, !.architect = @ \/ result.architect,
                  !.rimport = @ \/ result.rimport, !.traps = @ + result.traps,
                  !.minSip = result.minSip, !.imports = @ \o result.imports]
Merge(total, result) ==
    [errors    |-> total.errors + result.errors,
     metal     |-> total.metal \/ result.metal,
     architect |-> total.architect \/ result.architect,
     rimport   |-> total.rimport \/ result.rimport,
     traps     |-> total.traps + result.traps,
     minSip    |-> AtLeast(total.minSip, result.minSip),
     imports   |-> total.imports \o result.imports]

-----------------------------------------------------------------------------
(* What a tree asks for, said of its nodes and not of the checker's walk.  *)

IsImport(node) == node.kind = "IMPORT_STMT"

SoundNode(node, architect) ==
    /\ node.faults = 0
    /\ node.kind \in NeedsArchitect => architect
    /\ IsImport(node) => node.form \in {"path", "liba"} \cup (IF architect THEN {"rimport"} ELSE {})

ImportAt(tree, i) ==
    IF i \in Analysed(tree) /\ IsImport(tree[i]) THEN <<tree[i].form>> ELSE <<>>
FileImports(tree) == FlattenSeq([i \in DOMAIN tree |-> ImportAt(tree, i)])

FileTraps(tree) == Cardinality({i \in Analysed(tree) : tree[i].deref})
=============================================================================
