---------------------------- MODULE DriverProofs ----------------------------
(***************************************************************************)
(* What a command of the driver leaves on the disk, for every session over *)
(* every set of source files and whatever fails.                           *)
(*                                                                         *)
(* The first part is the semantic checker, whose walk every compilation    *)
(* makes: a file without errors is sound node for node, and the contract   *)
(* is what its nodes ask for, by induction over the nodes walked.          *)
(*                                                                         *)
(* A step starts a command, goes on inside it or ends it.  Inside, a       *)
(* command changes nothing but its temporary file; the lemmas say what is  *)
(* then enough of a step that goes on, and of one that ends the command.   *)
(* The next part follows what a command gathers of its source files to     *)
(* the embryos and images it leaves, and those to the commands after it.   *)
(* With both, the last part shows that a command is one step of Toolchain. *)
(***************************************************************************)
EXTENDS Driver, DataInduction, TLAPS

-----------------------------------------------------------------------------
(* The walk of the semantic checker. *)

Results ==
    [errors : Nat, metal : BOOLEAN, architect : BOOLEAN, rimport : BOOLEAN,
     traps : Nat, minSip : 1 .. 3, imports : Seq(ImportForms)]

FineNode(node, architect) ==
    /\ node.faults = 0
    /\ IsImport(node) => node.form \in {"path", "liba"} \cup (IF architect THEN {"rimport"} ELSE {})

\* What a result without errors says of the nodes up to the n-th.
Says(r, tree, n, architect) ==
    LET seen == {i \in Analysed(tree) : i <= n} IN
    /\ \A i \in seen : FineNode(tree[i], architect)
    /\ r.architect <=> \E i \in seen : tree[i].kind \in NeedsArchitect
    /\ r.metal <=> \E i \in seen : tree[i].kind \in HasMetal
    /\ r.rimport <=> \E i \in seen : IsImport(tree[i]) /\ tree[i].form = "rimport"
    /\ \A level \in 1 .. 3 : r.minSip <= level <=> \A i \in seen : Sip(tree[i].kind) <= level
    /\ r.imports = FlattenSeq([i \in 1 .. n |-> ImportAt(tree, i)])
    /\ r.traps = Cardinality({i \in seen : tree[i].deref})

Summarises(r, tree, n, architect) == r \in Results /\ (r.errors = 0 => Says(r, tree, n, architect))

LEMMA AnalysedNodes == \A tree : Analysed(tree) \subseteq DOMAIN tree
  BY DEF Analysed

LEMMA SipLevels == \A kind : Sip(kind) \in 1 .. 3
  BY DEF Sip

LEMMA NothingSummarised ==
    ASSUME NEW tree, TreeOK(tree), NEW architect \in BOOLEAN
    PROVE  Summarises(NoResult, tree, 0, architect)
  <1>. DEFINE seen == {i \in Analysed(tree) : i <= 0}
  <1>1. seen = {}
    BY AnalysedNodes DEF TreeOK
  <1>2. NoResult \in Results
    BY EmptySeq DEF NoResult, Results
  <1>3. {i \in seen : tree[i].deref} = {} /\ Cardinality({}) = 0
    BY <1>1, FS_EmptySet
  <1>4. FlattenSeq([i \in 1 .. 0 |-> ImportAt(tree, i)]) = <<>>
    <2>1. [i \in 1 .. 0 |-> ImportAt(tree, i)] = <<>>
      OBVIOUS
    <2>. QED
      BY <2>1, FlattenNone, Zenon
  <1>. HIDE DEF seen
  <1>5. /\ \A i \in seen : FineNode(tree[i], architect)
        /\ NoResult.architect <=> \E i \in seen : tree[i].kind \in NeedsArchitect
        /\ NoResult.metal <=> \E i \in seen : tree[i].kind \in HasMetal
        /\ NoResult.rimport <=> \E i \in seen : IsImport(tree[i]) /\ tree[i].form = "rimport"
        /\ \A level \in 1 .. 3 : NoResult.minSip <= level <=> \A i \in seen : Sip(tree[i].kind) <= level
    BY <1>1 DEF NoResult
  <1>6. NoResult.imports = <<>> /\ NoResult.traps = 0
    BY DEF NoResult
  <1>7. Says(NoResult, tree, 0, architect)
    BY <1>3, <1>4, <1>5, <1>6 DEF Says, seen
  <1>. QED
    BY <1>2, <1>7 DEF Summarises

LEMMA ImportTypes ==
    ASSUME NEW tree, TreeOK(tree), NEW i \in DOMAIN tree
    PROVE  ImportAt(tree, i) \in Seq(ImportForms)
  <1>. IsImport(tree[i]) => tree[i].form \in ImportForms
    BY DEF TreeOK, NodeOK, IsImport
  <1>. QED
    BY DEF ImportAt

LEMMA ImportsOfOneMore ==
    ASSUME NEW tree, TreeOK(tree), NEW n \in Nat, n + 1 \in DOMAIN tree
    PROVE  /\ FlattenSeq([i \in 1 .. n |-> ImportAt(tree, i)]) \in Seq(ImportForms)
           /\ FlattenSeq([i \in 1 .. n + 1 |-> ImportAt(tree, i)])
                 = FlattenSeq([i \in 1 .. n |-> ImportAt(tree, i)]) \o ImportAt(tree, n + 1)
  <1>. DEFINE p == [i \in 1 .. n + 1 |-> ImportAt(tree, i)]
              q == [i \in 1 .. n |-> ImportAt(tree, i)]
  <1>1. \A i \in 1 .. n + 1 : ImportAt(tree, i) \in Seq(ImportForms)
    BY ImportTypes DEF TreeOK
  <1>2. p \in [1 .. n + 1 -> Seq(ImportForms)] /\ q \in [1 .. n -> Seq(ImportForms)]
    BY <1>1
  <1>3. q = [i \in 1 .. n |-> p[i]] /\ p[n + 1] = ImportAt(tree, n + 1)
    OBVIOUS
  <1>. HIDE DEF p, q
  <1>4. FlattenSeq(p) = FlattenSeq(q) \o ImportAt(tree, n + 1)
    BY <1>2, <1>3, FlattenAppend
  <1>5. FlattenSeq(q) \in Seq(ImportForms)
    BY <1>2, FlattenType
  <1>. QED
    BY <1>4, <1>5 DEF p, q

\* What a node may change of a result keeps it one.
LEMMA ImportUpdates ==
    ASSUME NEW r \in Results, NEW e \in Nat, NEW b \in BOOLEAN, NEW list \in Seq(ImportForms)
    PROVE  /\ [r EXCEPT !.imports = list, !.rimport = b, !.errors = e] \in Results
           /\ [r EXCEPT !.errors = e] \in Results
  BY DEF Results

LEMMA NodeUpdates ==
    ASSUME NEW r \in Results, NEW e \in Nat, NEW m \in BOOLEAN, NEW a \in BOOLEAN,
           NEW level \in 1 .. 3, NEW t \in Nat
    PROVE  [r EXCEPT !.errors = e, !.metal = m, !.architect = a, !.minSip = level, !.traps = t]
              \in Results
  BY DEF Results

\* A node that is passed over.
LEMMA NodeSkipped ==
    ASSUME NEW tree, TreeOK(tree), NEW architect \in BOOLEAN, NEW n \in Nat, n + 1 \in DOMAIN tree,
           n + 1 \notin Analysed(tree), NEW r, Summarises(r, tree, n, architect)
    PROVE  Summarises(r, tree, n + 1, architect)
  <1>1. {i \in Analysed(tree) : i <= n} = {i \in Analysed(tree) : i <= n + 1}
    BY AnalysedNodes DEF TreeOK
  <1>2. FlattenSeq([i \in 1 .. n + 1 |-> ImportAt(tree, i)])
           = FlattenSeq([i \in 1 .. n |-> ImportAt(tree, i)])
    BY ZenonT(30), ImportsOfOneMore, ConcatEmptySeq DEF ImportAt
  <1>. QED
    BY <1>1, <1>2 DEF Summarises, Says

\* A node that is analysed.  Of a result without errors each part follows
\* from that part before the node.
LEMMA NodeVisited ==
    ASSUME NEW tree, TreeOK(tree), NEW architect \in BOOLEAN, NEW n \in Nat, n + 1 \in DOMAIN tree,
           n + 1 \in Analysed(tree), NEW maxImports \in Nat,
           NEW r, Summarises(r, tree, n, architect)
    PROVE  Summarises(AfterNode(r, tree[n + 1], architect, maxImports), tree, n + 1, architect)
  <1>. DEFINE node == tree[n + 1]
              next == AfterNode(r, node, architect, maxImports)
              seen == {i \in Analysed(tree) : i <= n}
              now == {i \in Analysed(tree) : i <= n + 1}
              imports == FlattenSeq([i \in 1 .. n |-> ImportAt(tree, i)])
  <1>0. /\ r \in Results /\ NodeOK(tree, n + 1)
        /\ node.faults \in Nat /\ node.deref \in BOOLEAN
        /\ IsImport(node) => node.form \in ImportForms /\ ~node.deref
    BY DEF Summarises, TreeOK, NodeOK, IsImport
  <1>1. now = seen \cup {n + 1} /\ n + 1 \notin seen
    BY AnalysedNodes DEF TreeOK
  <1>2. next \in Results
    <2>0. \A condition : CountIf(condition) \in Nat
      BY DEF CountIf
    <2>1. CASE IsImport(node)
      <3>. DEFINE full == Len(r.imports) >= maxImports
                  refused == node.form = "intent" \/ (node.form = "rimport" /\ ~architect)
                  list == IF full THEN r.imports ELSE Append(r.imports, node.form)
      <3>1. list \in Seq(ImportForms)
        BY <1>0, <2>1 DEF Results
      <3>2. r.errors + 1 \in Nat /\ r.errors + CountIf(full) + CountIf(refused) \in Nat
        BY <1>0, <2>0 DEF Results
      <3>4. \/ next = [r EXCEPT !.errors = r.errors + 1]
            \/ next = [r EXCEPT !.imports = list, !.rimport = (r.rimport \/ node.form = "rimport"),
                                !.errors = r.errors + CountIf(full) + CountIf(refused)]
        BY <2>1 DEF AfterNode, AfterImport, IsImport
      <3>. DEFINE e == r.errors + CountIf(full) + CountIf(refused)
                  b == r.rimport \/ node.form = "rimport"
      <3>. HIDE DEF next, list, full, refused
      <3>5. [r EXCEPT !.errors = r.errors + 1] \in Results
        <4>1. b \in BOOLEAN /\ r.errors + 1 \in Nat
          BY <3>2
        <4>. HIDE DEF b
        <4>. QED
          BY <1>0, <3>1, <4>1, ImportUpdates
      <3>6. [r EXCEPT !.imports = list, !.rimport = b, !.errors = e] \in Results
        <4>1. b \in BOOLEAN /\ e \in Nat
          BY <3>2
        <4>. HIDE DEF b, e
        <4>. QED
          BY <1>0, <3>1, <4>1, ImportUpdates
      <3>. QED
        BY <3>4, <3>5, <3>6
    <2>2. CASE ~IsImport(node)
      <3>. DEFINE e == r.errors + node.faults + CountIf(node.kind = "SILICON_BLOCK" /\ ~architect)
                  t == r.traps + CountIf(node.deref)
                  level == AtLeast(r.minSip, Sip(node.kind))
      <3>1. e \in Nat /\ t \in Nat
        BY <1>0, <2>0 DEF Results
      <3>2. level \in 1 .. 3
        BY <1>0, SipLevels DEF Results, AtLeast
      <3>3. (r.metal \/ node.kind \in HasMetal) \in BOOLEAN
            /\ (r.architect \/ node.kind \in NeedsArchitect) \in BOOLEAN
        OBVIOUS
      <3>4. next = [r EXCEPT !.errors = e, !.metal = (r.metal \/ node.kind \in HasMetal),
                             !.architect = (r.architect \/ node.kind \in NeedsArchitect),
                             !.minSip = level, !.traps = t]
        BY <2>2 DEF AfterNode, IsImport
      <3>. HIDE DEF next, node, e, t, level
      <3>. QED
        BY <1>0, <3>1, <3>2, <3>3, <3>4, NodeUpdates
    <2>. QED
      BY <2>1, <2>2
  <1>3. SUFFICES ASSUME next.errors = 0 PROVE Says(next, tree, n + 1, architect)
    BY <1>2 DEF Summarises
  <1>4. /\ r.errors = 0 /\ FineNode(node, architect)
        /\ next.imports = IF IsImport(node) THEN Append(r.imports, node.form) ELSE r.imports
        /\ next.rimport <=> r.rimport \/ (IsImport(node) /\ node.form = "rimport")
        /\ next.architect <=> r.architect \/ node.kind \in NeedsArchitect
        /\ next.metal <=> r.metal \/ node.kind \in HasMetal
        /\ next.minSip = AtLeast(r.minSip, Sip(node.kind))
        /\ next.traps = r.traps + CountIf(node.deref)
    <2>1. CASE IsImport(node)
      <3>1. node.kind = "IMPORT_STMT" /\ Sip("IMPORT_STMT") = 1
            /\ "IMPORT_STMT" \notin NeedsArchitect /\ "IMPORT_STMT" \notin HasMetal
        BY <2>1 DEF IsImport, Sip, NeedsArchitect, HasMetal
      <3>2. node.form # "malformed" /\ node.faults = 0
        BY <1>0, <1>3, <3>1 DEF AfterNode, AfterImport, Results
      <3>3. next = [r EXCEPT
                 !.imports = IF Len(r.imports) >= maxImports THEN @ ELSE Append(@, node.form),
                 !.rimport = @ \/ node.form = "rimport",
                 !.errors = @ + CountIf(Len(r.imports) >= maxImports)
                              + CountIf(node.form = "intent" \/ (node.form = "rimport" /\ ~architect))]
        BY <3>1, <3>2 DEF AfterNode, AfterImport
      <3>4. /\ next.errors = r.errors + CountIf(Len(r.imports) >= maxImports)
                              + CountIf(node.form = "intent" \/ (node.form = "rimport" /\ ~architect))
            /\ next.imports = IF Len(r.imports) >= maxImports THEN r.imports ELSE Append(r.imports, node.form)
            /\ next.rimport = (r.rimport \/ node.form = "rimport")
            /\ next.architect = r.architect /\ next.metal = r.metal
            /\ next.minSip = r.minSip /\ next.traps = r.traps
        BY <1>0, <3>3 DEF Results
      <3>. HIDE DEF next, node
      <3>5. /\ r.errors = 0 /\ ~(Len(r.imports) >= maxImports)
            /\ ~(node.form = "intent" \/ (node.form = "rimport" /\ ~architect))
        BY <1>0, <1>3, <3>4 DEF CountIf, Results
      <3>6. FineNode(node, architect)
        BY <1>0, <2>1, <3>2, <3>5 DEF FineNode, ImportForms
      <3>7. next.minSip = AtLeast(r.minSip, Sip(node.kind)) /\ next.traps = r.traps + CountIf(node.deref)
        BY <1>0, <2>1, <3>1, <3>4 DEF AtLeast, CountIf, Results
      <3>. QED
        BY <2>1, <3>1, <3>4, <3>5, <3>6, <3>7
    <2>2. CASE ~IsImport(node)
      <3>1. /\ next.errors = r.errors + node.faults + CountIf(node.kind = "SILICON_BLOCK" /\ ~architect)
            /\ next.imports = r.imports /\ next.rimport = r.rimport
            /\ next.architect = (r.architect \/ node.kind \in NeedsArchitect)
            /\ next.metal = (r.metal \/ node.kind \in HasMetal)
            /\ next.minSip = AtLeast(r.minSip, Sip(node.kind))
            /\ next.traps = r.traps + CountIf(node.deref)
        BY <1>0, <2>2 DEF AfterNode, IsImport, Results
      <3>. HIDE DEF next, node
      <3>2. r.errors = 0 /\ node.faults = 0
        BY <1>0, <1>3, <3>1 DEF CountIf, Results
      <3>. QED
        BY <2>2, <3>1, <3>2 DEF FineNode
    <2>. QED
      BY <2>1, <2>2
  <1>5. Says(r, tree, n, architect)
    BY <1>4 DEF Summarises
  <1>. HIDE DEF next
  <1>6. \A i \in now : FineNode(tree[i], architect)
    BY <1>1, <1>4, <1>5 DEF Says
  <1>7. /\ next.architect <=> \E i \in now : tree[i].kind \in NeedsArchitect
        /\ next.metal <=> \E i \in now : tree[i].kind \in HasMetal
        /\ next.rimport <=> \E i \in now : IsImport(tree[i]) /\ tree[i].form = "rimport"
    BY <1>1, <1>4, <1>5 DEF Says
  <1>8. ASSUME NEW level \in 1 .. 3
        PROVE  next.minSip <= level <=> \A i \in now : Sip(tree[i].kind) <= level
    <2>1. r.minSip <= level <=> \A i \in seen : Sip(tree[i].kind) <= level
      BY <1>5 DEF Says
    <2>2. next.minSip <= level <=> r.minSip <= level /\ Sip(node.kind) <= level
      <3>1. r.minSip \in Int /\ Sip(node.kind) \in Int
        BY <1>0, SipLevels DEF Results
      <3>. QED
        BY <1>4, <3>1 DEF AtLeast
    <2>. QED
      BY <1>1, <2>1, <2>2
  <1>9. next.imports = FlattenSeq([i \in 1 .. n + 1 |-> ImportAt(tree, i)])
    <2>1. /\ FlattenSeq([i \in 1 .. n + 1 |-> ImportAt(tree, i)]) = imports \o ImportAt(tree, n + 1)
          /\ imports \in Seq(ImportForms)
      BY ImportsOfOneMore
    <2>2. r.imports = imports
      BY <1>5 DEF Says
    <2>. HIDE DEF imports
    <2>3. CASE IsImport(node)
      <3>1. ImportAt(tree, n + 1) = <<node.form>>
        BY <2>3 DEF ImportAt
      <3>2. Append(imports, node.form) = imports \o <<node.form>>
        BY <1>0, <2>1, <2>3, AppendIsConcat
      <3>. QED
        BY <1>4, <2>1, <2>2, <2>3, <3>1, <3>2
    <2>4. CASE ~IsImport(node)
      BY <1>4, <2>1, <2>2, <2>4, ConcatEmptySeq DEF ImportAt
    <2>. QED
      BY <2>3, <2>4
  <1>10. next.traps = Cardinality({i \in now : tree[i].deref})
    <2>. DEFINE earlier == {i \in seen : tree[i].deref}
                after == {i \in now : tree[i].deref}
    <2>1. r.traps = Cardinality(earlier)
      BY <1>5 DEF Says
    <2>2. IsFiniteSet(earlier) /\ n + 1 \notin earlier
      <3>1. earlier \subseteq 1 .. Len(tree)
        BY AnalysedNodes DEF TreeOK
      <3>2. IsFiniteSet(1 .. Len(tree))
        BY FS_Interval DEF TreeOK
      <3>. QED
        BY <1>1, <3>1, <3>2, FS_Subset
    <2>3. CASE node.deref
      <3>1. after = earlier \cup {n + 1}
        BY <1>1, <2>3
      <3>2. Cardinality(after) = Cardinality(earlier) + 1
        BY <2>2, <3>1, FS_AddElement
      <3>. QED
        BY <1>4, <2>1, <2>3, <3>2 DEF CountIf
    <2>4. CASE ~node.deref
      <3>1. after = earlier
        BY <1>1, <2>4
      <3>2. next.traps = r.traps /\ r.traps \in Nat
        BY <1>0, <1>4, <2>4 DEF CountIf, Results
      <3>. QED
        BY <2>1, <3>1, <3>2
    <2>. QED
      BY <2>3, <2>4
  <1>. QED
    BY <1>6, <1>7, <1>8, <1>9, <1>10 DEF Says

-----------------------------------------------------------------------------
(* The walk is the recursive function the nodes are counted through. *)

WalkStep(f, tree, architect, maxImports, i) ==
    IF i = 0 THEN NoResult
    ELSE IF i \in Analysed(tree) THEN AfterNode(f[i - 1], tree[i], architect, maxImports)
    ELSE f[i - 1]
IsWalk(f, tree, architect, maxImports, n) ==
    f = [i \in 0 .. n |-> WalkStep(f, tree, architect, maxImports, i)]

LEMMA WalkExists ==
    ASSUME NEW tree, NEW architect, NEW maxImports
    PROVE  \A n \in Nat : \E f : IsWalk(f, tree, architect, maxImports, n)
  <1>. DEFINE Step(f, i) == WalkStep(f, tree, architect, maxImports, i)
              T == {n \in Nat : \E f : IsWalk(f, tree, architect, maxImports, n)}
  <1>1. 0 \in T
    <2>. DEFINE g == [i \in 0 .. 0 |-> NoResult]
    <2>1. \A i \in 0 .. 0 : g[i] = Step(g, i)
      BY DEF WalkStep
    <2>2. g = [i \in 0 .. 0 |-> g[i]]
      OBVIOUS
    <2>. HIDE DEF g
    <2>3. IsWalk(g, tree, architect, maxImports, 0)
      BY <2>1, <2>2, Zenon DEF IsWalk
    <2>. QED
      BY <2>3
  <1>2. ASSUME NEW n \in Nat, n \in T PROVE n + 1 \in T
    <2>1. PICK f : IsWalk(f, tree, architect, maxImports, n)
      BY <1>2
    <2>. DEFINE g == [i \in 0 .. n + 1 |-> IF i <= n THEN f[i] ELSE Step(f, i)]
    <2>2. \A i \in 0 .. n : f[i] = Step(f, i)
      BY <2>1, Zenon DEF IsWalk
    <2>3. ASSUME NEW i \in 0 .. n + 1
          PROVE  g[i] = Step(g, i)
      <3>1. i # 0 => g[i - 1] = f[i - 1]
        OBVIOUS
      <3>2. g[i] = Step(f, i)
        BY <2>2
      <3>. HIDE DEF g
      <3>. QED
        BY <3>1, <3>2 DEF WalkStep
    <2>4. g = [i \in 0 .. n + 1 |-> g[i]]
      OBVIOUS
    <2>. HIDE DEF g
    <2>5. IsWalk(g, tree, architect, maxImports, n + 1)
      BY <2>3, <2>4, Zenon DEF IsWalk
    <2>. QED
      BY <2>5
  <1>3. \A n \in Nat : n \in T
    <2>. HIDE DEF T
    <2>. QED
      BY <1>1, <1>2, SetInduction
  <1>. QED
    BY <1>3

LEMMA WalkSummarises ==
    ASSUME NEW tree, TreeOK(tree), NEW architect \in BOOLEAN, NEW maxImports \in Nat
    PROVE  Summarises(Walk(tree, architect, maxImports), tree, Len(tree), architect)
  <1>. DEFINE N == Len(tree)
              f == CHOOSE g : IsWalk(g, tree, architect, maxImports, N)
  <1>0. N \in Nat /\ DOMAIN tree = 1 .. N
    BY DEF TreeOK
  <1>1. IsWalk(f, tree, architect, maxImports, N)
    BY <1>0, WalkExists
  <1>2. Walk(tree, architect, maxImports) = f[N]
    BY DEF Walk, IsWalk, WalkStep
  <1>. HIDE DEF f, N
  <1>3. \A i \in 0 .. N : f[i] = WalkStep(f, tree, architect, maxImports, i)
    BY <1>1, Zenon DEF IsWalk
  <1>. DEFINE T == {n \in Nat : n <= N => Summarises(f[n], tree, n, architect)}
  <1>4. 0 \in T
    <2>1. f[0] = NoResult
      BY <1>0, <1>3 DEF WalkStep
    <2>. QED
      BY <2>1, NothingSummarised
  <1>5. ASSUME NEW n \in Nat, n \in T PROVE n + 1 \in T
    <2>. SUFFICES ASSUME n + 1 <= N PROVE Summarises(f[n + 1], tree, n + 1, architect)
      OBVIOUS
    <2>1. n + 1 \in DOMAIN tree /\ n + 1 \in 0 .. N /\ n + 1 # 0 /\ n + 1 - 1 = n
      BY <1>0
    <2>2. Summarises(f[n], tree, n, architect)
      BY <1>0, <1>5
    <2>3. f[n + 1] = IF n + 1 \in Analysed(tree)
                     THEN AfterNode(f[n], tree[n + 1], architect, maxImports) ELSE f[n]
      BY <1>3, <2>1 DEF WalkStep
    <2>. QED
      BY <2>1, <2>2, <2>3, NodeVisited, NodeSkipped
  <1>6. \A n \in Nat : n \in T
    <2>. HIDE DEF T
    <2>. QED
      BY <1>4, <1>5, SetInduction
  <1>. QED
    BY <1>0, <1>2, <1>6 DEF N
-----------------------------------------------------------------------------
(* What a result without errors tells of its file, and what the files of a *)
(* compilation tell together.                                              *)

Tells(r, tree, architect) ==
    /\ \A i \in Analysed(tree) : SoundNode(tree[i], architect)
    /\ r.architect <=> \E i \in Analysed(tree) : tree[i].kind \in NeedsArchitect
    /\ r.metal <=> \E i \in Analysed(tree) : tree[i].kind \in HasMetal
    /\ r.rimport <=> \E i \in Analysed(tree) : IsImport(tree[i]) /\ tree[i].form = "rimport"
    /\ \A level \in 1 .. 3 : r.minSip <= level <=> \A i \in Analysed(tree) : Sip(tree[i].kind) <= level
    /\ r.imports = FileImports(tree)
    /\ r.traps = FileTraps(tree)

\* semantic_checker_analyze: of every file it reports no error for, every
\* node analysed keeps the rules of the language and of the mode, and the
\* contract asks for exactly what the nodes need and import.
THEOREM ResultTellsTheTree ==
    ASSUME NEW tree, TreeOK(tree), NEW architect \in BOOLEAN, NEW maxImports \in Nat
    PROVE  /\ Analyze(tree, architect, maxImports) \in Results
           /\ Analyze(tree, architect, maxImports).errors = 0 =>
                 Tells(Analyze(tree, architect, maxImports), tree, architect)
  <1>. DEFINE w == Walk(tree, architect, maxImports)
              unfit == (w.architect \/ w.rimport) /\ ~architect
              r == Analyze(tree, architect, maxImports)
  <1>1. Summarises(w, tree, Len(tree), architect)
    BY WalkSummarises
  <1>2. r = [w EXCEPT !.errors = w.errors + CountIf(unfit)]
    BY DEF Analyze
  <1>3. w \in Results /\ w.errors \in Nat
    BY <1>1 DEF Summarises, Results
  <1>4. {i \in Analysed(tree) : i <= Len(tree)} = Analysed(tree)
    BY AnalysedNodes DEF TreeOK
  <1>. HIDE DEF w, r
  <1>5. /\ r.errors = w.errors + CountIf(unfit) /\ r.metal = w.metal /\ r.architect = w.architect
        /\ r.rimport = w.rimport /\ r.traps = w.traps /\ r.minSip = w.minSip
        /\ r.imports = w.imports
    BY <1>2, <1>3 DEF Results
  <1>6. r \in Results
    <2>. DEFINE e == w.errors + CountIf(unfit)
    <2>1. e \in Nat
      BY <1>3 DEF CountIf
    <2>2. r = [w EXCEPT !.errors = e]
      BY <1>2
    <2>. HIDE DEF e
    <2>3. [w EXCEPT !.errors = e] \in Results
      BY <1>3, <2>1 DEF Results
    <2>. QED
      BY <2>2, <2>3
  <1>7. ASSUME r.errors = 0 PROVE Tells(r, tree, architect)
    <2>1. w.errors = 0 /\ ~unfit
      BY <1>3, <1>5, <1>7 DEF CountIf
    <2>2. Says(w, tree, Len(tree), architect)
      BY <1>1, <2>1 DEF Summarises
    <2>3. /\ \A i \in Analysed(tree) : FineNode(tree[i], architect)
          /\ w.architect <=> \E i \in Analysed(tree) : tree[i].kind \in NeedsArchitect
          /\ w.metal <=> \E i \in Analysed(tree) : tree[i].kind \in HasMetal
          /\ w.rimport <=> \E i \in Analysed(tree) : IsImport(tree[i]) /\ tree[i].form = "rimport"
          /\ \A level \in 1 .. 3 :
                w.minSip <= level <=> \A i \in Analysed(tree) : Sip(tree[i].kind) <= level
      BY <1>4, <2>2 DEF Says
    <2>4. \A i \in Analysed(tree) : SoundNode(tree[i], architect)
      BY <2>1, <2>3 DEF SoundNode, FineNode
    <2>5. w.traps = FileTraps(tree)
      BY <1>4, <2>2 DEF Says, FileTraps
    <2>6. w.imports = FileImports(tree)
      <3>1. DOMAIN tree = 1 .. Len(tree)
        BY DEF TreeOK
      <3>. QED
        BY <2>2, <3>1 DEF Says, FileImports
    <2>. QED
      BY <1>5, <2>3, <2>4, <2>5, <2>6 DEF Tells
  <1>. QED
    BY <1>6, <1>7 DEF r


\* What is told of a file has its type.
LEMMA FileTypes ==
    ASSUME NEW tree, TreeOK(tree)
    PROVE  FileImports(tree) \in Seq(ImportForms) /\ FileTraps(tree) \in Nat
  <1>0. Len(tree) \in Nat /\ DOMAIN tree = 1 .. Len(tree)
    BY DEF TreeOK
  <1>1. [i \in DOMAIN tree |-> ImportAt(tree, i)] \in [1 .. Len(tree) -> Seq(ImportForms)]
    BY <1>0, ImportTypes
  <1>2. FileImports(tree) \in Seq(ImportForms)
    BY <1>0, <1>1, FlattenType DEF FileImports
  <1>3. IsFiniteSet({i \in Analysed(tree) : tree[i].deref})
    <2>1. {i \in Analysed(tree) : tree[i].deref} \subseteq 1 .. Len(tree)
      BY <1>0, AnalysedNodes
    <2>2. IsFiniteSet(1 .. Len(tree))
      BY <1>0, FS_Interval
    <2>. QED
      BY <2>1, <2>2, FS_Subset
  <1>. QED
    BY <1>2, <1>3, FS_CardinalityType DEF FileTraps

-----------------------------------------------------------------------------
(* The disk, command by command. *)

Shape ==
    /\ session \in Sessions /\ run \in Nat /\ run <= Len(session)
    /\ pc # "idle" => run < Len(session)
    /\ pc = "weave" => command.kind = "weave"
    /\ DOMAIN disk = Paths

\* The temporary file exists between the two halves of the two ways through it.
OnlyBetween == pc \notin {"assembler", "wrap"} => disk["temporary"] = Absent

\* The output is as it was until the command ends.
Untouched == pc # "idle" => disk[command.to] = before[command.to]

IInv == /\ Shape /\ OnlyBetween /\ Untouched
        /\ FailureLeavesNoImage /\ SuccessIsOfThisRun

Fresh(entry) == entry.kind # "absent" /\ entry.run = run + 1

Cleans(c) == c.kind = "compile" /\ c.format \notin {"AETB", "EXE"}

\* A running command is one of the session's, and writes to a file that is
\* not the temporary one.
LEMMA Running ==
    ASSUME Shape, pc # "idle"
    PROVE  /\ command.to \in Paths /\ command.to # "temporary"
           /\ run + 1 \in DOMAIN session
  BY SessionsAssumption DEF Shape, command, CommandOK, Paths

\* A step inside a command (Continue) that changes only the temporary file.
LEMMA GoesOn ==
    ASSUME IInv, pc # "idle", NEW next,
           next \notin {"idle", "weave"}, Continue(next),
           DOMAIN disk' = Paths, disk'[command.to] = disk[command.to],
           next \notin {"assembler", "wrap"} => disk'["temporary"] = Absent
    PROVE  IInv'
  <1>1. command' = command
    BY DEF Continue, command
  <1>2. Shape'
    BY <1>1 DEF IInv, Shape, Continue
  <1>3. OnlyBetween'
    BY DEF OnlyBetween, Continue
  <1>4. Untouched'
    BY <1>1 DEF IInv, Untouched, Continue
  <1>5. ~Ended'
    BY DEF Ended, Continue
  <1>. QED
    BY <1>2, <1>3, <1>4, <1>5 DEF IInv, FailureLeavesNoImage, SuccessIsOfThisRun

\* The end of a command (Exit): no temporary file, a fresh output for a
\* success, the old one or none for a failure.
LEMMA Ends ==
    ASSUME IInv, pc # "idle", NEW code, Exit(code),
           DOMAIN disk' = Paths, disk'["temporary"] = Absent,
           code % 256 = 0 => Fresh(disk'[command.to]),
           code % 256 # 0 /\ Cleans(command) =>
               disk'[command.to] \in {Absent, before[command.to]}
    PROVE  IInv'
  <1>1. last' = command
    BY DEF Exit, last, command
  <1>2. Shape'
    BY DEF IInv, Shape, Exit
  <1>3. OnlyBetween' /\ Untouched'
    BY DEF OnlyBetween, Untouched, Exit
  <1>4. FailureLeavesNoImage'
    BY <1>1 DEF FailureLeavesNoImage, Exit, Cleans, Absent
  <1>5. SuccessIsOfThisRun'
    BY <1>1 DEF SuccessIsOfThisRun, Exit, Fresh
  <1>. QED
    BY <1>2, <1>3, <1>4, <1>5 DEF IInv

\* A failure that has touched nothing.
LEMMA EndsUntouched ==
    ASSUME IInv, pc \notin {"idle", "assembler", "wrap"}, NEW code \in {1, COMPILER_STRIKE_CODE},
           Exit(code), UNCHANGED disk
    PROVE  IInv'
  <1>1. code % 256 # 0
    BY DEF COMPILER_STRIKE_CODE
  <1>2. disk'["temporary"] = Absent /\ disk'[command.to] = before[command.to] /\ DOMAIN disk' = Paths
    BY DEF IInv, OnlyBetween, Untouched, Shape
  <1>. QED
    BY <1>1, <1>2, Ends

\* What a writer leaves when it reports a success was written by this command.
LEMMA WrittenIsFresh ==
    /\ Fresh(Partial)
    /\ \A form, payload : \A left \in Written(Image(form, payload)) : Fresh(left)
    /\ \A form, payload, path : \A left \in Written(OfEmbryo(Image(form, payload), path)) : Fresh(left)
    /\ \A let : Fresh(Embryo(let))
  BY DEF Fresh, Partial, Written, Image, OfEmbryo, Embryo

LEMMA InitInv == Init => IInv
  BY SessionsAssumption DEF Init, IInv, Shape, OnlyBetween, Untouched, FailureLeavesNoImage,
     SuccessIsOfThisRun, Ended, Paths

LEMMA StepInv == IInv /\ [Next]_vars => IInv'
  <1>. SUFFICES ASSUME IInv, [Next]_vars PROVE IInv'
    OBVIOUS
  <1>. USE DEF Paths
  <1>0. DOMAIN disk = Paths
    BY DEF IInv, Shape
  <1>1. CASE Start
    BY <1>1 DEF Start, IInv, Shape, OnlyBetween, Untouched, FailureLeavesNoImage,
       SuccessIsOfThisRun, Ended, command
  <1>2. CASE Fail
    BY <1>2, EndsUntouched DEF Fail
  <1>3. CASE Assemble
    <2>1. command.to \in Paths /\ command.to # "temporary"
      BY <1>3, Running DEF Assemble, IInv
    <2>2. CASE Exit(1) /\ UNCHANGED disk
      BY <1>3, <2>2, EndsUntouched DEF Assemble
    <2>3. CASE Continue("setup") /\ UNCHANGED disk
      BY <1>3, <2>3, GoesOn, <1>0 DEF Assemble, IInv, OnlyBetween
    <2>4. CASE Continue("assembler") /\ disk' = [disk EXCEPT !["temporary"] = Partial]
      BY <1>3, <2>1, <2>4, GoesOn, <1>0 DEF Assemble
    <2>. QED
      BY <1>3, <2>2, <2>3, <2>4 DEF Assemble
  <1>4. CASE RunAssembler
    <2>1. command.to \in Paths /\ command.to # "temporary" /\ disk[command.to] = before[command.to]
      BY <1>4, Running DEF RunAssembler, IInv, Untouched
    <2>2. CASE /\ Exit(0)
               /\ disk' = [disk EXCEPT !["temporary"] = Absent,
                                       ![command.to] = Image("assembly", NoZones)]
      <3>1. Fresh(disk'[command.to]) /\ disk'["temporary"] = Absent /\ DOMAIN disk' = Paths
        BY <1>0, <2>1, <2>2, WrittenIsFresh DEF Written
      <3>2. pc # "idle" /\ 0 % 256 = 0
        BY <1>4 DEF RunAssembler
      <3>. QED
        BY <2>2, <3>1, <3>2, Ends
    <2>3. ASSUME NEW left \in {Absent, disk[command.to]}, Exit(1),
                 disk' = [disk EXCEPT !["temporary"] = Absent, ![command.to] = left]
          PROVE  IInv'
      <3>1. disk'[command.to] = left /\ disk'["temporary"] = Absent /\ DOMAIN disk' = Paths
        BY <1>0, <2>1, <2>3
      <3>. QED
        BY <1>4, <2>1, <2>3, <3>1, Ends DEF RunAssembler
    <2>. QED
      BY <1>4, <2>2, <2>3 DEF RunAssembler
  <1>5. CASE Setup
    BY <1>5, GoesOn, <1>0 DEF Setup, IInv, OnlyBetween
  <1>6. CASE ProcessFile
    <2>1. \A f : Strike(f) \in {0, 1, COMPILER_STRIKE_CODE}
      BY DEF Strike
    <2>2. UNCHANGED disk /\ pc = "frontend"
      BY <1>6 DEF ProcessFile
    <2>3. \/ \E code \in {1, COMPILER_STRIKE_CODE} : Exit(code)
          \/ Continue("frontend") \/ Continue("generate")
      BY <1>6, <2>1 DEF ProcessFile
    <2>. QED
      BY <2>2, <2>3, EndsUntouched, GoesOn, <1>0 DEF IInv, OnlyBetween
  <1>7. CASE Generate
    BY <1>7, GoesOn, <1>0 DEF Generate, IInv, OnlyBetween
  <1>8. CASE WriteDirectly
    <2>1. command.to \in Paths /\ command.to # "temporary" /\ disk["temporary"] = Absent
      BY <1>8, Running DEF WriteDirectly, IInv, OnlyBetween
    <2>2. ASSUME NEW left \in Written(Image("zones", zones)), Exit(0),
                 disk' = [disk EXCEPT ![command.to] = left]
          PROVE  IInv'
      <3>1. Fresh(disk'[command.to]) /\ disk'["temporary"] = Absent /\ DOMAIN disk' = Paths
        BY <1>0, <2>1, <2>2, WrittenIsFresh
      <3>. QED
        BY <1>8, <2>2, <3>1, Ends DEF WriteDirectly
    <2>3. CASE Exit(1) /\ disk' = [disk EXCEPT ![command.to] = Partial]
      <3>1. disk'["temporary"] = Absent /\ DOMAIN disk' = Paths
        BY <1>0, <2>1, <2>3
      <3>. QED
        BY <1>8, <2>3, <3>1, Ends DEF WriteDirectly, Cleans
    <2>. QED
      BY <1>8, <2>2, <2>3 DEF WriteDirectly
  <1>9. CASE WriteByGenerator
    <2>1. command.to \in Paths /\ command.to # "temporary" /\ disk["temporary"] = Absent
      BY <1>9, Running DEF WriteByGenerator, IInv, OnlyBetween
    <2>2. ASSUME NEW left \in Written(Image("zones", zones)), Exit(0),
                 disk' = [disk EXCEPT ![command.to] = left]
          PROVE  IInv'
      <3>1. Fresh(disk'[command.to]) /\ disk'["temporary"] = Absent /\ DOMAIN disk' = Paths
        BY <1>0, <2>1, <2>2, WrittenIsFresh
      <3>. QED
        BY <1>9, <2>2, <3>1, Ends DEF WriteByGenerator
    <2>3. CASE Exit(1) /\ disk' = Unlinked(command.to)
      <3>1. disk'[command.to] = Absent /\ disk'["temporary"] = Absent /\ DOMAIN disk' = Paths
        BY <1>0, <2>1, <2>3 DEF Unlinked
      <3>. QED
        BY <1>9, <2>3, <3>1, Ends DEF WriteByGenerator
    <2>. QED
      BY <1>9, <2>2, <2>3 DEF WriteByGenerator
  <1>10. CASE WriteLet
    <2>1. command.to \in Paths /\ command.to # "temporary" /\ disk["temporary"] = Absent
      BY <1>10, Running DEF WriteLet, IInv, OnlyBetween
    <2>2. ASSUME NEW let, Exit(0), disk' = [disk EXCEPT ![command.to] = Embryo(let)]
          PROVE  IInv'
      <3>1. Fresh(disk'[command.to]) /\ disk'["temporary"] = Absent /\ DOMAIN disk' = Paths
        BY <1>0, <2>1, <2>2, WrittenIsFresh
      <3>. QED
        BY <1>10, <2>2, <3>1, Ends DEF WriteLet
    <2>3. CASE Exit(1) /\ disk' = Unlinked(command.to)
      <3>1. disk'[command.to] = Absent /\ disk'["temporary"] = Absent /\ DOMAIN disk' = Paths
        BY <1>0, <2>1, <2>3 DEF Unlinked
      <3>. QED
        BY <1>10, <2>3, <3>1, Ends DEF WriteLet
    <2>. QED
      BY <1>10, <2>2, <2>3 DEF WriteLet
  <1>11. CASE WriteTemporary
    <2>1. command.to \in Paths /\ command.to # "temporary" /\ disk["temporary"] = Absent
      BY <1>11, Running DEF WriteTemporary, IInv, OnlyBetween
    <2>2. ASSUME NEW left, Continue("wrap"), disk' = [disk EXCEPT !["temporary"] = left]
          PROVE  IInv'
      <3>1. disk'[command.to] = disk[command.to] /\ DOMAIN disk' = Paths
        BY <1>0, <2>1, <2>2
      <3>. QED
        BY <1>11, <2>2, <3>1, GoesOn DEF WriteTemporary
    <2>3. CASE Exit(1) /\ disk' = Unlinked(command.to)
      <3>1. disk'[command.to] = Absent /\ disk'["temporary"] = Absent /\ DOMAIN disk' = Paths
        BY <1>0, <2>1, <2>3 DEF Unlinked
      <3>. QED
        BY <1>11, <2>3, <3>1, Ends DEF WriteTemporary
    <2>. QED
      BY <1>11, <2>2, <2>3 DEF WriteTemporary
  <1>12. CASE pc = "wrap" /\ (WrapMachO \/ WrapEmbryo)
    <2>1. command.to \in Paths /\ command.to # "temporary" /\ disk[command.to] = before[command.to]
      BY <1>12, Running DEF IInv, Untouched
    <2>2. \A left : disk' = WrapTemporary(left) =>
             disk'[command.to] = left /\ disk'["temporary"] = Absent /\ DOMAIN disk' = Paths
      BY <1>0, <2>1 DEF WrapTemporary
    <2>3. ASSUME NEW left, Fresh(left), Exit(0), disk' = WrapTemporary(left)
          PROVE  IInv'
      BY <1>12, <2>2, <2>3, Ends
    <2>4. ASSUME NEW left \in {Absent, disk[command.to]}, Exit(1), disk' = WrapTemporary(left)
          PROVE  IInv'
      BY <1>12, <2>1, <2>2, <2>4, Ends
    <2>5. CASE WrapMachO
      BY <2>3, <2>4, <2>5, WrittenIsFresh DEF WrapMachO
    <2>6. CASE WrapEmbryo
      BY <2>3, <2>4, <2>6, WrittenIsFresh DEF WrapEmbryo, WovenBinary
    <2>. QED
      BY <1>12, <2>5, <2>6
  <1>13. CASE Weave
    <2>1. /\ command.to \in Paths /\ command.to # "temporary" /\ disk["temporary"] = Absent
          /\ command.kind = "weave"
      BY <1>13, Running DEF Weave, IInv, OnlyBetween, Shape
    <2>2. ASSUME NEW left, NEW code \in {0, 1}, code = 0 => Fresh(left), Exit(code),
                 disk' = [disk EXCEPT ![command.to] = left]
          PROVE  IInv'
      <3>1. disk'[command.to] = left /\ disk'["temporary"] = Absent /\ DOMAIN disk' = Paths
        BY <1>0, <2>1, <2>2
      <3>. QED
        BY <1>13, <2>1, <2>2, <3>1, Ends DEF Weave, Cleans
    <2>3. CASE Exit(1) /\ UNCHANGED disk
      BY <1>13, <2>3, EndsUntouched DEF Weave
    <2>4. \A left \in Written(IF command.format = "BIN" THEN WovenBinary("embryo")
                              ELSE WovenImage("embryo")) : Fresh(left)
      BY WrittenIsFresh DEF WovenBinary, WovenImage
    <2>. QED
      BY <1>13, <2>2, <2>3, <2>4 DEF Weave
  <1>14. CASE UNCHANGED vars
    BY <1>14 DEF vars, IInv, Shape, OnlyBetween, Untouched, FailureLeavesNoImage,
       SuccessIsOfThisRun, Ended, command, last
  <1>. QED
    BY <1>1, <1>2, <1>3, <1>4, <1>5, <1>6, <1>7, <1>8, <1>9, <1>10, <1>11, <1>12, <1>13, <1>14
    DEF Next, WrapMachO, WrapEmbryo

LEMMA Invariance == Spec => []IInv
  BY InitInv, StepInv, PTL DEF Spec

\* compile_inline_asm_to_bin and the BIN and IM4P ways out of run_compiler:
\* no session of any length leaves a temporary file behind a command.
THEOREM TemporaryAlwaysRemoved == Spec => []NoTemporaryRemains
  <1>1. IInv => NoTemporaryRemains
    BY DEF IInv, OnlyBetween, NoTemporaryRemains, Ended
  <1>. QED
    BY <1>1, Invariance, PTL

\* The exit code of run_compiler: after a command that reported success the
\* output is one that command wrote, in every session.
THEOREM SuccessIsAlwaysOfThisRun == Spec => []SuccessIsOfThisRun
  <1>1. IInv => SuccessIsOfThisRun
    BY DEF IInv
  <1>. QED
    BY <1>1, Invariance, PTL

\* The clean-up of run_compiler: a failed compilation leaves the output it
\* found or none, in every format that is cleaned up after.
THEOREM FailureNeverLeavesAnImage == Spec => []FailureLeavesNoImage
  <1>1. IInv => FailureLeavesNoImage
    BY DEF IInv
  <1>. QED
    BY <1>1, Invariance, PTL

-----------------------------------------------------------------------------
(* What the merged result tells of the files merged, and what an embryo    *)
(* and the images woven from one tell of the files compiled.               *)

SoundFiles(files, architect) ==
    \A k \in DOMAIN files : SoundFile(Sources[files[k]], architect)

Summary(r, files) ==
    /\ r \in Results /\ r.errors = 0 /\ Len(r.imports) <= MaxMergedImports
    /\ r.imports = ImportsOf(files)
    /\ r.traps = TrapsOf(files)
    /\ SipVector(r) = PrivilegesOf(files)

LEMMA SourceTrees ==
    ASSUME NEW name \in DOMAIN Sources
    PROVE  /\ TreeOK(Sources[name].tree)
           /\ FileImports(Sources[name].tree) \in Seq(ImportForms)
           /\ FileTraps(Sources[name].tree) \in Nat
  BY SourcesAssumption, FileTypes DEF FileOK

LEMMA ImportsOfAppend ==
    ASSUME NEW files \in Seq(DOMAIN Sources), NEW name \in DOMAIN Sources
    PROVE  ImportsOf(Append(files, name)) = ImportsOf(files) \o FileImports(Sources[name].tree)
  <1>. DEFINE all == Append(files, name)
              n == Len(files)
              Of(f) == FileImports(Sources[f].tree)
              p == [k \in 1 .. n + 1 |-> Of(all[k])]
  <1>1. /\ n \in Nat /\ DOMAIN all = 1 .. n + 1 /\ DOMAIN files = 1 .. n
        /\ all[n + 1] = name /\ \A k \in 1 .. n : all[k] = files[k]
        /\ \A k \in 1 .. n + 1 : all[k] \in DOMAIN Sources
    OBVIOUS
  <1>2. p \in [1 .. n + 1 -> Seq(ImportForms)]
    BY <1>1, SourceTrees
  <1>3. ImportsOf(all) = FlattenSeq(p) /\ p[n + 1] = Of(name)
    BY <1>1 DEF ImportsOf
  <1>4. ImportsOf(files) = FlattenSeq([i \in 1 .. n |-> p[i]])
    <2>1. [i \in 1 .. n |-> p[i]] = [k \in DOMAIN files |-> Of(files[k])]
      BY <1>1
    <2>. QED
      BY <2>1 DEF ImportsOf
  <1>. HIDE DEF p, n, all
  <1>5. FlattenSeq(p) = FlattenSeq([i \in 1 .. n |-> p[i]]) \o p[n + 1]
    BY <1>1, <1>2, FlattenAppend
  <1>. QED
    BY <1>3, <1>4, <1>5 DEF all

LEMMA TrapsOfAppend ==
    ASSUME NEW files \in Seq(DOMAIN Sources), NEW name \in DOMAIN Sources
    PROVE  TrapsOf(Append(files, name)) = TrapsOf(files) + FileTraps(Sources[name].tree)
  <1>. DEFINE all == Append(files, name)
              n == Len(files)
              Of(f) == FileTraps(Sources[f].tree)
              p == [k \in 1 .. n + 1 |-> Of(all[k])]
              q == [k \in 1 .. n |-> Of(files[k])]
  <1>1. /\ n \in Nat /\ DOMAIN all = 1 .. n + 1 /\ DOMAIN files = 1 .. n
        /\ all[n + 1] = name /\ \A k \in 1 .. n : all[k] = files[k]
        /\ \A k \in 1 .. n + 1 : all[k] \in DOMAIN Sources
    OBVIOUS
  <1>2. \A k \in 1 .. n + 1 : p[k] \in Int
    BY <1>1, SourceTrees
  <1>3. TrapsOf(all) = SumFunctionOnSet(p, 1 .. n + 1) /\ p[n + 1] = Of(name)
    BY <1>1 DEF TrapsOf, SumFunction
  <1>4. TrapsOf(files) = SumFunctionOnSet(q, 1 .. n)
    BY <1>1 DEF TrapsOf, SumFunction
  <1>5. \A k \in 1 .. n : q[k] = p[k]
    BY <1>1
  <1>. HIDE DEF p, q, n, all
  <1>6. SumFunctionOnSet(p, 1 .. n + 1) = SumFunctionOnSet(p, 1 .. n) + p[n + 1]
    BY <1>1, <1>2, SumOfFirst
  <1>7. SumFunctionOnSet(q, 1 .. n) = SumFunctionOnSet(p, 1 .. n)
    <2>1. IsFiniteSet(1 .. n)
      BY <1>1, FS_Interval
    <2>. QED
      BY <1>5, <2>1, SumCongruence
  <1>. QED
    BY <1>3, <1>4, <1>6, <1>7 DEF all

LEMMA NothingMerged == Summary(NoResult, <<>>) /\ SoundFiles(<<>>, TRUE) /\ SoundFiles(<<>>, FALSE)
  <1>1. NoResult \in Results /\ NoResult.errors = 0 /\ Len(NoResult.imports) <= MaxMergedImports
    BY ImportLimitsAssumption, EmptySeq DEF NoResult, Results
  <1>2. ImportsOf(<<>>) = <<>>
    <2>1. [k \in DOMAIN <<>> |-> FileImports(Sources[<<>>[k]].tree)] = <<>>
      OBVIOUS
    <2>. QED
      BY <2>1, FlattenNone, Zenon DEF ImportsOf
  <1>3. TrapsOf(<<>>) = 0
    <2>1. DOMAIN [k \in DOMAIN <<>> |-> FileTraps(Sources[<<>>[k]].tree)] = {}
      OBVIOUS
    <2>. QED
      BY <2>1, SumOfNone, Zenon DEF TrapsOf, SumFunction
  <1>4. SipVector(NoResult) = PrivilegesOf(<<>>)
    <2>1. (\A kinds : HasKind(<<>>, kinds) = FALSE) /\ HasRawImport(<<>>) = FALSE
      BY DEF HasKind, HasRawImport
    <2>2. \A level \in 1 .. 3 : 1 <= level
      OBVIOUS
    <2>. QED
      BY <2>1, <2>2 DEF SipVector, NoResult, PrivilegesOf
  <1>. QED
    BY <1>1, <1>2, <1>3, <1>4 DEF Summary, SoundFiles, NoResult

\* merge_semantic_result: one file more.
LEMMA OneFileMore ==
    ASSUME NEW files \in Seq(DOMAIN Sources), NEW name \in DOMAIN Sources, NEW architect \in BOOLEAN,
           NEW total, Summary(total, files),
           NEW r \in Results, r.errors = 0, Tells(r, Sources[name].tree, architect),
           Mergeable(total, r, MaxMergedImports)
    PROVE  Summary(Merge(total, r), Append(files, name))
  <1>. DEFINE all == Append(files, name)
              next == Merge(total, r)
              tree == Sources[name].tree
  <1>0. total \in Results /\ total.errors = 0
    BY DEF Summary
  <1>1. /\ next.errors = 0 /\ next.metal = (total.metal \/ r.metal)
        /\ next.architect = (total.architect \/ r.architect)
        /\ next.rimport = (total.rimport \/ r.rimport)
        /\ next.traps = total.traps + r.traps
        /\ next.minSip = AtLeast(total.minSip, r.minSip)
        /\ next.imports = total.imports \o r.imports
    <2>1. next.errors = total.errors + r.errors
      BY Zenon DEF Merge
    <2>2. /\ next.metal = (total.metal \/ r.metal)
          /\ next.architect = (total.architect \/ r.architect)
          /\ next.rimport = (total.rimport \/ r.rimport)
          /\ next.traps = total.traps + r.traps
          /\ next.minSip = AtLeast(total.minSip, r.minSip)
          /\ next.imports = total.imports \o r.imports
      BY Zenon DEF Merge
    <2>. QED
      BY <1>0, <2>1, <2>2
  <1>2. next \in Results
    BY <1>0 DEF Merge, Results, AtLeast
  <1>3. Len(next.imports) <= MaxMergedImports
    <2>1. total.imports \in Seq(ImportForms) /\ r.imports \in Seq(ImportForms)
      BY <1>0 DEF Results
    <2>2. Len(total.imports \o r.imports) = Len(total.imports) + Len(r.imports)
      BY <2>1, ConcatProperties
    <2>. QED
      BY <1>1, <2>2, Zenon DEF Mergeable
  <1>4. next.imports = ImportsOf(all)
    BY <1>1, ImportsOfAppend DEF Summary, Tells
  <1>5. next.traps = TrapsOf(all)
    BY <1>1, TrapsOfAppend DEF Summary, Tells
  <1>. HIDE DEF next
  <1>6. /\ \A k \in DOMAIN all : all[k] = name \/ \E j \in DOMAIN files : all[k] = files[j]
        /\ \E k \in DOMAIN all : all[k] = name
        /\ \A j \in DOMAIN files : \E k \in DOMAIN all : all[k] = files[j]
    <2>1. /\ DOMAIN all = 1 .. Len(files) + 1 /\ DOMAIN files = 1 .. Len(files) /\ Len(files) \in Nat
          /\ all[Len(files) + 1] = name /\ \A k \in 1 .. Len(files) : all[k] = files[k]
      OBVIOUS
    <2>. HIDE DEF all
    <2>. QED
      BY <2>1
  <1>. HIDE DEF all
  <1>7. SipVector(next) = PrivilegesOf(all)
    <2>1. next.architect = HasKind(all, NeedsArchitect)
      <3>1. total.architect <=> HasKind(files, NeedsArchitect)
        BY DEF Summary, SipVector, PrivilegesOf
      <3>2. r.architect <=> \E i \in Analysed(tree) : tree[i].kind \in NeedsArchitect
        BY DEF Tells
      <3>3. next.architect \in BOOLEAN
        BY <1>2 DEF Results
      <3>. QED
        BY <1>1, <1>6, <3>1, <3>2, <3>3 DEF HasKind
    <2>2. next.metal = HasKind(all, HasMetal)
      <3>1. total.metal <=> HasKind(files, HasMetal)
        BY DEF Summary, SipVector, PrivilegesOf
      <3>2. r.metal <=> \E i \in Analysed(tree) : tree[i].kind \in HasMetal
        BY DEF Tells
      <3>3. next.metal \in BOOLEAN
        BY <1>2 DEF Results
      <3>. QED
        BY <1>1, <1>6, <3>1, <3>2, <3>3 DEF HasKind
    <2>3. next.rimport = HasRawImport(all)
      <3>1. total.rimport <=> HasRawImport(files)
        BY DEF Summary, SipVector, PrivilegesOf
      <3>2. r.rimport <=> \E i \in Analysed(tree) : IsRawImport(tree[i])
        BY DEF Tells, IsRawImport
      <3>3. next.rimport \in BOOLEAN
        BY <1>2 DEF Results
      <3>. QED
        BY <1>1, <1>6, <3>1, <3>2, <3>3 DEF HasRawImport
    <2>4. ASSUME NEW level \in 1 .. 3
          PROVE  next.minSip <= level <=> ~HasKind(all, {kind \in Kinds : Sip(kind) > level})
      <3>. DEFINE above == {kind \in Kinds : Sip(kind) > level}
      <3>0. \A i \in Analysed(tree) : tree[i].kind \in above <=> ~(Sip(tree[i].kind) <= level)
        BY SipLevels, SourceTrees, AnalysedNodes DEF TreeOK, NodeOK
      <3>1. total.minSip <= level <=> ~HasKind(files, above)
        BY DEF Summary, SipVector, PrivilegesOf
      <3>. HIDE DEF above
      <3>2. r.minSip <= level <=> ~\E i \in Analysed(tree) : tree[i].kind \in above
        BY <3>0 DEF Tells
      <3>3. next.minSip <= level <=> total.minSip <= level /\ r.minSip <= level
        BY <1>0, <1>1 DEF AtLeast, Results
      <3>4. HasKind(all, above)
               <=> HasKind(files, above) \/ \E i \in Analysed(tree) : tree[i].kind \in above
        BY <1>6 DEF HasKind
      <3>. QED
        BY <3>1, <3>2, <3>3, <3>4 DEF above
    <2>. QED
      BY <2>1, <2>2, <2>3, <2>4 DEF SipVector, PrivilegesOf
  <1>. QED
    BY <1>1, <1>2, <1>3, <1>4, <1>5, <1>7 DEF Summary, next, all

-----------------------------------------------------------------------------
(* The embryo. *)

LEMMA ZonesTyped ==
    ASSUME NEW files \in Seq(DOMAIN Sources)
    PROVE  /\ ZonesOf(files).code \in Seq(STRING) /\ ZonesOf(files).state \in Seq(STRING)
           /\ ZonesOf(files).constants \in Seq(STRING)
  <1>. DEFINE n == Len(files)
  <1>1. n \in Nat /\ DOMAIN files = 1 .. n /\ \A k \in 1 .. n : FileOK(Sources[files[k]])
    BY SourcesAssumption
  <1>. HIDE DEF n
  <1>2. /\ [k \in DOMAIN files |-> Sources[files[k]].code] \in [1 .. n -> Seq(STRING)]
        /\ [k \in DOMAIN files |-> Sources[files[k]].state] \in [1 .. n -> Seq(STRING)]
        /\ [k \in DOMAIN files |-> Sources[files[k]].constants] \in [1 .. n -> Seq(STRING)]
    BY <1>1 DEF FileOK
  <1>. QED
    BY <1>1, <1>2, FlattenType DEF ZonesOf

\* Every byte of a file whose first n are on the disk is what was written.
LEMMA BytesOfCut ==
    ASSUME NEW S, NEW bytes \in Seq(S), NEW n \in 0 .. Len(bytes)
    PROVE  /\ Len(SubSeq(bytes, 1, n)) = n
           /\ \A k \in 1 .. n : SubSeq(bytes, 1, n)[k] = bytes[k]
  BY SubSeqProperties

LEMMA FillTyped ==
    ASSUME NEW S, NEW count \in Nat, NEW value \in S
    PROVE  Fill(count, value) \in Seq(S) /\ Len(Fill(count, value)) = count
  BY DEF Fill

LEMMA Joined ==
    ASSUME NEW S, NEW s \in Seq(S), NEW t \in Seq(S)
    PROVE  /\ s \o t \in Seq(S) /\ Len(s \o t) = Len(s) + Len(t)
           /\ Len(s) \in Nat /\ Len(t) \in Nat /\ Len(s \o t) \in Nat
           /\ \A k \in 1 .. Len(s) : (s \o t)[k] = s[k]
           /\ \A k \in 1 .. Len(t) : (s \o t)[Len(s) + k] = t[k]
  BY ConcatProperties

\* The bytes of an embryo, zone by zone.
InZones(S, bytes, a, b, c, d, e, f) ==
    /\ bytes \in Seq(S)
    /\ Len(bytes) = Len(a) + Len(b) + Len(c) + Len(d) + Len(e) + Len(f)
    /\ \A k \in 1 .. Len(b) : bytes[Len(a) + k] = b[k]
    /\ \A k \in 1 .. Len(c) : bytes[Len(a) + Len(b) + k] = c[k]
    /\ \A k \in 1 .. Len(d) : bytes[Len(a) + Len(b) + Len(c) + k] = d[k]

LEMMA BytesOfEmbryo ==
    ASSUME NEW S, NEW a \in Seq(S), NEW b \in Seq(S), NEW c \in Seq(S), NEW d \in Seq(S),
           NEW e \in Seq(S), NEW f \in Seq(S)
    PROVE  InZones(S, a \o b \o c \o d \o e \o f, a, b, c, d, e, f)
  <1>. DEFINE ab == a \o b
              abc == ab \o c
              abcd == abc \o d
              abcde == abcd \o e
              bytes == abcde \o f
  <1>1. /\ ab \in Seq(S) /\ Len(ab) = Len(a) + Len(b)
        /\ Len(a) \in Nat /\ Len(b) \in Nat /\ Len(ab) \in Nat
        /\ \A k \in 1 .. Len(b) : ab[Len(a) + k] = b[k]
    BY Joined
  <1>. HIDE DEF ab
  <1>2. /\ abc \in Seq(S) /\ Len(abc) = Len(ab) + Len(c) /\ Len(c) \in Nat /\ Len(abc) \in Nat
        /\ \A k \in 1 .. Len(ab) : abc[k] = ab[k]
        /\ \A k \in 1 .. Len(c) : abc[Len(ab) + k] = c[k]
    <2>1. ab \in Seq(S) /\ c \in Seq(S)
      BY <1>1
    <2>. QED
      BY <2>1, Joined
  <1>. HIDE DEF abc
  <1>3. /\ abcd \in Seq(S) /\ Len(abcd) = Len(abc) + Len(d) /\ Len(d) \in Nat /\ Len(abcd) \in Nat
        /\ \A k \in 1 .. Len(abc) : abcd[k] = abc[k]
        /\ \A k \in 1 .. Len(d) : abcd[Len(abc) + k] = d[k]
    <2>1. abc \in Seq(S) /\ d \in Seq(S)
      BY <1>2
    <2>. QED
      BY <2>1, Joined
  <1>. HIDE DEF abcd
  <1>4. /\ abcde \in Seq(S) /\ Len(abcde) = Len(abcd) + Len(e) /\ Len(e) \in Nat /\ Len(abcde) \in Nat
        /\ \A k \in 1 .. Len(abcd) : abcde[k] = abcd[k]
    <2>1. abcd \in Seq(S) /\ e \in Seq(S)
      BY <1>3
    <2>. QED
      BY <2>1, Joined
  <1>. HIDE DEF abcde
  <1>5. /\ bytes \in Seq(S) /\ Len(bytes) = Len(abcde) + Len(f) /\ Len(f) \in Nat
        /\ \A k \in 1 .. Len(abcde) : bytes[k] = abcde[k]
    <2>2. abcde \in Seq(S) /\ f \in Seq(S)
      BY <1>4
    <2>3. /\ abcde \o f \in Seq(S) /\ Len(abcde \o f) = Len(abcde) + Len(f) /\ Len(f) \in Nat
          /\ \A k \in 1 .. Len(abcde) : (abcde \o f)[k] = abcde[k]
      BY <2>2, Joined
    <2>. QED
      BY <2>3
  <1>. HIDE DEF bytes
  <1>6. Len(ab) <= Len(abc) /\ Len(abc) <= Len(abcd) /\ Len(abcd) <= Len(abcde)
    BY <1>1, <1>2, <1>3, <1>4
  <1>7. /\ \A k \in 1 .. Len(abcd) : bytes[k] = abcd[k]
        /\ \A k \in 1 .. Len(abc) : bytes[k] = abc[k]
        /\ \A k \in 1 .. Len(ab) : bytes[k] = ab[k]
    <2>1. /\ \A k \in 1 .. Len(abcd) : k \in 1 .. Len(abcde)
          /\ \A k \in 1 .. Len(abc) : k \in 1 .. Len(abcd)
          /\ \A k \in 1 .. Len(ab) : k \in 1 .. Len(abc)
      BY <1>1, <1>2, <1>3, <1>4, <1>6
    <2>2. \A k \in 1 .. Len(abcd) : bytes[k] = abcd[k]
      BY <1>4, <1>5, <2>1, Zenon
    <2>3. \A k \in 1 .. Len(abc) : bytes[k] = abc[k]
      BY <1>3, <2>1, <2>2, Zenon
    <2>4. \A k \in 1 .. Len(ab) : bytes[k] = ab[k]
      BY <1>2, <2>1, <2>3, Zenon
    <2>. QED
      BY <2>2, <2>3, <2>4
  <1>8. ASSUME NEW k \in 1 .. Len(b) PROVE bytes[Len(a) + k] = b[k]
    <2>1. Len(a) + k \in 1 .. Len(ab)
      BY <1>1
    <2>. QED
      BY <1>1, <1>7, <2>1
  <1>9. ASSUME NEW k \in 1 .. Len(c) PROVE bytes[Len(a) + Len(b) + k] = c[k]
    <2>1. Len(ab) + k \in 1 .. Len(abc) /\ Len(ab) + k = Len(a) + Len(b) + k
      BY <1>1, <1>2
    <2>. QED
      BY <1>2, <1>7, <2>1
  <1>10. ASSUME NEW k \in 1 .. Len(d) PROVE bytes[Len(a) + Len(b) + Len(c) + k] = d[k]
    <2>1. Len(abc) + k \in 1 .. Len(abcd) /\ Len(abc) + k = Len(a) + Len(b) + Len(c) + k
      BY <1>1, <1>2, <1>3
    <2>. QED
      BY <1>3, <1>7, <2>1
  <1>11. Len(bytes) = Len(a) + Len(b) + Len(c) + Len(d) + Len(e) + Len(f)
    BY <1>1, <1>2, <1>3, <1>4, <1>5
  <1>12. InZones(S, bytes, a, b, c, d, e, f)
    BY <1>5, <1>8, <1>9, <1>10, <1>11 DEF InZones
  <1>. QED
    BY <1>12 DEF bytes, abcde, abcd, abc, ab

\* The bytes of a file, those of its sources and those of its tables.
Bytes == STRING \cup {"header", "gene", "fingerprint"}

\* parse_let_file: what it accepts of an embryo cut short is read as it was
\* written, up to the gene table.
LEMMA EmbryoReadsBack ==
    ASSUME NEW code \in Seq(STRING), NEW state \in Seq(STRING), NEW constants \in Seq(STRING),
           NEW z, z = [code |-> code, state |-> state, constants |-> constants],
           NEW r \in Results, Len(r.imports) <= MaxIdentities,
           NEW relocs, IsFiniteSet(relocs), NEW contract, NEW n,
           n \in 0 .. Len(LetImage(z, r, relocs, contract).bytes)
    PROVE  LET let == Cut(LetImage(z, r, relocs, contract), n) IN
           /\ let.gene.identities = r.imports /\ let.gene.traps = r.traps
           /\ SipVector(let.gene) = SipVector(r)
           /\ Parses(let) =>
                 /\ WeaverInput(let).code = code /\ WeaverInput(let).state = state
                 /\ WeaverInput(let).constants = constants
                 /\ WeaverInput(let).identities = r.imports
                 /\ WeaverInput(let).sip = SipVector(r)
  <1>. DEFINE full == LetImage(z, r, relocs, contract)
              let == Cut(full, n)
              size == GeneSize + Cardinality(relocs) * RelocSize + Len(r.imports) * IdentitySize
              bytes == Fill(HeaderSize, "header") \o code \o state
                         \o constants \o Fill(size, "gene") \o Fill(2, "fingerprint")
              cut == SubSeq(bytes, 1, n)
              input == WeaverInput(let)
  <1>1. SubSeq(r.imports, 1, Min2(Len(r.imports), MaxIdentities)) = r.imports
    <2>1. r.imports \in Seq(ImportForms)
      BY DEF Results
    <2>2. Min2(Len(r.imports), MaxIdentities) = Len(r.imports)
      BY DEF Min2
    <2>. QED
      BY <2>1, <2>2, SubSeqFull
  <1>2. size \in Nat
    <2>1. Cardinality(relocs) \in Nat /\ Len(r.imports) \in Nat
      BY FS_CardinalityType DEF Results
    <2>2. \A x, y \in Nat : x * y \in Nat /\ x + y \in Nat
      OBVIOUS
    <2>3. GeneSize \in Nat /\ RelocSize \in Nat /\ IdentitySize \in Nat
      BY LetSizesAssumption
    <2>. QED
      BY <2>1, <2>2, <2>3
  <1>3. full = [header |-> Header(z, size, contract),
                gene |-> [relocs |-> relocs, identities |-> r.imports, traps |-> r.traps,
                          minSip |-> r.minSip, architect |-> r.architect,
                          metal |-> r.metal, rimport |-> r.rimport],
                bytes |-> bytes]
    <2>1. z.code = code /\ z.state = state /\ z.constants = constants
      OBVIOUS
    <2>. QED
      BY <1>1, <2>1 DEF LetImage
  <1>. HIDE DEF size, full
  <1>4. /\ bytes \in Seq(Bytes)
        /\ Len(bytes) = HeaderSize + Len(code) + Len(state) + Len(constants) + size + 2
        /\ \A k \in 1 .. Len(code) : bytes[HeaderSize + k] = code[k]
        /\ \A k \in 1 .. Len(state) : bytes[HeaderSize + Len(code) + k] = state[k]
        /\ \A k \in 1 .. Len(constants) :
              bytes[HeaderSize + Len(code) + Len(state) + k] = constants[k]
    <2>. DEFINE a == Fill(HeaderSize, "header")
                e == Fill(size, "gene")
                f == Fill(2, "fingerprint")
    <2>0. code \in Seq(Bytes) /\ state \in Seq(Bytes) /\ constants \in Seq(Bytes)
      BY SeqMonotonic DEF Bytes
    <2>1. /\ a \in Seq(Bytes) /\ Len(a) = HeaderSize
          /\ e \in Seq(Bytes) /\ Len(e) = size
          /\ f \in Seq(Bytes) /\ Len(f) = 2
      <3>1. HeaderSize \in Nat /\ 2 \in Nat
        BY LetSizesAssumption
      <3>2. "header" \in Bytes /\ "gene" \in Bytes /\ "fingerprint" \in Bytes
        BY DEF Bytes
      <3>. QED
        BY <1>2, <3>1, <3>2, FillTyped, Zenon
    <2>. HIDE DEF a, e, f
    <2>2. bytes = a \o code \o state \o constants \o e \o f
      BY Zenon DEF a, e, f
    <2>. HIDE DEF bytes
    <2>3. /\ bytes \in Seq(Bytes)
          /\ Len(bytes) = Len(a) + Len(code) + Len(state) + Len(constants) + Len(e) + Len(f)
          /\ \A k \in 1 .. Len(code) : bytes[Len(a) + k] = code[k]
          /\ \A k \in 1 .. Len(state) : bytes[Len(a) + Len(code) + k] = state[k]
          /\ \A k \in 1 .. Len(constants) :
                bytes[Len(a) + Len(code) + Len(state) + k] = constants[k]
      <3>1. /\ a \in Seq(Bytes) /\ code \in Seq(Bytes) /\ state \in Seq(Bytes)
            /\ constants \in Seq(Bytes) /\ e \in Seq(Bytes) /\ f \in Seq(Bytes)
        BY <2>0, <2>1
      <3>2. InZones(Bytes, bytes, a, code, state, constants, e, f)
        BY <2>2, <3>1, BytesOfEmbryo, Zenon
      <3>. QED
        BY <3>2 DEF InZones
    <2>. QED
      BY <2>1, <2>3
  <1>. HIDE DEF bytes
  <1>5. /\ full.bytes = bytes /\ n \in 0 .. Len(bytes)
        /\ let.header = Header(z, size, contract)
        /\ let.gene = [relocs |-> relocs, identities |-> r.imports, traps |-> r.traps,
                       minSip |-> r.minSip, architect |-> r.architect,
                       metal |-> r.metal, rimport |-> r.rimport]
        /\ let.bytes = cut
    BY <1>3 DEF Cut, full
  <1>6. Len(cut) = n /\ \A k \in 1 .. n : cut[k] = bytes[k]
    BY <1>4, <1>5, BytesOfCut
  <1>. HIDE DEF let, cut
  <1>7. /\ let.header.logicOffset = HeaderSize /\ let.header.logicSize = Len(code)
        /\ let.header.stateOffset = HeaderSize + Len(code) /\ let.header.stateSize = Len(state)
        /\ let.header.geneOffset = HeaderSize + Len(code) + Len(state) + Len(constants)
        /\ let.header.geneSize = size
    BY <1>5, z.code = code, z.state = state, z.constants = constants DEF Header, GeneOffset
  <1>8. /\ let.gene.identities = r.imports /\ let.gene.traps = r.traps
        /\ SipVector(let.gene) = SipVector(r)
    BY <1>5 DEF SipVector
  <1>9. ASSUME Parses(let)
        PROVE  /\ input.code = code /\ input.state = state /\ input.constants = constants
               /\ input.identities = r.imports /\ input.sip = SipVector(r)
    <2>0. /\ Len(code) \in Nat /\ Len(state) \in Nat /\ Len(constants) \in Nat
          /\ HeaderSize \in Nat /\ n \in Nat
      BY <1>5, LetSizesAssumption
    <2>1. HeaderSize + Len(code) + Len(state) + Len(constants) <= n
      BY <1>2, <1>5, <1>6, <1>7, <1>9, <2>0 DEF Parses, InRange
    <2>2. Zone(let, HeaderSize, Len(code)) = code
      <3>1. ASSUME NEW k \in 1 .. Len(code)
            PROVE  HeaderSize + k <= n /\ cut[HeaderSize + k] = code[k]
        <4>1. HeaderSize + k \in 1 .. n
          BY <2>0, <2>1
        <4>. QED
          BY <1>4, <1>6, <4>1
      <3>2. code = [k \in 1 .. Len(code) |-> code[k]]
        OBVIOUS
      <3>. QED
        BY <1>5, <1>6, <3>1, <3>2 DEF Zone
    <2>3. Zone(let, HeaderSize + Len(code), Len(state)) = state
      <3>1. ASSUME NEW k \in 1 .. Len(state)
            PROVE  HeaderSize + Len(code) + k <= n /\ cut[HeaderSize + Len(code) + k] = state[k]
        <4>1. HeaderSize + Len(code) + k \in 1 .. n
          BY <2>0, <2>1
        <4>. QED
          BY <1>4, <1>6, <4>1
      <3>2. state = [k \in 1 .. Len(state) |-> state[k]]
        OBVIOUS
      <3>. QED
        BY <1>5, <1>6, <3>1, <3>2 DEF Zone
    <2>4. Zone(let, HeaderSize + Len(code) + Len(state), Len(constants)) = constants
      <3>1. ASSUME NEW k \in 1 .. Len(constants)
            PROVE  HeaderSize + Len(code) + Len(state) + k <= n /\ cut[HeaderSize + Len(code) + Len(state) + k] = constants[k]
        <4>1. HeaderSize + Len(code) + Len(state) + k \in 1 .. n
          BY <2>0, <2>1
        <4>. QED
          BY <1>4, <1>6, <4>1
      <3>2. constants = [k \in 1 .. Len(constants) |-> constants[k]]
        OBVIOUS
      <3>. QED
        BY <1>5, <1>6, <3>1, <3>2 DEF Zone
    <2>5. /\ let.header.stateOffset + let.header.stateSize = HeaderSize + Len(code) + Len(state)
          /\ HeaderSize + Len(code) + Len(state) <= let.header.geneOffset
          /\ let.header.geneOffset - (HeaderSize + Len(code) + Len(state)) = Len(constants)
      BY <1>7, <2>0
    <2>6. /\ input.code = Zone(let, HeaderSize, Len(code))
          /\ input.state = Zone(let, HeaderSize + Len(code), Len(state))
          /\ input.constants = Zone(let, HeaderSize + Len(code) + Len(state), Len(constants))
          /\ input.identities = let.gene.identities /\ input.sip = SipVector(let.gene)
      BY <1>7, <2>5 DEF WeaverInput
    <2>. QED
      BY <1>8, <2>2, <2>3, <2>4, <2>6
  <1>. QED
    BY <1>8, <1>9 DEF let, full


-----------------------------------------------------------------------------
(* The files on the disk. *)

WholeOrCut(let, files) ==
    \E r \in Results : \E relocs, contract, n :
        /\ Summary(r, files) /\ IsFiniteSet(relocs)
        /\ n \in 0 .. Len(LetImage(ZonesOf(files), r, relocs, contract).bytes)
        /\ let = Cut(LetImage(ZonesOf(files), r, relocs, contract), n)

\* What parse_let_file can be handed, ...
HonestLet(entry) ==
    /\ entry.sources \in Seq(DOMAIN Sources)
    /\ SoundFiles(entry.sources, entry.architect)
    /\ WholeOrCut(entry.let, entry.sources)

\* ... and what the weavers leave.
HonestWoven(payload, files) ==
    /\ payload.code = ZonesOf(files).code
    /\ payload.state = ZonesOf(files).state
    /\ payload.constants = ZonesOf(files).constants
    /\ payload.identities = ImportsOf(files)
    /\ payload.sip = PrivilegesOf(files)
HonestBinary(payload, files) ==
    IF payload.frame THEN payload.code = ZonesOf(files).code
    ELSE \E n \in 0 .. Len(ZonesOf(files).code) :
            payload.code = SubSeq(ZonesOf(files).code, n + 1, Len(ZonesOf(files).code))
HonestImage(entry) ==
    /\ entry.form # "assembly" => SoundFiles(entry.sources, entry.architect)
    /\ entry.form = "woven" => HonestWoven(entry.payload, entry.sources)
    /\ entry.form = "binary" => HonestBinary(entry.payload, entry.sources)

Honest(entry) ==
    /\ entry.kind \in {"absent", "partial", "let", "image"}
    /\ entry.kind = "let" => HonestLet(entry)
    /\ entry.kind = "image" => HonestImage(entry)

OnDisk ==
    \A p \in Paths : /\ Honest(disk[p])
                     /\ disk[p].kind # "absent" => disk[p].run \in 1 .. run + 1

\* Where the command is, and what it has gathered by then.
Nothing == {"idle", "fail", "assemble", "assembler", "setup", "weave"}
Everything == {"generate", "emit", "wrap"}

Gathered ==
    /\ pc \in Nothing \cup {"frontend"} \cup Everything
    /\ status \in 0 .. 255
    /\ merged \in Seq(DOMAIN Sources) /\ Summary(agg, merged)
    /\ pc \in Nothing => merged = <<>>
    /\ pc \in {"assemble", "setup"} => command.files # <<>>
    /\ pc # "idle" => SoundFiles(merged, Architect(command))
    /\ pc = "frontend" => /\ idx \in DOMAIN command.files
                          /\ merged = SubSeq(command.files, 1, idx - 1)
    /\ pc \in Everything => merged = command.files
    /\ pc \in {"emit", "wrap"} => zones = ZonesOf(merged)

CInv == IInv /\ Gathered /\ OnDisk

-----------------------------------------------------------------------------

\* A command that runs is well formed.
LEMMA CommandTyped ==
    ASSUME Shape, pc # "idle"
    PROVE  /\ CommandOK(command) /\ command.files \in Seq(DOMAIN Sources)
           /\ Architect(command) \in BOOLEAN
  BY SessionsAssumption DEF Shape, command, CommandOK, Architect

\* The end of a command forgets what it gathered.
LEMMA Forgets ==
    ASSUME IInv, Gathered, pc # "idle", NEW code \in Nat, Exit(code)
    PROVE  Gathered'
  <1>1. pc' = "idle" /\ merged' = <<>> /\ agg' = NoResult /\ status' = code % 256
    BY DEF Exit
  <1>2. status' \in 0 .. 255
    BY <1>1
  <1>3. Summary(NoResult, <<>>)
    BY NothingMerged
  <1>4. Summary(agg, merged)'
    BY <1>1, <1>3 DEF Summary
  <1>5. merged' \in Seq(DOMAIN Sources)
    BY <1>1
  <1>. QED
    BY <1>1, <1>2, <1>4, <1>5 DEF Gathered, Nothing, Everything

\* A step that goes on with all that was gathered, ...
LEMMA KeepsAll ==
    ASSUME IInv, Gathered, pc \in Everything, NEW next \in {"emit", "wrap"}, Continue(next),
           UNCHANGED <<idx, agg, merged>>, zones' = ZonesOf(merged)
    PROVE  Gathered'
  <1>1. command' = command
    BY DEF Continue, command
  <1>2. Summary(agg, merged)' /\ SoundFiles(merged, Architect(command))'
    BY <1>1 DEF Gathered, Everything, Summary, SoundFiles
  <1>. QED
    BY <1>1, <1>2 DEF Gathered, Continue, Nothing, Everything

\* ... or with nothing.
LEMMA KeepsNothing ==
    ASSUME IInv, Gathered, pc \in {"assemble"}, NEW next \in {"setup", "assembler"},
           Continue(next), UNCHANGED <<idx, agg, merged, zones>>
    PROVE  Gathered'
  <1>1. command' = command
    BY DEF Continue, command
  <1>2. Summary(agg, merged)' /\ SoundFiles(merged, Architect(command))'
    BY <1>1 DEF Gathered, Nothing, Summary, SoundFiles
  <1>. QED
    BY <1>1, <1>2 DEF Gathered, Continue, Nothing, Everything

\* A step leaves each file as it was or as the command has written it.
Wrote(entry) == Honest(entry) /\ (entry.kind # "absent" => entry.run = run + 1)

LEMMA Writes ==
    ASSUME IInv, OnDisk, run' \in {run, run + 1},
           \A p \in Paths : disk'[p] = disk[p] \/ Wrote(disk'[p])
    PROVE  OnDisk'
  <1>1. run \in Nat
    BY DEF IInv, Shape
  <1>2. ASSUME NEW p \in Paths
        PROVE  Honest(disk'[p]) /\ (disk'[p].kind # "absent" => disk'[p].run \in 1 .. run' + 1)
    BY <1>1, <1>2 DEF OnDisk, Wrote
  <1>. QED
    BY <1>2 DEF OnDisk, Honest, HonestLet, HonestImage, SoundFiles, WholeOrCut, Summary,
       HonestWoven, HonestBinary

LEMMA NothingIsHonest == Wrote(Absent) /\ Wrote(Partial)
  BY DEF Wrote, Honest, Absent, Partial

LEMMA ImagesAreHonest ==
    ASSUME IInv, Gathered, pc # "idle"
    PROVE  /\ \A payload : Wrote(Image("assembly", payload))
           /\ pc \in Everything => \A payload : Wrote(Image("zones", payload))
  <1>1. \A payload : Wrote(Image("assembly", payload))
    BY DEF Wrote, Honest, Image, HonestImage
  <1>2. ASSUME pc \in Everything, NEW payload PROVE Wrote(Image("zones", payload))
    <2>1. SoundFiles(command.files, Architect(command))
      BY <1>2 DEF Gathered, Everything
    <2>. QED
      BY <2>1 DEF Wrote, Honest, Image, HonestImage
  <1>. QED
    BY <1>1, <1>2

\* let_generate_image, however many of its writes arrive.
LEMMA EmbryosAreHonest ==
    ASSUME IInv, Gathered, pc = "emit", NEW full \in Embryos, NEW let \in Cuts(full)
    PROVE  Wrote(Embryo(let))
  <1>1. /\ merged = command.files /\ zones = ZonesOf(merged) /\ Summary(agg, merged)
        /\ merged \in Seq(DOMAIN Sources) /\ SoundFiles(merged, Architect(command))
    BY DEF Gathered, Everything
  <1>2. PICK relocs \in {RelocDna(zones.code), {}} :
           full = LetImage(zones, agg, relocs, Contract(command))
    BY DEF Embryos
  <1>3. PICK n \in 0 .. Len(full.bytes) : let = Cut(full, n)
    BY DEF Cuts
  <1>4. IsFiniteSet(relocs)
    <2>1. Len(zones.code) \in Nat
      BY <1>1, ZonesTyped
    <2>2. IsFiniteSet(1 .. Len(zones.code)) /\ IsFiniteSet({})
      BY <2>1, FS_Interval, FS_EmptySet
    <2>3. RelocDna(zones.code) \subseteq 1 .. Len(zones.code)
      BY DEF RelocDna
    <2>. QED
      BY <1>2, <2>2, <2>3, FS_Subset
  <1>5. agg \in Results
    BY <1>1 DEF Summary
  <1>6. WholeOrCut(let, command.files)
    BY <1>1, <1>2, <1>3, <1>4, <1>5 DEF WholeOrCut
  <1>. QED
    BY <1>1, <1>6 DEF Wrote, Honest, HonestLet, Embryo

\* What an embryo says of its sources, and what is read back from it.
LEMMA EmbryoTells ==
    ASSUME NEW files \in Seq(DOMAIN Sources), NEW let, WholeOrCut(let, files)
    PROVE  /\ SipVector(let.gene) = PrivilegesOf(files)
           /\ let.gene.identities = ImportsOf(files) /\ let.gene.traps = TrapsOf(files)
           /\ Parses(let) =>
                 /\ WeaverInput(let).code = ZonesOf(files).code
                 /\ WeaverInput(let).state = ZonesOf(files).state
                 /\ WeaverInput(let).constants = ZonesOf(files).constants
                 /\ WeaverInput(let).identities = ImportsOf(files)
                 /\ WeaverInput(let).sip = PrivilegesOf(files)
  <1>. DEFINE z == ZonesOf(files)
  <1>1. PICK r \in Results : \E relocs, contract, n :
           /\ Summary(r, files) /\ IsFiniteSet(relocs)
           /\ n \in 0 .. Len(LetImage(z, r, relocs, contract).bytes)
           /\ let = Cut(LetImage(z, r, relocs, contract), n)
    BY Zenon DEF WholeOrCut
  <1>2. PICK relocs, contract, n :
           /\ Summary(r, files) /\ IsFiniteSet(relocs)
           /\ n \in 0 .. Len(LetImage(z, r, relocs, contract).bytes)
           /\ let = Cut(LetImage(z, r, relocs, contract), n)
    BY <1>1, Zenon
  <1>3. Len(r.imports) <= MaxIdentities
    <2>1. Len(r.imports) \in Nat /\ Len(r.imports) <= MaxMergedImports
      BY <1>2 DEF Summary, Results
    <2>. QED
      BY <2>1, ImportLimitsAssumption, LetSizesAssumption
  <1>4. z = [code |-> z.code, state |-> z.state, constants |-> z.constants]
    BY DEF ZonesOf
  <1>5. z.code \in Seq(STRING) /\ z.state \in Seq(STRING) /\ z.constants \in Seq(STRING)
    BY ZonesTyped
  <1>. HIDE DEF z
  <1>6. /\ let.gene.identities = r.imports /\ let.gene.traps = r.traps
        /\ SipVector(let.gene) = SipVector(r)
        /\ Parses(let) =>
              /\ WeaverInput(let).code = z.code /\ WeaverInput(let).state = z.state
              /\ WeaverInput(let).constants = z.constants
              /\ WeaverInput(let).identities = r.imports
              /\ WeaverInput(let).sip = SipVector(r)
    BY <1>2, <1>3, <1>4, <1>5, EmbryoReadsBack
  <1>. QED
    BY <1>2, <1>6 DEF Summary, z

\* parse_let_file and let_weave_to_target.
LEMMA WovenIsHonest ==
    ASSUME IInv, Gathered, OnDisk, pc # "idle", NEW p \in Paths, Readable(p), Accepted(p)
    PROVE  /\ command.format = "BIN" => Wrote(WovenBinary(p))
           /\ command.format # "BIN" => Wrote(WovenImage(p))
  <1>. DEFINE files == disk[p].sources
              let == disk[p].let
              input == WeaverInput(let)
              z == ZonesOf(files)
  <1>1. HonestLet(disk[p]) /\ Parses(let)
    BY DEF OnDisk, Honest, Readable
  <1>2. files \in Seq(DOMAIN Sources) /\ SoundFiles(files, disk[p].architect)
    BY <1>1 DEF HonestLet
  <1>3. /\ input.code = z.code /\ input.state = z.state /\ input.constants = z.constants
        /\ input.identities = ImportsOf(files) /\ input.sip = PrivilegesOf(files)
    BY <1>1, EmbryoTells DEF HonestLet
  <1>4. CommandOK(command)
    BY CommandTyped DEF IInv
  <1>5. ASSUME command.format = "BIN" PROVE Wrote(WovenBinary(p))
    <2>1. BinEntry \in 0 .. Len(z.code)
      <3>1. Len(z.code) \in Nat
        BY <1>2, ZonesTyped
      <3>2. BinEntry \in Nat
        BY <1>4 DEF CommandOK, BinEntry
      <3>3. BinEntry <= Len(input.code) \/ BinEntry < Len(input.code)
        BY <1>3, <1>5, <3>1, <3>2 DEF Accepted, AsmAccepts, FallbackAccepts
      <3>. QED
        BY <1>3, <3>1, <3>2, <3>3
    <2>. DEFINE binary == Binary(input, BinEntry, command.flat)
    <2>2. HonestBinary(binary, files)
      BY <1>3, <2>1 DEF HonestBinary, Binary
    <2>3. WovenBinary(p) = OfEmbryo(Image("binary", binary), p)
      BY DEF WovenBinary
    <2>. HIDE DEF binary
    <2>. QED
      BY <1>2, <2>2, <2>3 DEF Wrote, Honest, HonestImage, OfEmbryo, Image
  <1>6. Wrote(WovenImage(p))
    <2>. DEFINE payload == IF command.format = "ROM"
                           THEN [input EXCEPT !.genesis = RomEntry(input)] ELSE input
    <2>1. /\ payload.code = input.code /\ payload.state = input.state
          /\ payload.constants = input.constants
          /\ payload.identities = input.identities /\ payload.sip = input.sip
      BY DEF WeaverInput
    <2>2. WovenImage(p) = OfEmbryo(Image("woven", payload), p)
      BY DEF WovenImage
    <2>. HIDE DEF payload, input
    <2>3. HonestWoven(payload, files)
      BY <1>3, <2>1 DEF HonestWoven
    <2>. QED
      BY <1>2, <2>2, <2>3 DEF Wrote, Honest, HonestImage, OfEmbryo, Image
  <1>. QED
    BY <1>5, <1>6


-----------------------------------------------------------------------------

LEMMA InitGathers == Init => CInv
  <1>. SUFFICES ASSUME Init PROVE CInv
    OBVIOUS
  <1>1. IInv
    BY InitInv
  <1>2. Summary(agg, merged)
    BY NothingMerged DEF Init
  <1>3. Gathered
    BY <1>2 DEF Init, Gathered, Nothing, Everything
  <1>4. OnDisk
    BY DEF Init, OnDisk, Honest, Absent
  <1>. QED
    BY <1>1, <1>3, <1>4 DEF CInv

\* A step that writes what is honest, and ends the command or goes on.
LEMMA EndsHonestly ==
    ASSUME CInv, pc # "idle", NEW code \in Nat, Exit(code),
           \A p \in Paths : disk'[p] = disk[p] \/ Wrote(disk'[p])
    PROVE  Gathered' /\ OnDisk'
  <1>1. run' \in {run, run + 1}
    BY DEF Exit
  <1>. QED
    BY <1>1, Forgets, Writes DEF CInv

LEMMA FirstAlone ==
    ASSUME NEW S, NEW s \in Seq(S), 1 \in 1 .. Len(s)
    PROVE  SubSeq(s, 1, 1) = <<s[1]>>
  <1>1. SubSeq(s, 1, 1) = <<s[1]>> \o SubSeq(s, 1 + 1, 1)
    BY SubSeqRecursiveFirst
  <1>2. SubSeq(s, 1 + 1, 1) = <<>>
    BY SubSeqEmpty
  <1>3. <<s[1]>> \in Seq(S)
    BY ElementOfSeq
  <1>. QED
    BY <1>1, <1>2, <1>3, ConcatEmptySeq

\* One turn of the loop over the input files.
LEMMA FileGathered ==
    ASSUME CInv, pc = "frontend", ~FrontendFails(Sources[command.files[idx]],
               Analyze(Sources[command.files[idx]].tree, Architect(command), MaxFileImports)),
           Strike(Sources[command.files[idx]]) = 0,
           agg' = Merge(agg, Analyze(Sources[command.files[idx]].tree, Architect(command), MaxFileImports)),
           merged' = Append(merged, command.files[idx]),
           IF idx < Len(command.files) THEN idx' = idx + 1 /\ Continue("frontend")
                                       ELSE idx' = 0 /\ Continue("generate")
    PROVE  Gathered'
  <1>. DEFINE files == command.files
              name == files[idx]
              f == Sources[name]
              architect == Architect(command)
              r == Analyze(f.tree, architect, MaxFileImports)
  <1>1. files \in Seq(DOMAIN Sources) /\ architect \in BOOLEAN
    BY CommandTyped DEF CInv, IInv
  <1>2. /\ idx \in 1 .. Len(files) /\ Len(files) \in Nat /\ name \in DOMAIN Sources
        /\ merged = SubSeq(files, 1, idx - 1) /\ merged \in Seq(DOMAIN Sources)
        /\ Summary(agg, merged) /\ SoundFiles(merged, architect)
    BY <1>1 DEF CInv, Gathered
  <1>3. FileOK(f) /\ TreeOK(f.tree)
    BY <1>2, SourcesAssumption DEF FileOK
  <1>4. r \in Results /\ (r.errors = 0 => Tells(r, f.tree, architect))
    BY <1>1, <1>3, ResultTellsTheTree, ImportLimitsAssumption
  <1>5. /\ r.errors = 0 /\ Mergeable(agg, r, MaxMergedImports)
        /\ f.defect \notin {"lexical", "syntax"}
    BY <1>4 DEF FrontendFails, Results
  <1>6. f.defect \in {"none", "foreign C"}
    <2>1. f.defect \notin {"unreadable", "forbidden include", "strike"}
      <3>1. f.defect = "unreadable" => Strike(f) # 0
        BY DEF Strike
      <3>2. f.defect \in {"forbidden include", "strike"} => Strike(f) \in {1, COMPILER_STRIKE_CODE}
        BY DEF Strike, ForbiddenInclude, LexerStrikes
      <3>3. Strike(f) = 0 /\ 1 # 0 /\ COMPILER_STRIKE_CODE # 0
        BY DEF COMPILER_STRIKE_CODE
      <3>. QED
        BY <3>1, <3>2, <3>3, Zenon
    <2>. HIDE DEF f
    <2>2. f.defect \in Defects
      BY <1>3 DEF FileOK
    <2>. QED
      BY <1>5, <2>1, <2>2 DEF Defects
  <1>7. SoundFile(f, architect)
    BY <1>4, <1>5, <1>6 DEF SoundFile, Tells
  <1>8. command' = command /\ pc' \in {"frontend", "generate"} /\ UNCHANGED status
    BY DEF Continue, command
  <1>. HIDE DEF r
  <1>9. Summary(agg', merged')
    BY <1>1, <1>2, <1>4, <1>5, OneFileMore DEF r
  <1>10. merged' = SubSeq(files, 1, idx)
    <2>1. CASE idx = 1
      <3>. HIDE DEF files
      <3>1. merged = <<>>
        BY <1>2, <2>1, SubSeqEmpty
      <3>2. SubSeq(files, 1, 1) = <<files[1]>>
        BY <1>1, <1>2, <2>1, FirstAlone
      <3>3. merged' = Append(merged, files[idx])
        BY DEF files
      <3>4. Append(<<>>, files[1]) = <<files[1]>>
        OBVIOUS
      <3>. QED
        BY <2>1, <3>1, <3>2, <3>3, <3>4
    <2>2. CASE idx # 1
      <3>1. SubSeq(files, 1, idx) = SubSeq(files, 1, idx - 1) \o <<files[idx]>>
        BY <1>1, <1>2, <2>2, SubSeqRecursiveSecond
      <3>2. Append(merged, name) = merged \o <<name>>
        BY <1>2, AppendIsConcat
      <3>. QED
        BY <1>2, <3>1, <3>2
    <2>. QED
      BY <2>1, <2>2
  <1>11. merged' \in Seq(DOMAIN Sources) /\ SoundFiles(merged', architect)
    <2>1. merged' \in Seq(DOMAIN Sources) /\ DOMAIN merged' = 1 .. Len(merged) + 1
      BY <1>2
    <2>2. \A k \in 1 .. Len(merged) + 1 : IF k <= Len(merged) THEN merged'[k] = merged[k] ELSE merged'[k] = name
      BY <1>2
    <2>3. DOMAIN merged = 1 .. Len(merged) /\ Len(merged) \in Nat
      BY <1>2
    <2>4. ASSUME NEW k \in DOMAIN merged' PROVE SoundFile(Sources[merged'[k]], architect)
      <3>1. CASE k <= Len(merged)
        <4>1. k \in DOMAIN merged
          BY <2>1, <2>3, <3>1
        <4>. QED
          BY <1>2, <2>1, <2>2, <3>1, <4>1 DEF SoundFiles
      <3>2. CASE ~(k <= Len(merged))
        BY <1>7, <2>1, <2>2, <3>2
      <3>. QED
        BY <3>1, <3>2
    <2>. QED
      BY <2>1, <2>4 DEF SoundFiles
  <1>12. /\ pc' = "frontend" => idx' \in DOMAIN files /\ idx' - 1 = idx
         /\ pc' = "generate" => idx = Len(files)
    BY <1>1, <1>2 DEF Continue
  <1>13. SubSeq(files, 1, Len(files)) = files
    BY <1>1, SubSeqFull
  <1>14. Summary(agg, merged)' /\ SoundFiles(merged, architect)'
    BY <1>8, <1>9, <1>11 DEF Summary, SoundFiles
  <1>15. status' \in 0 .. 255
    BY <1>8 DEF CInv, Gathered
  <1>. HIDE DEF files, architect, name
  <1>16. /\ pc' = "frontend" => merged' = SubSeq(files, 1, idx' - 1)
         /\ pc' = "generate" => merged' = files
    BY <1>10, <1>12, <1>13
  <1>. QED
    BY <1>8, <1>11, <1>12, <1>14, <1>15, <1>16 DEF Gathered, Nothing, Everything, files, architect

LEMMA StepGathers == CInv /\ [Next]_vars => CInv'
  <1>. SUFFICES ASSUME CInv, [Next]_vars PROVE CInv'
    OBVIOUS
  <1>. SUFFICES Gathered' /\ OnDisk'
    BY StepInv DEF CInv
  <1>0. /\ IInv /\ Gathered /\ OnDisk /\ DOMAIN disk = Paths
        /\ "temporary" \in Paths /\ "embryo" \in Paths
    BY DEF CInv, IInv, Shape, Paths
  <1>a. Continue("setup") \/ Continue("assembler") \/ Continue("frontend") \/ Continue("generate")
          \/ Continue("emit") \/ Continue("wrap") => run' \in {run, run + 1}
    BY DEF Continue
  <1>b. \A path, e : disk' = [disk EXCEPT ![path] = e] /\ (e = disk[path] \/ Wrote(e)) =>
           \A p \in Paths : disk'[p] = disk[p] \/ Wrote(disk'[p])
    BY <1>0
  <1>c. \A path, e : disk' = [disk EXCEPT !["temporary"] = Absent, ![path] = e]
                       /\ (e = disk[path] \/ Wrote(e)) =>
           \A p \in Paths : disk'[p] = disk[p] \/ Wrote(disk'[p])
    BY <1>0, NothingIsHonest
  <1>d. UNCHANGED disk => \A p \in Paths : disk'[p] = disk[p] \/ Wrote(disk'[p])
    OBVIOUS
  <1>e. 0 \in Nat /\ 1 \in Nat /\ COMPILER_STRIKE_CODE \in Nat
    BY DEF COMPILER_STRIKE_CODE
  <1>1. CASE Start
    <2>1. /\ UNCHANGED <<session, run, idx, agg, merged, zones, disk, status>>
          /\ pc = "idle" /\ pc' \in {"weave", "fail", "assemble", "setup"}
          /\ pc' \in {"assemble", "setup"} => command.files # <<>>
      BY <1>1 DEF Start
    <2>2. command' = command /\ merged = <<>>
      BY <1>0, <2>1 DEF command, Gathered, Nothing
    <2>3. Architect(command) \in BOOLEAN
      BY <1>1, SessionsAssumption, <1>0 DEF Start, IInv, Shape, command, CommandOK, Architect
    <2>4. SoundFiles(merged, Architect(command))' /\ Summary(agg, merged)'
      BY <1>0, <2>1, <2>2, <2>3, NothingMerged DEF Gathered, SoundFiles, Summary
    <2>5. Gathered'
      BY <1>0, <2>1, <2>2, <2>4 DEF Gathered, Nothing, Everything
    <2>6. OnDisk'
      BY <1>0, <1>d, <2>1, Writes
    <2>. QED
      BY <2>5, <2>6
  <1>2. CASE Fail
    BY <1>2, <1>d, <1>e, EndsHonestly DEF Fail
  <1>3. CASE Assemble
    <2>1. CASE Exit(1) /\ UNCHANGED disk
      BY <1>3, <1>d, <1>e, <2>1, EndsHonestly DEF Assemble
    <2>2. CASE Continue("setup") /\ UNCHANGED <<idx, agg, merged, zones, disk>>
      <3>1. Gathered'
        BY <1>0, <1>3, <2>2, KeepsNothing DEF Assemble
      <3>2. OnDisk'
        BY <1>0, <1>a, <1>d, <2>2, Writes
      <3>. QED
        BY <3>1, <3>2
    <2>3. CASE /\ Continue("assembler") /\ disk' = [disk EXCEPT !["temporary"] = Partial]
               /\ UNCHANGED <<idx, agg, merged, zones>>
      <3>1. Gathered'
        BY <1>0, <1>3, <2>3, KeepsNothing DEF Assemble
      <3>2. OnDisk'
        BY <1>0, <1>a, <1>b, <2>3, Writes, NothingIsHonest
      <3>. QED
        BY <3>1, <3>2
    <2>. QED
      BY <1>3, <2>1, <2>2, <2>3 DEF Assemble
  <1>4. CASE RunAssembler
    <2>1. Wrote(Image("assembly", NoZones)) /\ Wrote(Absent) /\ pc # "idle"
      BY <1>0, <1>4, ImagesAreHonest, NothingIsHonest DEF RunAssembler
    <2>2. \A p \in Paths : disk'[p] = disk[p] \/ Wrote(disk'[p])
      BY <1>4, <1>c, <2>1 DEF RunAssembler
    <2>. QED
      BY <1>4, <1>e, <2>1, <2>2, EndsHonestly DEF RunAssembler
  <1>5. CASE Setup
    <2>1. /\ pc = "setup" /\ pc' = "frontend" /\ idx' = 1 /\ command' = command
          /\ UNCHANGED <<agg, merged, zones, disk, run, status>>
      BY <1>5 DEF Setup, Continue, command
    <2>2. /\ command.files # <<>> /\ merged = <<>> /\ Summary(agg, merged) /\ status \in 0 .. 255
          /\ SoundFiles(merged, Architect(command))
      BY <1>0, <2>1 DEF Gathered, Nothing
    <2>3. 1 \in DOMAIN command.files /\ SubSeq(command.files, 1, 1 - 1) = <<>>
      <3>1. command.files \in Seq(DOMAIN Sources)
        BY <1>0, <2>1, CommandTyped DEF IInv
      <3>. QED
        BY <2>2, <3>1, EmptySeq
    <2>4. Summary(agg, merged)' /\ SoundFiles(merged, Architect(command))'
      BY <2>1, <2>2 DEF Summary, SoundFiles
    <2>5. Gathered'
      BY <2>1, <2>2, <2>3, <2>4 DEF Gathered, Nothing, Everything
    <2>6. OnDisk'
      BY <1>0, <1>d, <2>1, Writes
    <2>. QED
      BY <2>5, <2>6
  <1>6. CASE ProcessFile
    <2>1. \A f : Strike(f) \in {0, 1, COMPILER_STRIKE_CODE}
      BY DEF Strike
    <2>2. UNCHANGED disk /\ pc = "frontend"
      BY <1>6 DEF ProcessFile
    <2>3. CASE \E code \in {1, COMPILER_STRIKE_CODE} : Exit(code)
      BY <1>d, <1>e, <2>2, <2>3, EndsHonestly
    <2>4. CASE ~\E code \in {1, COMPILER_STRIKE_CODE} : Exit(code)
      <3>. DEFINE f == Sources[command.files[idx]]
                  r == Analyze(f.tree, Architect(command), MaxFileImports)
      <3>1. /\ Strike(f) = 0 /\ ~FrontendFails(f, r) /\ agg' = Merge(agg, r)
            /\ merged' = Append(merged, command.files[idx])
            /\ IF idx < Len(command.files) THEN idx' = idx + 1 /\ Continue("frontend")
                                           ELSE idx' = 0 /\ Continue("generate")
        BY <1>6, <2>1, <2>4 DEF ProcessFile
      <3>2. Gathered'
        BY <2>2, <3>1, FileGathered
      <3>3. OnDisk'
        BY <1>0, <1>a, <1>d, <2>2, <3>1, Writes
      <3>. QED
        BY <3>2, <3>3
    <2>. QED
      BY <2>3, <2>4
  <1>7. CASE Generate
    <2>1. Gathered'
      BY <1>0, <1>7, KeepsAll DEF Generate, Everything
    <2>2. OnDisk'
      BY <1>0, <1>7, <1>a, <1>d, Writes DEF Generate
    <2>. QED
      BY <2>1, <2>2
  <1>8. CASE pc = "emit" /\ (WriteDirectly \/ WriteByGenerator)
    <2>1. Wrote(Image("zones", zones)) /\ Wrote(Partial) /\ Wrote(Absent)
      BY <1>0, <1>8, ImagesAreHonest, NothingIsHonest DEF Everything
    <2>2. /\ Exit(0) \/ Exit(1)
          /\ \E left \in {Image("zones", zones), Partial, Absent} :
                disk' = [disk EXCEPT ![command.to] = left]
      BY <1>8 DEF WriteDirectly, WriteByGenerator, Written, Unlinked
    <2>3. \A p \in Paths : disk'[p] = disk[p] \/ Wrote(disk'[p])
      BY <1>b, <2>1, <2>2
    <2>. QED
      BY <1>8, <1>e, <2>2, <2>3, EndsHonestly
  <1>9. CASE WriteLet
    <2>1. ASSUME NEW full \in Embryos, NEW let \in Cuts(full), Exit(0),
                 disk' = [disk EXCEPT ![command.to] = Embryo(let)]
          PROVE  Gathered' /\ OnDisk'
      <3>1. Wrote(Embryo(let))
        BY <1>0, <1>9, EmbryosAreHonest DEF WriteLet
      <3>. QED
        BY <1>9, <1>b, <1>e, <2>1, <3>1, EndsHonestly DEF WriteLet
    <2>2. CASE disk' = Unlinked(command.to) /\ Exit(1)
      BY <1>9, <1>b, <1>e, <2>2, NothingIsHonest, EndsHonestly DEF WriteLet, Unlinked
    <2>. QED
      BY <1>9, <2>1, <2>2 DEF WriteLet
  <1>10. CASE WriteTemporary
    <2>0. pc = "emit" /\ zones = ZonesOf(merged)
      BY <1>0, <1>10 DEF WriteTemporary, Gathered
    <2>1. ASSUME NEW left, Wrote(left), Continue("wrap"), UNCHANGED <<idx, agg, merged, zones>>,
                 disk' = [disk EXCEPT !["temporary"] = left]
          PROVE  Gathered' /\ OnDisk'
      <3>1. Gathered'
        BY <1>0, <2>0, <2>1, KeepsAll DEF Everything
      <3>2. OnDisk'
        BY <1>0, <1>a, <1>b, <2>1, Writes
      <3>. QED
        BY <3>1, <3>2
    <2>2. CASE disk' = Unlinked(command.to) /\ Exit(1)
      BY <1>b, <1>e, <2>0, <2>2, NothingIsHonest, EndsHonestly DEF Unlinked
    <2>3. \A full \in Embryos : \A let \in Cuts(full) : Wrote(Embryo(let))
      BY <1>0, <2>0, EmbryosAreHonest
    <2>4. \A left \in Written(Image("zones", zones)) : Wrote(left)
      BY <1>0, <2>0, ImagesAreHonest, NothingIsHonest DEF Written, Everything
    <2>. QED
      BY <1>10, <2>1, <2>2, <2>3, <2>4 DEF WriteTemporary
  <1>11. CASE pc = "wrap" /\ (WrapMachO \/ WrapEmbryo)
    <2>1. ASSUME NEW left, left = disk[command.to] \/ Wrote(left), NEW code \in {0, 1}, Exit(code),
                 disk' = WrapTemporary(left)
          PROVE  Gathered' /\ OnDisk'
      <3>1. disk' = [disk EXCEPT ![command.to] = left, !["temporary"] = Absent]
        BY <2>1 DEF WrapTemporary
      <3>2. \A p \in Paths : disk'[p] = disk[p] \/ Wrote(disk'[p])
        BY <1>0, <2>1, <3>1, NothingIsHonest
      <3>. QED
        BY <1>11, <1>e, <2>1, <3>2, EndsHonestly
    <2>2. Wrote(Image("zones", zones)) /\ Wrote(Partial) /\ Wrote(Absent)
      BY <1>0, <1>11, ImagesAreHonest, NothingIsHonest DEF Everything
    <2>3. CASE WrapMachO
      BY <2>1, <2>2, <2>3 DEF WrapMachO, Written
    <2>4. CASE WrapEmbryo
      <3>1. Readable("temporary") /\ Accepted("temporary") => Wrote(WovenBinary("temporary"))
        BY <1>0, <1>11, <2>4, WovenIsHonest DEF WrapEmbryo
      <3>. QED
        BY <2>1, <2>2, <2>4, <3>1 DEF WrapEmbryo, Written
    <2>. QED
      BY <1>11, <2>3, <2>4
  <1>12. CASE Weave
    <2>0. pc # "idle"
      BY <1>12 DEF Weave
    <2>1. ASSUME NEW left, left = disk[command.to] \/ Wrote(left), NEW code \in {0, 1}, Exit(code),
                 disk' = [disk EXCEPT ![command.to] = left]
          PROVE  Gathered' /\ OnDisk'
      BY <1>b, <1>e, <2>0, <2>1, EndsHonestly
    <2>2. CASE /\ Readable("embryo") /\ Accepted("embryo") /\ Exit(0)
               /\ LET image == IF command.format = "BIN" THEN WovenBinary("embryo")
                               ELSE WovenImage("embryo")
                  IN  \E left \in Written(image) : disk' = [disk EXCEPT ![command.to] = left]
      <3>. DEFINE image == IF command.format = "BIN" THEN WovenBinary("embryo")
                           ELSE WovenImage("embryo")
      <3>1. Wrote(image)
        BY <1>0, <2>0, <2>2, WovenIsHonest
      <3>2. PICK left \in Written(image) : disk' = [disk EXCEPT ![command.to] = left]
        BY <2>2
      <3>3. Wrote(left)
        BY <3>1, <3>2, NothingIsHonest DEF Written
      <3>. QED
        BY <2>1, <2>2, <3>2, <3>3
    <2>3. CASE /\ Exit(1)
               /\ \E left \in Broken(command.to) : disk' = [disk EXCEPT ![command.to] = left]
      BY <2>1, <2>3, NothingIsHonest DEF Broken
    <2>4. CASE Exit(1) /\ UNCHANGED disk
      BY <1>d, <1>e, <2>0, <2>4, EndsHonestly
    <2>. QED
      BY <1>12, <2>2, <2>3, <2>4 DEF Weave
  <1>13. CASE UNCHANGED vars
    <2>1. UNCHANGED <<pc, session, run, idx, agg, merged, zones, disk, status>> /\ command' = command
      BY <1>13 DEF vars, command
    <2>2. Summary(agg, merged)' = Summary(agg, merged)
          /\ SoundFiles(merged, Architect(command))' = SoundFiles(merged, Architect(command))
      BY <2>1 DEF Summary, SoundFiles
    <2>3. Gathered'
      BY <1>0, <2>1, <2>2 DEF Gathered
    <2>4. OnDisk'
      BY <1>0, <1>d, <2>1, Writes
    <2>. QED
      BY <2>3, <2>4
  <1>. QED
    BY <1>1, <1>2, <1>3, <1>4, <1>5, <1>6, <1>7, <1>8, <1>9, <1>10, <1>11, <1>12, <1>13
    DEF Next, WrapMachO, WrapEmbryo, WriteDirectly, WriteByGenerator


LEMMA AlwaysGathered == Spec => []CInv
  BY InitGathers, StepGathers, PTL DEF Spec

\* run_compiler is always at one of its steps, its exit status is a byte, and
\* merge_semantic_result never outgrows its table, whatever the files.
THEOREM DriverTypeCorrect == Spec => []TypeOK
  <1>1. CInv => TypeOK
    <2>. SUFFICES ASSUME CInv PROVE TypeOK
      OBVIOUS
    <2>1. session \in Sessions /\ run \in Nat /\ run <= Len(session) /\ (pc # "idle" => run < Len(session))
      BY DEF CInv, IInv, Shape
    <2>2. Len(session) \in Nat
      BY <2>1, SessionsAssumption
    <2>3. run \in 0 .. Len(session)
      BY <2>1, <2>2
    <2>4. Len(agg.imports) <= MaxMergedImports /\ agg.errors = 0
      BY DEF CInv, Gathered, Summary
    <2>5. \A p \in Paths : disk[p].kind \in {"absent", "partial", "let", "image"}
                        /\ (disk[p].kind # "absent" => disk[p].run \in 1 .. run + 1)
      BY DEF CInv, OnDisk, Honest
    <2>. QED
      BY <2>1, <2>3, <2>4, <2>5 DEF TypeOK, CInv, Gathered, Nothing, Everything
  <1>. QED
    BY <1>1, AlwaysGathered, PTL

\* run_compiler with let_weave_to_target: for every set of source files and
\* every session of compilations and weavings, whichever calls fail, nothing
\* that stems from a tree has a source the front end had to refuse.
THEOREM OnlySoundSourcesEverReachTheDisk == Spec => []OnlySoundSourcesReachTheDisk
  <1>1. CInv => OnlySoundSourcesReachTheDisk
    BY DEF CInv, OnDisk, Honest, HonestLet, HonestImage, SoundFiles,
       OnlySoundSourcesReachTheDisk, FromTheFrontEnd, Artefacts
  <1>. QED
    BY <1>1, AlwaysGathered, PTL

\* merge_semantic_result and let_generate_image: the contract of an embryo is
\* the union of what its files need, for any number of files.
THEOREM ContractIsAlwaysTheUnion == Spec => []ContractIsTheUnion
  <1>1. CInv => ContractIsTheUnion
    <2>. SUFFICES ASSUME CInv, NEW p \in Paths, disk[p].kind = "let"
                  PROVE  /\ SipVector(disk[p].let.gene) = PrivilegesOf(disk[p].sources)
                         /\ disk[p].let.gene.identities = ImportsOf(disk[p].sources)
                         /\ disk[p].let.gene.traps = TrapsOf(disk[p].sources)
      BY DEF ContractIsTheUnion
    <2>1. HonestLet(disk[p])
      BY DEF CInv, OnDisk, Honest
    <2>. QED
      BY <2>1, EmbryoTells DEF HonestLet
  <1>. QED
    BY <1>1, AlwaysGathered, PTL

\* parse_let_file and the weavers: whatever was cut off an embryo, an image
\* woven from one holds the compiled zones and privileges, unchanged.
THEOREM WeaversAlwaysGetWhatWasCompiled == Spec => []WeaversGetWhatWasCompiled
  <1>1. CInv => WeaversGetWhatWasCompiled
    BY DEF CInv, OnDisk, Honest, HonestImage, HonestWoven, HonestBinary, WeaversGetWhatWasCompiled
  <1>. QED
    BY <1>1, AlwaysGathered, PTL

-----------------------------------------------------------------------------
(* A command is one step. *)

\* What a running command is, by where it is: the way through the assembler
\* and the way out through a temporary embryo know whose work they carry on.
Underway ==
    /\ pc \notin {"idle", "weave"} => command.kind = "compile"
    /\ pc \in {"assemble", "assembler"} => Assembles(command)
    /\ pc \in {"frontend"} \cup Everything => command.files # <<>>
    /\ pc = "wrap" /\ disk["temporary"].kind = "let" =>
           /\ disk["temporary"].sources = command.files
           /\ disk["temporary"].architect = Architect(command)

AInv == CInv /\ Underway

\* The temporary file is not the caller's.
Visible == {"embryo", "output"}

LEMMA UnderwayInit == Init => Underway
  BY DEF Init, Underway, Everything

\* A command that goes on is the command it was.
LEMMA StaysUnderway ==
    ASSUME Underway, pc # "idle", pc # "weave", NEW next, Continue(next),
           next \in {"assemble", "assembler"} => Assembles(command),
           next \in {"frontend"} \cup Everything => command.files # <<>>,
           next = "wrap" /\ disk'["temporary"].kind = "let" =>
               /\ disk'["temporary"].sources = command.files
               /\ disk'["temporary"].architect = Architect(command)
    PROVE  Underway'
  <1>1. command' = command /\ pc' = next
    BY DEF Continue, command
  <1>2. Assembles(command)' = Assembles(command) /\ Architect(command)' = Architect(command)
    BY <1>1 DEF Assembles, Architect
  <1>. QED
    BY <1>1, <1>2 DEF Underway

LEMMA StepUnderway == AInv /\ [Next]_vars => Underway'
  <1>. SUFFICES ASSUME AInv, [Next]_vars PROVE Underway'
    OBVIOUS
  <1>0. CInv /\ Underway /\ DOMAIN disk = Paths /\ "temporary" \in Paths
    BY DEF AInv, CInv, IInv, Shape, Paths
  <1>a. \A code : Exit(code) => Underway'
    BY DEF Exit, Underway, Everything
  <1>1. CASE Start
    <2>1. command.kind \in {"compile", "weave"}
      BY <1>0, <1>1, SessionsAssumption DEF Start, CInv, IInv, Shape, command, CommandOK
    <2>2. command' = command /\ Assembles(command)' = Assembles(command)
      BY <1>1 DEF Start, command, Assembles
    <2>. QED
      BY <1>1, <2>1, <2>2 DEF Start, Underway, Everything
  <1>2. CASE Fail \/ RunAssembler \/ WriteDirectly \/ WriteByGenerator \/ WriteLet
             \/ WrapMachO \/ WrapEmbryo \/ Weave
    BY <1>2, <1>a DEF Fail, RunAssembler, WriteDirectly, WriteByGenerator, WriteLet,
       WrapMachO, WrapEmbryo, Weave
  <1>3. CASE Assemble
    BY <1>0, <1>3, <1>a, StaysUnderway DEF Assemble, Underway, Everything
  <1>4. CASE Setup
    <2>1. command.files # <<>>
      BY <1>0, <1>4 DEF Setup, CInv, Gathered
    <2>. QED
      BY <1>0, <1>4, <2>1, StaysUnderway DEF Setup, Everything
  <1>5. CASE ProcessFile
    <2>1. Continue("frontend") \/ Continue("generate") \/ \E code : Exit(code)
      BY <1>5 DEF ProcessFile
    <2>2. pc = "frontend" /\ command.files # <<>>
      BY <1>0, <1>5 DEF ProcessFile, Underway
    <2>. QED
      BY <1>0, <1>a, <2>1, <2>2, StaysUnderway
  <1>6. CASE Generate
    <2>1. pc = "generate" /\ command.files # <<>> /\ Continue("emit")
      BY <1>0, <1>6 DEF Generate, Underway, Everything
    <2>. QED
      BY <1>0, <2>1, StaysUnderway
  <1>7. CASE WriteTemporary
    <2>1. pc = "emit" /\ command.files # <<>>
      BY <1>0, <1>7 DEF WriteTemporary, Underway, Everything
    <2>2. CASE \E let : Continue("wrap") /\ disk' = [disk EXCEPT !["temporary"] = Embryo(let)]
      <3>1. PICK let : Continue("wrap") /\ disk' = [disk EXCEPT !["temporary"] = Embryo(let)]
        BY <2>2
      <3>2. disk'["temporary"] = Embryo(let)
        BY <1>0, <3>1
      <3>. QED
        BY <1>0, <2>1, <3>1, <3>2, StaysUnderway DEF Embryo
    <2>3. CASE /\ Continue("wrap")
               /\ \E left \in Written(Image("zones", zones)) :
                     disk' = [disk EXCEPT !["temporary"] = left]
      <3>1. PICK left \in Written(Image("zones", zones)) :
              disk' = [disk EXCEPT !["temporary"] = left]
        BY <2>3
      <3>2. disk'["temporary"].kind # "let"
        BY <1>0, <3>1 DEF Written, Image, Partial
      <3>. QED
        BY <1>0, <2>1, <2>3, <3>2, StaysUnderway
    <2>. QED
      BY <1>7, <1>a, <2>2, <2>3 DEF WriteTemporary
  <1>8. CASE UNCHANGED vars
    BY <1>0, <1>8 DEF vars, Underway, command, Assembles, Architect
  <1>. QED
    BY <1>1, <1>2, <1>3, <1>4, <1>5, <1>6, <1>7, <1>8 DEF Next

LEMMA AlwaysUnderway == Spec => []AInv
  <1>1. Init => AInv
    BY InitGathers, UnderwayInit DEF AInv
  <1>2. AInv /\ [Next]_vars => AInv'
    BY StepGathers, StepUnderway DEF AInv
  <1>. QED
    BY <1>1, <1>2, PTL DEF Spec

-----------------------------------------------------------------------------

\* The abstract command, its mode and what it leaves are the driver's.
LEMMA OutsideNames ==
    ASSUME CInv, pc # "idle"
    PROVE  /\ Outside!command = command /\ Outside!mode = Architect(command)
           /\ Outside!Partial = Seen(Partial) /\ Outside!Absent = Seen(Absent)
           /\ command.to \in Visible
           /\ run < Len(session)
  <1>1. command.to \in Visible
    BY CommandTyped DEF CInv, IInv, CommandOK, Visible
  <1>. QED
    BY <1>1 DEF CInv, IInv, Shape, Outside!command, command, Outside!mode, Architect, Outside!Partial, Partial,
       Outside!Absent, Absent, Seen

\* A step inside a command is not seen.
LEMMA Unseen ==
    ASSUME UNCHANGED <<session, run, status>>, \A p \in Visible : disk'[p] = disk[p]
    PROVE  UNCHANGED Outside!vars
  <1>1. \A p \in Visible : Seen(disk'[p]) = Seen(disk[p])
    OBVIOUS
  <1>2. [p \in {"embryo", "output"} |-> Seen(disk[p])]' = [p \in {"embryo", "output"} |-> Seen(disk[p])]
    BY <1>1 DEF Visible, Seen
  <1>. QED
    BY <1>2 DEF Outside!vars

\* The end of a command changes its output and no other file.
LEMMA SeenToLeave ==
    ASSUME CInv, pc # "idle", NEW code, Exit(code), NEW left, NEW outcomes,
           disk'[command.to] = left, Seen(left) \in outcomes,
           \A p \in Visible \ {command.to} : disk'[p] = disk[p]
    PROVE  Outside!Leaves(outcomes)
  <1>. DEFINE seen == [p \in {"embryo", "output"} |-> Seen(disk[p])]
  <1>1. /\ Outside!command = command /\ command.to \in Visible /\ run < Len(session)
    BY OutsideNames
  <1>2. seen' = [p \in Visible |-> Seen(disk'[p])]
    BY DEF Visible, Seen
  <1>3. seen' = [seen EXCEPT ![command.to] = Seen(left)]
    <2>1. ASSUME NEW p \in Visible
          PROVE  Seen(disk'[p]) = [seen EXCEPT ![command.to] = Seen(left)][p]
      BY <1>1, <2>1 DEF Visible
    <2>. QED
      BY <1>2, <2>1 DEF Visible
  <1>4. seen' = [seen EXCEPT ![Outside!command.to] = Seen(left)]
    BY <1>1, <1>3
  <1>5. run' = run + 1 /\ session' = session
    BY DEF Exit
  <1>. QED
    BY <1>1, <1>4, <1>5 DEF Outside!Leaves

\* A failure leaves the output, removes it, or leaves a part of it where the
\* caller has been warned.
LEMMA SeenToFail ==
    ASSUME CInv, pc # "idle", NEW code \in {1, COMPILER_STRIKE_CODE}, Exit(code),
           disk'[command.to] \in
               {disk[command.to], IF Cleans(command) THEN Absent ELSE Partial},
           \A p \in Visible \ {command.to} : disk'[p] = disk[p]
    PROVE  Outside!Fail
  <1>1. /\ Outside!command = command /\ command.to \in Visible
        /\ Outside!Partial = Seen(Partial) /\ Outside!Absent = Seen(Absent)
    BY OutsideNames
  <1>2. status' \in 1 .. 255
    BY DEF Exit, COMPILER_STRIKE_CODE
  <1>. DEFINE seen == [p \in {"embryo", "output"} |-> Seen(disk[p])]
              outcomes == {seen[Outside!command.to],
                           IF Outside!command.kind = "compile" /\ Outside!command.format \notin {"AETB", "EXE"}
                           THEN Outside!Absent ELSE Outside!Partial}
  <1>3. Seen(disk'[command.to]) \in outcomes
    BY <1>1 DEF Visible, Cleans
  <1>4. Outside!Leaves(outcomes)
    BY <1>3, SeenToLeave
  <1>. QED
    BY <1>2, <1>4 DEF Outside!Fail

\* A success of the ways through the front end.
LEMMA SeenToCompile ==
    ASSUME AInv, pc \in Everything, Exit(0), NEW left,
           disk'[command.to] = left,
           \A p \in Visible \ {command.to} : disk'[p] = disk[p],
           IF command.format = "LET" THEN \E let : left = Embryo(let)
           ELSE \/ left = Partial
                \/ /\ left.kind = "image" /\ left.form # "assembly" /\ left.run = run + 1
                   /\ left.sources = command.files /\ left.architect = Architect(command)
    PROVE  Outside!Compile
  <1>0. CInv /\ Underway /\ pc # "idle" /\ pc # "weave"
    BY DEF AInv, Everything
  <1>1. /\ Outside!command = command /\ Outside!mode = Architect(command)
        /\ Outside!Partial = Seen(Partial)
    BY <1>0, OutsideNames
  <1>2. command.kind = "compile" /\ command.files # <<>>
    BY <1>0 DEF Underway
  <1>. DEFINE sound == {s \in (DOMAIN Sources) \X BOOLEAN : SoundFile(Sources[s[1]], s[2])}
  <1>3. ASSUME NEW k \in DOMAIN command.files
        PROVE  <<command.files[k], Architect(command)>> \in sound
    <2>1. command.files \in Seq(DOMAIN Sources) /\ Architect(command) \in BOOLEAN
      BY <1>0, CommandTyped DEF CInv, IInv
    <2>2. SoundFiles(command.files, Architect(command))
      BY <1>0 DEF CInv, Gathered
    <2>3. command.files[k] \in DOMAIN Sources
      BY <2>1
    <2>. QED
      BY <2>1, <2>2, <2>3 DEF SoundFiles
  <1>. DEFINE outcomes == IF Outside!command.format = "LET"
                          THEN {Outside!Artefact("let", Outside!command.files, Outside!mode)}
                          ELSE {Outside!Artefact("image", Outside!command.files, Outside!mode), Outside!Partial}
  <1>4. Seen(left) \in outcomes
    <2>1. CASE command.format = "LET"
      BY <1>1, <2>1 DEF Embryo, Seen, Outside!Artefact
    <2>2. CASE command.format # "LET" /\ left = Partial
      BY <1>1, <2>2
    <2>3. CASE command.format # "LET" /\ left # Partial
      BY <1>1, <2>3 DEF Seen, Outside!Artefact
    <2>. QED
      BY <2>1, <2>2, <2>3
  <1>5. Outside!Leaves(outcomes)
    BY <1>0, <1>4, SeenToLeave
  <1>6. status' = 0
    BY DEF Exit
  <1>. QED
    BY <1>1, <1>2, <1>3, <1>5, <1>6 DEF Outside!Compile

\* Each step of the driver is a step of the abstract command, or unseen.
LEMMA StepSeen == AInv /\ [Next]_vars => [Outside!Next]_(Outside!vars)
  <1>. SUFFICES ASSUME AInv, [Next]_vars PROVE [Outside!Next]_(Outside!vars)
    OBVIOUS
  <1>0. CInv /\ Underway /\ DOMAIN disk = Paths /\ Visible \subseteq Paths /\ "temporary" \notin Visible
    BY DEF AInv, CInv, IInv, Shape, Paths, Visible
  <1>a. pc # "idle" => command.to \in Visible /\ run < Len(session)
    BY <1>0, OutsideNames
  <1>b. ASSUME NEW next, Continue(next), \A p \in Visible : disk'[p] = disk[p]
        PROVE  UNCHANGED Outside!vars
    BY <1>b, Unseen DEF Continue
  <1>c. ASSUME pc # "idle", NEW code \in {1, COMPILER_STRIKE_CODE}, Exit(code), UNCHANGED disk
        PROVE  Outside!Fail
    BY <1>0, <1>c, SeenToFail
  <1>d. ASSUME NEW left, pc # "idle",
               \/ disk' = [disk EXCEPT ![command.to] = left]
               \/ disk' = [disk EXCEPT !["temporary"] = Absent, ![command.to] = left]
               \/ disk' = WrapTemporary(left)
        PROVE  disk'[command.to] = left /\ \A p \in Visible \ {command.to} : disk'[p] = disk[p]
    BY <1>0, <1>a, <1>d DEF WrapTemporary
  <1>e. \A form, payload : /\ Image(form, payload).kind = "image" /\ Image(form, payload).form = form
                           /\ Image(form, payload).run = run + 1
                           /\ Image(form, payload).sources = command.files
                           /\ Image(form, payload).architect = Architect(command)
    BY DEF Image
  <1>1. CASE Start
    BY <1>1, Unseen DEF Start
  <1>2. CASE Fail
    BY <1>2, <1>c DEF Fail, Outside!Next
  <1>3. CASE Assemble
    <2>1. CASE Exit(1) /\ UNCHANGED disk
      BY <1>3, <1>c, <2>1 DEF Assemble, Outside!Next
    <2>2. CASE \E next : Continue(next) /\ UNCHANGED disk
      BY <1>b, <2>2
    <2>3. CASE Continue("assembler") /\ disk' = [disk EXCEPT !["temporary"] = Partial]
      BY <1>0, <1>b, <2>3
    <2>. QED
      BY <1>3, <2>1, <2>2, <2>3 DEF Assemble
  <1>4. CASE RunAssembler
    <2>1. /\ pc = "assembler" /\ Assembles(command) /\ command.kind = "compile"
          /\ command.format = "BIN"
      BY <1>0, <1>4 DEF RunAssembler, Underway, Assembles
    <2>2. CASE /\ Exit(0)
               /\ disk' = [disk EXCEPT !["temporary"] = Absent,
                                       ![command.to] = Image("assembly", NoZones)]
      <3>. DEFINE left == Image("assembly", NoZones)
      <3>1. disk'[command.to] = left /\ \A p \in Visible \ {command.to} : disk'[p] = disk[p]
        BY <1>d, <2>1, <2>2
      <3>2. Outside!command = command /\ Outside!mode = Architect(command)
        BY <1>0, <2>1, OutsideNames
      <3>3. Seen(left) \in {Outside!Artefact("assembly", Outside!command.files, Outside!mode)}
        BY <3>2 DEF Image, Seen, Outside!Artefact
      <3>4. Outside!Leaves({Outside!Artefact("assembly", Outside!command.files, Outside!mode)})
        BY <1>0, <2>1, <2>2, <3>1, <3>3, SeenToLeave
      <3>5. status' = 0
        BY <2>2 DEF Exit
      <3>. QED
        BY <2>1, <3>2, <3>4, <3>5 DEF Outside!Assemble, Outside!Next, Assembles
    <2>3. ASSUME NEW left \in {Absent, disk[command.to]}, Exit(1),
                 disk' = [disk EXCEPT !["temporary"] = Absent, ![command.to] = left]
          PROVE  Outside!Next
      <3>1. disk'[command.to] = left /\ \A p \in Visible \ {command.to} : disk'[p] = disk[p]
        BY <1>d, <2>1, <2>3
      <3>. QED
        BY <1>0, <2>1, <2>3, <3>1, SeenToFail DEF Cleans, Outside!Next
    <2>. QED
      BY <1>4, <2>2, <2>3 DEF RunAssembler
  <1>5. CASE Setup \/ Generate
    BY <1>5, <1>b DEF Setup, Generate
  <1>6. CASE ProcessFile
    <2>1. \A f : Strike(f) \in {0, 1, COMPILER_STRIKE_CODE}
      BY DEF Strike
    <2>2. UNCHANGED disk /\ pc # "idle"
      BY <1>6 DEF ProcessFile
    <2>3. \/ \E code \in {1, COMPILER_STRIKE_CODE} : Exit(code)
          \/ Continue("frontend") \/ Continue("generate")
      BY <1>6, <2>1 DEF ProcessFile
    <2>. QED
      BY <1>b, <1>c, <2>2, <2>3 DEF Outside!Next
  <1>7. CASE pc = "emit" /\ (WriteDirectly \/ WriteByGenerator)
    <2>0. command.kind = "compile" /\ command.format # "LET"
      BY <1>0, <1>7 DEF Underway, WriteDirectly, WriteByGenerator, Generated
    <2>1. ASSUME NEW left \in Written(Image("zones", zones)), Exit(0),
                 disk' = [disk EXCEPT ![command.to] = left]
          PROVE  Outside!Next
      <3>1. disk'[command.to] = left /\ \A p \in Visible \ {command.to} : disk'[p] = disk[p]
        BY <1>7, <1>d, <2>1
      <3>2. Outside!Compile
        BY <1>7, <1>e, <2>0, <2>1, <3>1, SeenToCompile DEF Written, Everything
      <3>. QED
        BY <3>2 DEF Outside!Next
    <2>2. ASSUME NEW left, left = IF Cleans(command) THEN Absent ELSE Partial, Exit(1),
                 disk' = [disk EXCEPT ![command.to] = left]
          PROVE  Outside!Next
      <3>1. disk'[command.to] = left /\ \A p \in Visible \ {command.to} : disk'[p] = disk[p]
        BY <1>7, <1>d, <2>2
      <3>. QED
        BY <1>0, <1>7, <2>2, <3>1, SeenToFail DEF Outside!Next
    <2>3. WriteDirectly => ~Cleans(command)
      BY DEF WriteDirectly, Cleans
    <2>4. WriteByGenerator => Cleans(command)
      BY <2>0 DEF WriteByGenerator, Cleans, Generated
    <2>. QED
      BY <1>7, <2>1, <2>2, <2>3, <2>4 DEF WriteDirectly, WriteByGenerator, Unlinked
  <1>8. CASE WriteLet
    <2>0. pc = "emit" /\ command.kind = "compile" /\ command.format = "LET"
      BY <1>0, <1>8 DEF Underway, WriteLet
    <2>1. ASSUME NEW let, Exit(0), disk' = [disk EXCEPT ![command.to] = Embryo(let)]
          PROVE  Outside!Next
      <3>1. disk'[command.to] = Embryo(let) /\ \A p \in Visible \ {command.to} : disk'[p] = disk[p]
        BY <1>d, <2>0, <2>1
      <3>2. Outside!Compile
        BY <2>0, <2>1, <3>1, SeenToCompile DEF Everything
      <3>. QED
        BY <3>2 DEF Outside!Next
    <2>2. CASE disk' = Unlinked(command.to) /\ Exit(1)
      <3>1. disk'[command.to] = Absent /\ \A p \in Visible \ {command.to} : disk'[p] = disk[p]
        BY <1>d, <2>0, <2>2 DEF Unlinked
      <3>. QED
        BY <1>0, <2>0, <2>2, <3>1, SeenToFail DEF Cleans, Outside!Next
    <2>. QED
      BY <1>8, <2>1, <2>2 DEF WriteLet
  <1>9. CASE WriteTemporary
    <2>0. pc = "emit" /\ command.kind = "compile" /\ command.format \in {"BIN", "IM4P"}
      BY <1>0, <1>9 DEF Underway, WriteTemporary
    <2>1. ASSUME NEW left, Continue("wrap"), disk' = [disk EXCEPT !["temporary"] = left]
          PROVE  UNCHANGED Outside!vars
      BY <1>0, <1>b, <2>1
    <2>2. CASE disk' = Unlinked(command.to) /\ Exit(1)
      <3>1. disk'[command.to] = Absent /\ \A p \in Visible \ {command.to} : disk'[p] = disk[p]
        BY <1>d, <2>0, <2>2 DEF Unlinked
      <3>. QED
        BY <1>0, <2>0, <2>2, <3>1, SeenToFail DEF Cleans, Outside!Next
    <2>. QED
      BY <1>9, <2>1, <2>2 DEF WriteTemporary
  <1>10. CASE pc = "wrap" /\ (WrapMachO \/ WrapEmbryo)
    <2>0. command.kind = "compile" /\ command.format \in {"BIN", "IM4P"}
      BY <1>0, <1>10 DEF Underway, WrapMachO, WrapEmbryo
    <2>1. ASSUME NEW left, Exit(0), disk' = WrapTemporary(left),
                 \/ left = Partial
                 \/ /\ left.kind = "image" /\ left.form # "assembly" /\ left.run = run + 1
                    /\ left.sources = command.files /\ left.architect = Architect(command)
          PROVE  Outside!Next
      <3>1. disk'[command.to] = left /\ \A p \in Visible \ {command.to} : disk'[p] = disk[p]
        BY <1>10, <1>d, <2>1
      <3>2. Outside!Compile
        BY <1>10, <2>0, <2>1, <3>1, SeenToCompile DEF Everything
      <3>. QED
        BY <3>2 DEF Outside!Next
    <2>2. ASSUME NEW left \in {Absent, disk[command.to]}, Exit(1), disk' = WrapTemporary(left)
          PROVE  Outside!Next
      <3>1. disk'[command.to] = left /\ \A p \in Visible \ {command.to} : disk'[p] = disk[p]
        BY <1>10, <1>d, <2>2
      <3>. QED
        BY <1>0, <1>10, <2>0, <2>2, <3>1, SeenToFail DEF Cleans, Outside!Next
    <2>3. CASE WrapMachO
      BY <1>e, <2>1, <2>2, <2>3 DEF WrapMachO, Written
    <2>4. CASE WrapEmbryo
      <3>. DEFINE image == WovenBinary("temporary")
      <3>1. Readable("temporary") =>
              /\ image.kind = "image" /\ image.form # "assembly" /\ image.run = run + 1
              /\ image.sources = command.files /\ image.architect = Architect(command)
        BY <1>0, <1>10 DEF Readable, WovenBinary, OfEmbryo, Image, Underway
      <3>. QED
        BY <2>1, <2>2, <2>4, <3>1 DEF WrapEmbryo, Written
    <2>. QED
      BY <1>10, <2>3, <2>4
  <1>11. CASE Weave
    <2>0. pc = "weave" /\ command.kind = "weave"
      BY <1>0, <1>11 DEF Weave, CInv, IInv, Shape
    <2>1. ASSUME NEW image, Readable("embryo"), Exit(0), NEW left \in Written(image),
                 disk' = [disk EXCEPT ![command.to] = left],
                 /\ image.kind = "image" /\ image.form # "assembly" /\ image.run = run + 1
                 /\ image.sources = disk["embryo"].sources
                 /\ image.architect = disk["embryo"].architect
          PROVE  Outside!Next
      <3>. DEFINE seen == [p \in {"embryo", "output"} |-> Seen(disk[p])]
                  outcomes == {Outside!Artefact("image", seen["embryo"].sources, seen["embryo"].architect),
                               Outside!Partial}
      <3>1. disk'[command.to] = left /\ \A p \in Visible \ {command.to} : disk'[p] = disk[p]
        BY <1>d, <2>0, <2>1
      <3>2. Outside!command = command /\ Outside!Partial = Seen(Partial)
        BY <1>0, <2>0, OutsideNames
      <3>3. disk["embryo"].kind = "let"
        BY <2>1 DEF Readable
      <3>4. /\ seen["embryo"].kind = "let" /\ seen["embryo"].sources = disk["embryo"].sources
            /\ seen["embryo"].architect = disk["embryo"].architect
        BY <3>3 DEF Seen
      <3>5. Seen(left) \in outcomes
        BY <2>1, <3>2, <3>4 DEF Written, Seen, Outside!Artefact
      <3>6. Outside!Leaves(outcomes)
        BY <1>0, <2>0, <2>1, <3>1, <3>5, SeenToLeave
      <3>7. status' = 0
        BY <2>1 DEF Exit
      <3>. QED
        BY <2>0, <3>2, <3>4, <3>6, <3>7 DEF Outside!Weave, Outside!Next
    <2>2. ASSUME NEW left \in Broken(command.to), Exit(1), disk' = [disk EXCEPT ![command.to] = left]
          PROVE  Outside!Next
      <3>1. disk'[command.to] = left /\ \A p \in Visible \ {command.to} : disk'[p] = disk[p]
        BY <1>d, <2>0, <2>2
      <3>. QED
        BY <1>0, <2>0, <2>2, <3>1, SeenToFail DEF Broken, Cleans, Outside!Next
    <2>3. CASE Exit(1) /\ UNCHANGED disk
      BY <1>c, <2>0, <2>3 DEF Outside!Next
    <2>4. \A image \in {WovenBinary("embryo"), WovenImage("embryo")} :
             /\ image.kind = "image" /\ image.form # "assembly" /\ image.run = run + 1
             /\ image.sources = disk["embryo"].sources
             /\ image.architect = disk["embryo"].architect
      BY DEF WovenBinary, WovenImage, OfEmbryo, Image
    <2>. QED
      BY <1>11, <2>1, <2>2, <2>3, <2>4 DEF Weave
  <1>12. CASE UNCHANGED vars
    BY <1>12, Unseen DEF vars
  <1>. QED
    BY <1>1, <1>2, <1>3, <1>4, <1>5, <1>6, <1>7, <1>8, <1>9, <1>10, <1>11, <1>12
    DEF Next, WriteDirectly, WriteByGenerator, WrapMachO, WrapEmbryo

\* run_compiler, whatever it does in between and wherever it fails: for every
\* set of source files and every session each command is one step of the
\* abstract toolchain, seen from outside.
THEOREM CommandsAreAlwaysAtomic == Spec => CommandsAreAtomic
  <1>1. Init => Outside!Init
    <2>. SUFFICES ASSUME Init PROVE Outside!Init
      OBVIOUS
    <2>1. \A p \in {"embryo", "output"} : Seen(disk[p]) = Outside!Absent
      BY DEF Init, Paths, Seen, Absent, Outside!Absent
    <2>. QED
      BY <2>1 DEF Init, Outside!Init, Outside!Files
  <1>2. AInv /\ [Next]_vars => [Outside!Next]_(Outside!vars)
    BY StepSeen
  <1>. QED
    BY <1>1, <1>2, AlwaysUnderway, PTL DEF Spec, CommandsAreAtomic, Outside!Spec
=============================================================================
