---------------------------- MODULE MCCodegenX64 ----------------------------
(* Programs for CodegenX64: one for each thing the passes must agree on.   *)
EXTENDS CodegenX64Correct

Lit(v) == [k |-> "lit", v |-> v]
Id(x) == [k |-> "id", x |-> x]
Bin(l, op, r) == [k |-> "bin", op |-> op, l |-> l, r |-> r]
Call(f, args) == [k |-> "call", f |-> f, args |-> args]
Unary(op, e) == [k |-> "unary", op |-> op, e |-> e]
As(e, t) == [k |-> "cast", e |-> e, t |-> t]
Item(o, i) == [k |-> "index", o |-> o, i |-> i]
Dot(o, f) == [k |-> "field", o |-> o, f |-> f]
Ref(e) == [k |-> "ref", e |-> e]

IntOf(n) == [k |-> "int", n |-> n]
U8 == IntOf(1)
U16 == IntOf(2)
U32 == IntOf(4)
U64 == IntOf(8)
Ptr(t) == [k |-> "ptr", of |-> t]
Array(n, t) == [k |-> "array", len |-> n, of |-> t]
St(x) == [k |-> "struct", name |-> x]

Return(e) == [k |-> "ret", e |-> e]
Expr(e) == [k |-> "expr", e |-> e]
Typed(x, t, init) == [k |-> "var", x |-> x, type |-> t, init |-> init]
Var(x, init) == Typed(x, NoType, init)
Room(x, t) == Typed(x, t, [k |-> "none"])
Wide(x, init) == Typed(x, Array(3, U64), init)
Let(x, e) == [k |-> "set", x |-> x, e |-> e]
PutAt(to, e) == [k |-> "put", to |-> to, e |-> e]
If(c, t, e) == [k |-> "if", c |-> c, t |-> t, e |-> e]
While(c, b) == [k |-> "while", c |-> c, b |-> b]
Break == [k |-> "break"]
Block(k, ss) == [k |-> k, ss |-> ss]

Gate(g, name, params, body) ==
  [k |-> "func", name |-> name, params |-> params, types |-> [i \in DOMAIN params |-> NoType],
   gate |-> g, body |-> body, entry |-> FALSE]
Func(name, params, body) == Gate("none", name, params, body)
Taking(ts, f) == [f EXCEPT !.types = ts]
Entry(f) == [f EXCEPT !.entry = TRUE]
Silent(ss) == [k |-> "silent", ss |-> ss]
GlobalAs(x, t) == [k |-> "global", name |-> x, type |-> t, hasInit |-> FALSE, init |-> 0]
Global(x) == GlobalAs(x, U64)
Const(x, v) == [Global(x) EXCEPT !.hasInit = TRUE, !.init = v]
Extern(f) == [k |-> "extern", name |-> f]
Struct(x, packed, fields) ==
  [k |-> "struct", name |-> x, packed |-> packed,
   fields |-> [i \in DOMAIN fields |-> [name |-> fields[i][1], type |-> fields[i][2]]]]

(* Calls inside arguments and operands, with no, one and two stack         *)
(* arguments, and a function used before it is emitted.                    *)
Sum(xs) == Bin(Bin(Id(xs[1]), "+", Id(xs[2])), "-", Id(xs[3]))
Calls == <<
  Global("total"), Const("limit", 3),
  Func("twice", <<"a">>, << Return(Call("three", << Id("a"), Id("a"), Lit(0) >>)) >>),
  Func("three", <<"a", "b", "c">>, << Let("total", Bin(Id("total"), "+", Lit(1))),
                                      Return(Sum(<<"a", "b", "c">>)) >>),
  Func("four", <<"a", "b", "c", "d">>,
       << Return(Bin(Sum(<<"a", "b", "c">>), "+", Bin(Id("d"), "+", Id("d")))) >>),
  Entry(Func("main", << >>, <<
    Var("x", Call("three", << Lit(5), Call("three", << Lit(4), Lit(2), Id("limit") >>), Lit(2) >>)),
    Var("y", Bin(Id("x"), "+", Call("four", << Lit(1), Id("x"), Lit(3), Id("total") >>))),
    Return(Bin(Call("twice", << Id("y") >>), "-", Id("total"))) >>)) >>

(* Loops in loops, a break in the inner one and a break after it, and      *)
(* locals of several sizes declared in both branches of an if.             *)
Loops == <<
  Func("leave", << >>, <<
    While(Lit(1), << While(Lit(1), << Break >>), Break >>), Return(Lit(1)) >>),
  Func("main", << >>, <<
    Var("i", Lit(0)), Var("n", Lit(0)),
    While(Bin(Id("i"), "<", Lit(5)), <<
      Var("j", Lit(0)),
      While(Lit(1), <<
        If(Bin(Id("j"), "==", Id("i")), << Break >>, << Wide("d", Lit(2)),
           Let("n", Bin(Id("n"), "+", Id("d"))) >>),
        Let("j", Bin(Id("j"), "+", Lit(1))) >>),
      If(Bin(Id("i"), "==", Lit(3)), << Var("e", Id("n")), Let("n", Bin(Id("e"), "+", Lit(7))) >>,
         << Expr(Id("n")) >>),
      Let("i", Bin(Id("i"), "+", Lit(1))) >>),
    Return(Bin(Id("n"), "+", Call("leave", << >>))) >>) >>

(* Recursion, and a function some paths of which have no return.           *)
Paths == <<
  Global("seen"),
  Func("fib", <<"n">>, <<
    If(Bin(Id("n"), "<", Lit(2)), << Return(Id("n")) >>, << >>),
    Return(Bin(Call("fib", << Bin(Id("n"), "-", Lit(1)) >>), "+",
               Call("fib", << Bin(Id("n"), "-", Lit(2)) >>))) >>),
  Func("mark", <<"n">>, << If(Bin(Lit(2), "<", Id("n")), << Return(Lit(1)) >>, << >>),
                           Let("seen", Bin(Id("seen"), "+", Lit(1))) >>),
  Func("main", << >>, << Return(Bin(Call("fib", << Lit(4) >>), "+",
      Bin(Call("mark", << Lit(1) >>), "+", Call("mark", << Lit(3) >>)))) >>) >>

(* An interrupt handler that falls off its end, after other gates.         *)
Handler == <<
  Global("ticks"), Global("late"),
  Gate("syscall", "enter", << >>, << Let("late", Lit(1)) >>),
  Gate("naked", "stub", <<"a">>, << Expr(Id("a")) >>),
  Func("add", <<"a", "b">>, << Return(Bin(Id("a"), "+", Id("b"))) >>),
  Entry(Gate("interrupt", "tick", << >>, <<
    Let("ticks", Call("add", << Id("ticks"), Lit(1) >>)),
    If(Bin(Lit(0), "<", Id("ticks")), << Let("late", Call("add", << Id("ticks"), Lit(4) >>)) >>, << >>) >>)) >>

(* Locals and assignments in a hardware block, a break outside any loop, a *)
(* statement that emits nothing, an extern function, and a call of it that *)
(* is not executed.  It is a ROM, entered at rom/entry.                    *)
Hardware == <<
  Extern("host"), Global("port"),
  Func("unused", << >>, << Return(Call("host", << Lit(1) >>)) >>),
  Func("main", <<"a", "a">>, <<
    Block("hardware", << Var("p", Lit(6)), Let("port", Bin(Id("p"), "&&", Lit(2))) >>),
    Block("block", << Var("q", Bin(Id("p"), "-", Id("port"))), Let("p", Id("q")) >>),
    Silent(<< Var("z", Lit(1)) >>),
    If(Bin(Id("p"), "==", Lit(0)), << Return(Lit(9)) >>, << >>),
    Return(Bin(Id("p"), "+", Call("inner", << Id("q"), Lit(1), Lit(1) >>))) >>),
  Func("inner", <<"a", "b", "c">>, << Var("s", Sum(<<"c", "b", "a">>)), Return(Id("s")) >>),
  Func("rom/entry", << >>, << Return(Call("main", << Lit(3), Lit(4) >>)) >>) >>

(* A frameless function declares a local with the name of a parameter.     *)
Rejected == << Gate("naked", "stub", <<"a">>, << Var("a", Lit(1)) >>),
               Func("main", << >>, << Return(Lit(0)) >>) >>

(* An EXE: functions reached through an argument, a local's initialiser, a *)
(* silent statement and a name that is not called; a gate nothing reaches; *)
(* a dead function that calls another, and the second of two of one name.  *)
Dropped == <<
  Global("seen"), Extern("host"), Global("spare"), Global("seen"),
  Func("dead", <<"a">>, << Return(Call("deader", << Id("a") >>)) >>),
  Func("deader", <<"a">>, << Return(Id("a")) >>),
  Func("callback", << >>, << Let("seen", Lit(2)), Expr(Call("host", << >>)) >>),
  Gate("syscall", "enter", << >>, << Expr(Call("rare", << >>)) >>),
  Entry(Func("main", << >>, <<
    Var("x", Call("id", << Call("bump", << >>) >>)),
    If(Id("callback"), << Let("spare", Bin(Id("x"), "+", Id("seen"))) >>, << >>),
    Silent(<< Expr(Call("never", << >>)) >>),
    Return(Bin(Id("spare"), "+", Id("x"))) >>)),
  Func("id", <<"a">>, << Return(Id("a")) >>),
  Func("bump", << >>, << Let("seen", Bin(Id("seen"), "+", Lit(3))), Return(Id("seen")) >>),
  Func("rare", << >>, << Return(Lit(1)) >>),
  Func("never", << >>, << Return(Lit(1)) >>),
  Func("id", <<"a">>, << Return(Call("dead", << Id("a") >>)) >>) >>

(* An EXE without an entry, and a kernel that names none: it starts at its *)
(* first function.                                                         *)
Headless == << Func("main", << >>, << Return(Lit(1)) >>) >>
FirstStarts == << Func("boot", << >>, << Return(Call("late", << >>)) >>),
                  Func("late", << >>, << Return(Lit(5)) >>) >>

(* Structures: narrow fields around a pointer, a packed one with an array, *)
(* both inside a third; a list followed through its links, a structure     *)
(* passed by its address, one reached by a cast, and initialisers.         *)
Structures == <<
  Struct("Node", FALSE, << <<"tag", U8>>, <<"link", Ptr(St("Node"))>>, <<"count", U16>> >>),
  Struct("Wire", TRUE, << <<"op", U8>>, <<"len", U16>>, <<"data", Array(2, U8)>>, <<"tail", U64>> >>),
  Struct("Box", FALSE, << <<"head", U8>>, <<"node", St("Node")>>, <<"wire", St("Wire")>>,
                          <<"last", U32>> >>),
  Global("sum"),
  Taking(<<Ptr(St("Node")), U64>>, Func("add", <<"p", "n">>, <<
    PutAt(Dot(Id("p"), "count"), Bin(Dot(Id("p"), "count"), "+", Id("n"))),
    PutAt(Dot(Id("p"), "tag"), Bin(Dot(Id("p"), "tag"), "*", Lit(3))),
    Return(Dot(Id("p"), "count")) >>)),
  Taking(<<Ptr(St("Node"))>>, Func("walk", <<"p">>, <<
    While(Id("p"), << Let("sum", Bin(Id("sum"), "+", Dot(Id("p"), "count"))),
                      Let("p", Dot(Id("p"), "link")) >>) >>)),
  Entry(Func("main", << >>, <<
    Var("b", Call("Node", << Id("count"), Lit(9), Id("link"), Lit(0), Id("tag"), Lit(6) >>)),
    Var("a", Call("Node", << Id("tag"), Lit(1), Id("count"), Lit(21), Id("link"), Ref(Id("b")) >>)),
    Room("box", St("Box")), Room("w", St("Wire")),
    PutAt(Dot(Id("box"), "head"), Lit(3)),
    PutAt(Dot(Dot(Id("box"), "node"), "link"), Ref(Id("a"))),
    PutAt(Dot(Dot(Id("box"), "node"), "tag"), Lit(2)),
    PutAt(Dot(Dot(Id("box"), "node"), "count"), Lit(4)),
    PutAt(Dot(Dot(Id("box"), "wire"), "tail"), Lit(-1)),
    PutAt(Dot(Dot(Id("box"), "wire"), "len"), Lit(14)),
    PutAt(Dot(Id("box"), "last"), Lit(300)),
    PutAt(Dot(Dot(Dot(Id("box"), "node"), "link"), "tag"), Lit(7)),
    PutAt(Dot(Id("w"), "tail"), Lit(5)),
    PutAt(Item(Dot(Id("w"), "data"), Lit(1)), Lit(2)),
    PutAt(Item(Dot(Id("w"), "data"), Lit(0)), Lit(1)),
    PutAt(Dot(Id("w"), "len"), Lit(9)),
    PutAt(Dot(Id("w"), "op"), Lit(3)),
    Var("q", Ref(Dot(Id("box"), "node"))),
    Expr(Call("add", << Id("q"), Lit(1) >>)),
    Expr(Call("add", << Ref(Id("b")), Dot(Id("w"), "len") >>)),
    Expr(Call("walk", << Id("q") >>)),
    Let("b", Call("Node", << Id("tag"), Bin(Dot(Id("b"), "tag"), "+", Lit(1)) >>)),
    Var("r", Dot(As(Id("q"), Ptr(St("Node"))), "tag")),
    Let("sum", Bin(Bin(Id("sum"), "*", Lit(4)), "+", Dot(Dot(Id("box"), "wire"), "len"))),
    Let("r", Bin(Bin(Id("r"), "*", Lit(5)), "+", Dot(Id("b"), "tag"))),
    Let("r", Bin(Bin(Id("r"), "*", Lit(4)), "+", Item(Dot(Id("w"), "data"), Lit(0)))),
    Let("r", Bin(Bin(Id("r"), "*", Lit(4)), "+", Item(Dot(Id("w"), "data"), Lit(1)))),
    Let("r", Bin(Bin(Id("r"), "*", Lit(4)), "+", Dot(Id("w"), "op"))),
    Let("r", Bin(Bin(Id("r"), "*", Lit(3)), "+", Dot(Dot(Id("box"), "wire"), "tail"))),
    Return(Bin(Bin(Id("r"), "+", Dot(Id("w"), "tail")), "-",
               Bin(Dot(Id("box"), "last"), "+", Dot(Id("a"), "tag")))) >>)) >>

(* Arrays of narrow elements, local and global, filled in a loop and read  *)
(* through a pointer into the middle of one and through a parameter; a     *)
(* narrow global, casts that cut, and a store in a hardware block.         *)
Arrays == <<
  GlobalAs("flag", U8), GlobalAs("table", Array(3, U16)), Const("step", 7),
  GlobalAs("wide", Array(2, U32)), GlobalAs("mark", U16),
  Taking(<<Ptr(U16), U64>>, Func("total", <<"p", "n">>, <<
    Var("i", Lit(0)), Var("s", Lit(0)),
    While(Bin(Id("i"), "<", Id("n")), <<
      Let("s", Bin(Id("s"), "+", Item(Id("p"), Id("i")))),
      Let("i", Bin(Id("i"), "+", Lit(1))) >>),
    Return(Id("s")) >>)),
  Entry(Func("main", << >>, <<
    Room("a", Array(3, U8)), Room("w", Array(2, U64)), Var("i", Lit(0)),
    While(Bin(Id("i"), "<", Lit(3)), <<
      PutAt(Item(Id("a"), Id("i")), Bin(Id("i"), "+", Id("step"))),
      PutAt(Item(Id("table"), Id("i")), Bin(Item(Id("a"), Id("i")), "*", Lit(6))),
      Let("i", Bin(Id("i"), "+", Lit(1))) >>),
    Let("mark", Lit(31)), Let("flag", Bin(Id("i"), "+", Id("mark"))),
    Typed("p", Ptr(U8), Ref(Item(Id("a"), Lit(1)))),
    PutAt(Item(Id("p"), Lit(1)), Unary("inv", Item(Id("p"), Lit(-1)))),
    PutAt(Item(Id("w"), Lit(1)), Unary("neg", Call("total", << Ref(Item(Id("table"), Lit(1))), Lit(2) >>))),
    Typed("pw", Ptr(U64), Ref(Item(Id("w"), Lit(1)))),
    PutAt(Item(Id("wide"), Unary("not", Lit(0))), As(Unary("deref", Id("pw")), U32)),
    Block("hardware", << PutAt(Item(Id("w"), Lit(0)), As(Item(Id("w"), Lit(1)), U8)),
                         PutAt(Item(Id("wide"), Unary("not", Id("flag"))), Item(Id("w"), Lit(0))) >>),
    Return(Bin(Bin(Item(Id("a"), Lit(0)), "*", Lit(16)), "+",
               Bin(Bin(Item(Id("a"), Lit(1)), "*", Lit(4)), "+", Item(Id("p"), Lit(1))))) >>)) >>

Sources == << Calls, Loops, Paths, Handler, Hardware, Rejected, Dropped, Headless, FirstStarts,
              Structures, Arrays >>
Targets == <<"AKI", "EXE", "EXE", "AKI", "ROM", "AKI", "EXE", "EXE", "AKI", "AKI", "EXE">>
Entries == [i \in DOMAIN Sources |-> IF i \in {2, 3} THEN "main" ELSE "none"]

(* A handler with a return.                                                *)
ReturningHandler == << <<
  Global("ticks"),
  Entry(Gate("interrupt", "tick", << >>, <<
    Let("ticks", Bin(Id("ticks"), "+", Lit(1))),
    If(Bin(Id("ticks"), "<", Lit(3)), << Return(Lit(0)) >>, << >>),
    Let("ticks", Lit(0)) >>)) >> >>
Kernel == <<"AKI">>
Unnamed == <<"none">>
=============================================================================
