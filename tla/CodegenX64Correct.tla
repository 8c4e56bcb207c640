-------------------------- MODULE CodegenX64Correct --------------------------
(***************************************************************************)
(* What the code of CodegenX64 promises: it computes what the source says. *)
(* The meaning of the source is a reference interpreter over the same      *)
(* declarations, which knows nothing of bytes and addresses: memory holds  *)
(* objects, a place is an object, a path of members and elements in it and *)
(* the type found there, and a pointer is a place.                         *)
(*   mem   the values at the places stored to                              *)
(*   env   the objects of the function's names;  top  the last object      *)
(*   v     the last value;  at  the last place                             *)
(*   did   what the last statement did                                     *)
(***************************************************************************)
EXTENDS CodegenX64, TLC

Num(n) == [n |-> n, to |-> << >>]
PointsTo(p) == [n |-> LoadBase, to |-> <<p>>]
Place(o, path, t) == [o |-> o, path |-> path, t |-> t]

Held(s, p) == IF <<p.o, p.path>> \in DOMAIN s.mem THEN s.mem[<<p.o, p.path>>] ELSE Num(0)

(* A place of an integer narrower than a word keeps what fits.             *)
Narrow(t, v) ==
  IF v.to = << >> /\ t.k = "int" /\ t.n < WordBytes THEN Num(v.n % Values(t.n)) ELSE v
Keep(s, p) == [s EXCEPT !.mem = (<<p.o, p.path>> :> Narrow(p.t, s.v)) @@ @]

New(s, x, t) ==
  [s EXCEPT !.top = @ + 1, !.env = (x :> Place(s.top + 1, << >>, t)) @@ @]

(* Names: a local, or else a global, or else a function, of which only     *)
(* that it is not 0 is known.                                              *)
GlobalPlace(i) == Place(i, << >>, Program[i].type)
PlaceOfName(s, x) == IF x \in DOMAIN s.env THEN s.env[x] ELSE GlobalPlace(First(GlobalOf(x)))
ValueOfName(s, x) ==
  IF x \in DOMAIN s.env \/ GlobalOf(x) # {} THEN Held(s, PlaceOfName(s, x)) ELSE Num(LoadBase)

(* Members and elements.  A pointer in the place accessed is followed; an  *)
(* index of a pointer into an array moves along the array.                 *)
Structure(t) == {i \in DOMAIN Program : Program[i].k = "struct" /\ t.k = "struct"
                                         /\ Program[i].name = t.name}
MemberTypes(t, f) ==
  {Program[First(Structure(t))].fields[j].type :
     j \in {k \in DOMAIN Program[First(Structure(t))].fields :
              Program[First(Structure(t))].fields[k].name = f}}
MemberAt(p, f) ==
  Place(p.o, Append(p.path, <<f, 0>>), CHOOSE t \in MemberTypes(p.t, f) : TRUE)

IsElement(p) == p.path # << >> /\ p.path[Len(p.path)][1] = "[]"
Moved(p, i) == [p EXCEPT !.path[Len(p.path)] = <<"[]", @[2] + i>>]
Element(p, i) ==
  CASE p.t.k = "array" -> Place(p.o, Append(p.path, <<"[]", i>>), p.t.of)
    [] IsElement(p) -> Moved(p, i)
    [] OTHER -> p

Follow(s) ==
  IF Held(s, s.at).to = << >> THEN s ELSE [s EXCEPT !.at = Held(s, @).to[1]]
Pointed(s) == [s EXCEPT !.at = s.v.to[1]]

RECURSIVE Value(_, _), Arguments(_, _, _), Run(_, _), Find(_, _)

(* The values of the arguments, from the last to the first, then vs.       *)
Before(args, last, vs) ==
  Arguments(SubSeq(args, 1, Len(args) - 1), last, << last.v >> \o vs)

Arguments(args, s, vs) ==
  IF args = << >> THEN [s EXCEPT !.v = vs]
  ELSE Before(args, Value(args[Len(args)], s), vs)

Function(f) == Program[First({i \in DOMAIN Program :
                                Program[i].k = "func" /\ Program[i].name = f})]

(* A call: the parameters are new objects; the caller's names come back.   *)
Parameters(d, a) ==
  LET bound[i \in 0..Len(d.params)] ==
        IF i = 0 THEN [a EXCEPT !.env = [x \in {} |-> a.at]]
        ELSE IF i \in FirstParams(d)
        THEN [New(bound[i - 1], d.params[i], d.types[i]) EXCEPT
                !.mem = (<<bound[i - 1].top + 1, << >>>> :> a.v[i]) @@ @]
        ELSE bound[i - 1]
  IN  bound[Len(d.params)]

Outcome(d, a) ==
  LET end == Run(d.body, [Parameters(d, a) EXCEPT !.did = "next"])
  IN  [end EXCEPT !.v = IF end.did = "returned" THEN @ ELSE Num(0)]

Resume(a, o) == [o EXCEPT !.env = a.env, !.did = a.did]
Enter(f, a) == Resume(a, Outcome(Function(f), a))

Applied(op, l, r) == [r EXCEPT !.v = Num(Apply(op, l.v.n, r.v.n))]
Combine(e, l) == Applied(e.op, l, Value(e.r, l))
Changed(op, s) ==
  IF op = "deref" THEN [s EXCEPT !.v = Held(s, @.to[1])]
  ELSE [s EXCEPT !.v = Num(ApplyUnary(op, @.n))]
Cast(t, s) ==
  IF t.k = "ptr" THEN [s EXCEPT !.v.to[1].t = t.of] ELSE [s EXCEPT !.v = Narrow(t, @)]

(* The place an expression names.                                          *)
InElement(b, i) == [i EXCEPT !.at = Element(b.at, i.v.n)]
InMember(b, f) == [b EXCEPT !.at = MemberAt(@, f)]
Within(b, e) == IF e.k = "field" THEN InMember(b, e.f) ELSE InElement(b, Value(e.i, b))
Target(o, s) == IF o.k \in {"id", "field", "index"} THEN Follow(Find(o, s)) ELSE Pointed(Value(o, s))
Find(e, s) ==
  IF e.k = "id" THEN [s EXCEPT !.at = PlaceOfName(s, e.x)] ELSE Within(Target(e.o, s), e)

Load(s) == [s EXCEPT !.v = Held(s, s.at)]
Refer(s) == [s EXCEPT !.v = PointsTo(s.at)]

Value(e, s) ==
  CASE e.k = "lit"   -> [s EXCEPT !.v = Num(e.v)]
    [] e.k = "id"    -> [s EXCEPT !.v = ValueOfName(s, e.x)]
    [] e.k = "bin"   -> Combine(e, Value(e.l, s))
    [] e.k = "call"  -> Enter(e.f, Arguments(e.args, s, << >>))
    [] e.k = "unary" -> Changed(e.op, Value(e.e, s))
    [] e.k = "cast"  -> Cast(e.t, Value(e.e, s))
    [] e.k \in {"field", "index"} -> Load(Find(e, s))
    [] e.k = "ref"   -> Refer(Find(e.e, s))

(* A structure initialiser gives the members it names their values.        *)
StructOf(e) == [k |-> "struct", name |-> e.f]
IsInitialiser(e) == e.k = "call" /\ Structure(StructOf(e)) # {}
RECURSIVE Initialise(_, _, _)
Initialise(s, p, args) ==
  IF args = << >> THEN s
  ELSE Initialise(Keep(Value(args[2], s), MemberAt(p, args[1].x)), p, SubSeq(args, 3, Len(args)))

(* Stores: the value is known before the place is looked for.              *)
Store(s, p, e) == IF IsInitialiser(e) THEN Initialise(s, p, e.args) ELSE Keep(Value(e, s), p)
StoreAt(v, f) == Keep([f EXCEPT !.v = v], f.at)
Started(s, x, t, e) ==
  IF IsInitialiser(e)
  THEN Store(New(s, x, StructOf(e)), Place(s.top + 1, << >>, StructOf(e)), e)
  ELSE [New(s, x, t) EXCEPT !.mem = (<<s.top + 1, << >>>> :> s.v) @@ @]
Introduce(h, s) ==
  IF h.init.k = "none" THEN New(s, h.x, h.type)
  ELSE Started(IF IsInitialiser(h.init) THEN s ELSE Value(h.init, s), h.x, h.type, h.init)

(* A loop after its body, and after its condition.                         *)
Again(w, b) ==
  CASE b.did = "broke"    -> [b EXCEPT !.did = "next"]
    [] b.did = "returned" -> b
    [] OTHER -> Run(<< w >>, b)

Loop(w, c) == IF c.v.n = 0 THEN c ELSE Again(w, Run(w.b, c))
Branch(h, c) == Run(IF c.v.n # 0 THEN h.t ELSE h.e, c)
Assigned(h, s) == StoreAt(s.v, Find(h.to, s))

(* The statements of a sequence until one breaks or returns.               *)
Did(h, s) ==
  CASE h.k = "ret"   -> [Value(h.e, s) EXCEPT !.did = "returned"]
    [] h.k = "expr"  -> Value(h.e, s)
    [] h.k = "var"   -> Introduce(h, s)
    [] h.k = "set"   -> Store(s, PlaceOfName(s, h.x), h.e)
    [] h.k = "put"   -> Assigned(h, Value(h.e, s))
    [] h.k = "if"    -> Branch(h, Value(h.c, s))
    [] h.k = "while" -> Loop(h, Value(h.c, s))
    [] h.k = "break" -> [s EXCEPT !.did = "broke"]
    [] OTHER         -> Run(h.ss, s)

Run(ss, s) == IF ss = << >> \/ s.did # "next" THEN s ELSE Run(Tail(ss), Did(Head(ss), s))

(* A program starts at its entry, or, without one, at its first function,  *)
(* with its globals as they are initialised.                               *)
Main == IF EntryDecl # {} THEN EntryDecl ELSE {First(Defined)}
Begin ==
  [mem |-> [p \in {<<i, << >>>> : i \in Stored} |-> Num(Program[p[1]].init)],
   env |-> [x \in {} |-> 0], top |-> Len(Program), v |-> << >>, at |-> << >>, did |-> "next"]
Expected(i) == Outcome(Program[i], Begin)

(* What a global holds in the memory of the machine: an integer, or an     *)
(* array of them.                                                          *)
SizeOfElement(t) == IF t.k = "array" THEN t.of.n ELSE IF t.k = "int" THEN t.n ELSE WordBytes
PlacesOf(i) ==
  IF Program[i].type.k = "array"
  THEN {[path |-> << <<"[]", j>> >>, offset |-> j * SizeOfElement(Program[i].type)] :
          j \in 0..(Program[i].type.len - 1)}
  ELSE {[path |-> << >>, offset |-> 0]}
GlobalHolds(i, p, s) ==
  Read(cpu, LoadBase + TruthBase + TruthOffset(i) + p.offset, SizeOfElement(Program[i].type))
    = Held(s, Place(i, p.path, NoType)).n

(***************************************************************************)
(* Properties.                                                             *)
(***************************************************************************)

(* The stack and base pointers stay within the stack, the instruction      *)
(* pointer of a linked program (mc_resolve_calls) within its code, and the *)
(* recorded functions within the code.                                     *)
TypeOK ==
  /\ phase \in {"start", "emit", "linked", "run", "done", "failed"}
  /\ next \in 1..(Len(Program) + 1)
  /\ \A f \in DOMAIN mc.funcs : mc.funcs[f].start + mc.funcs[f].size <= Len(mc.code)
  /\ cpu.sp \in 0..StackSize /\ cpu.bp \in 0..StackSize
  /\ phase = "run" => cpu.pc \in 0..(Len(mc.code) - 1)

(* The whole generator (codegen_generate): when the program ends, the      *)
(* globals hold what the source left in them, and the result of an entry   *)
(* that was called is the value the source returns.  It is entered where   *)
(* the source says, whatever functions were dropped as dead.               *)
ComputesSource ==
  phase = "done" => \A i \in Main : \E end \in {Expected(i)} :
    /\ \A j \in Stored : \A p \in PlacesOf(j) : GlobalHolds(j, p, end)
    /\ Program[i].gate = "none" => cpu.acc = end.v.n

Caller == mc.funcs[First(cpu.frames[1].f)]

(* The frame holds on every path.  The plan made before the body           *)
(* (mc_plan_locals_in_stmt) foresaw every slot the body uses, so no push   *)
(* lands on a local.  At every branch of an ordinary function the          *)
(* expression stack is empty, pads of calls included, so the paths that    *)
(* meet at a label agree on the stack.  And a function returns with the    *)
(* stack and base pointers it was entered with.                            *)
FrameDiscipline ==
  /\ \A f \in DOMAIN mc.funcs :
       mc.funcs[f].gate \notin Frameless => mc.funcs[f].depth <= mc.funcs[f].planned
  /\ (phase = "run" /\ Current.op \in {"jmp", "jz", "leave"} /\ Caller.gate \notin Frameless)
       => cpu.sp = cpu.bp - Caller.planned
  /\ (phase = "run" /\ Current.op = "ret") =>
       cpu.frames[1].sp = cpu.sp /\ cpu.frames[1].bp = cpu.bp

(* Control stays where the source put it.  The processor never runs past   *)
(* the end of a function, or of the portal, into the next one, which the   *)
(* fallback epilogue of mc_emit_function is there to prevent; and a call   *)
(* that is left to the loader names no function of the program: none that  *)
(* is called was dropped by trace_calls.                                   *)
ControlStaysInside ==
  /\ phase = "run" =>
       /\ cpu.frames # << >>
       /\ IF cpu.frames[1].f = {}
          THEN Format = "EXE" /\ cpu.pc \in 0..(mc.funcs[1].start - 1)
          ELSE /\ Cardinality(cpu.frames[1].f) = 1
               /\ cpu.pc \in Caller.start..(Caller.start + Caller.size - 1)
  /\ phase # "emit" => \A c \in mc.relocs : Marked(c.name) = {}

(* A program that runs ends, as its source does: a break leaves the loop   *)
(* it is written in and no branch closes a cycle of its own.               *)
Finishes == phase = "run" ~> phase = "done"

(* What the language manual says of a handler (section 4.4: an interrupt   *)
(* gate "automatically generates iretq returns"): it never executes the    *)
(* return of an ordinary function.                                         *)
InterruptReturnsByIretq ==
  (phase = "run" /\ Current.op = "ret") => Caller.gate \notin {"interrupt", "exception"}
=============================================================================
