------------------------------ MODULE CodegenX64 ------------------------------
(***************************************************************************)
(* The x86-64 code generator (middleend/codegen/aec_codegen.c) from the    *)
(* declarations of a program to the patched code, and the machine that     *)
(* executes the code.  mc_emit_function plans the frame, emits prologue,   *)
(* body and epilogue with branches to labels that are bound later, and     *)
(* patches them; mc_resolve_calls patches the calls when every function    *)
(* has an offset.  The hard part is that the passes must agree: the frame  *)
(* planned before the body is emitted with the slots the body uses, every  *)
(* push with a pop on every path, every fixup with the label or function   *)
(* it was recorded for.                                                    *)
(*                                                                         *)
(* Data has the types and layouts of CodegenLayout.  A member or an        *)
(* element is reached by an address in the accumulator, and the passes     *)
(* must agree on offsets and widths too.                                   *)
(*                                                                         *)
(* Abstractions.  An instruction is a record and its length 1; offsets in  *)
(* the code count from 0, and a displacement from the next instruction, as *)
(* in the code.  Data is counted in bytes, but a byte holds 0..ByteMax, so *)
(* that a word of 8 bytes stays within TLC's integers.  Left out: 16- and  *)
(* 32-bit and AArch64 targets, host calls, print, slices and pbit blocks,  *)
(* register aliases, callback thunks, the hardware instructions, and       *)
(* globals named by a path.  The operands of && are both evaluated, and    *)
(* arguments from the last to the first, as the generator chose; the       *)
(* language leaves that open.                                              *)
(*                                                                         *)
(* A program is a sequence of declarations.                                *)
(***************************************************************************)
EXTENDS CodegenLayout, FiniteSets

CONSTANTS
  Programs,    \* a sequence of programs
  Formats,     \* the target format of each: "EXE", "ROM" or "AKI"
  EntryNames,  \* the name given by --entry for each, or NoName
  NoName,      \* no entry was named
  Align,       \* alignment of the sections of an EXE
  RegArgs,     \* arguments passed in registers (6)
  ByteMax,     \* bound of the model: the largest value of a byte (255)
  StackWords   \* bound of the model: words of stack

VARIABLES
  src,      \* the program being compiled, its format and the entry asked for
  phase,    \* "start", "emit", "linked", "run", "done", "failed"
  next,     \* the next declaration codegen_generate comes to
  mc,       \* McCtx: code, fixups, functions, and the current function
  cpu       \* the machine

vars == <<src, phase, next, mc, cpu>>

Program == src.decls
Format == src.format
Named(ds, x) == {i \in DOMAIN ds : ds[i].name = x}
First(S) == CHOOSE i \in S : \A j \in S : i <= j

\* mc_ctx_find_func: the first function of a name, where there is one.
FuncNamed(c, x) == c.funcs[First(Named(c.funcs, x))]

(***************************************************************************)
(* Symbols.  A global declaration has a name, a type and, when hasInit     *)
(* holds, a constant initialiser.  codegen_generate enters each one in the *)
(* global table and each one with a constant initialiser in the constant   *)
(* table.                                                                  *)
(***************************************************************************)
Globals == {i \in DOMAIN Program : Program[i].k = "global"}
GlobalOf(x) == {i \in Globals : Program[i].name = x}
ConstOf(x) == {i \in GlobalOf(x) : Program[i].hasInit}

(* Storage in the constant truth section: only the first declaration of a  *)
(* name takes some, whole words of it.                                     *)
Stored == {i \in Globals : i = First(GlobalOf(Program[i].name))}
StorageSize(i) == SlotSize(mc.structs, Program[i].type)
TruthOffset(n) ==
  LET size[i \in 1..n] ==
        IF i = 1 THEN 0 ELSE size[i - 1] + IF i - 1 \in Stored THEN StorageSize(i - 1) ELSE 0
  IN  size[n]
TruthSize == TruthOffset(Len(Program) + 1)

FindSymbol(c, x) == {i \in DOMAIN c.locals : c.locals[i].name = x}
SymbolOf(c, x) == c.locals[First(FindSymbol(c, x))]

(* The slot of a symbol is its lowest byte below rbp; a parameter has none *)
(* before mc_plan_param_spills.                                            *)
NoSlot == 0
AddLocal(c, x, t, size) ==
  [c EXCEPT !.alloc = @ + size,
            !.locals = Append(@, [name |-> x, kind |-> "STACK", arg |-> 0, type |-> t,
                                  slot |-> -(c.alloc + size)])]

(* A name as a symbol: a local, or else a global; a set of at most one.    *)
Symbols(c, x) ==
  IF FindSymbol(c, x) # {} THEN {SymbolOf(c, x)}
  ELSE {[name |-> x, kind |-> "GLOBAL", arg |-> 0, type |-> Program[i].type, slot |-> NoSlot] :
          i \in Stored \cap GlobalOf(x)}

(* mc_reserve, mc_emit_u8 and its wider forms append to the code; w is the *)
(* width of the data the instruction moves.                                *)
Move(c, op, n, w) == [c EXCEPT !.code = Append(@, [op |-> op, n |-> n, w |-> w])]
Ins(c, op, n) == Move(c, op, n, WordBytes)

(* mc_emit_mov_acc_imm and its neighbours: the accumulator takes a         *)
(* constant, a parameter that came in a register or above the frame, or a  *)
(* word of the frame, and goes to a word of the frame.                     *)
MovAccImm(c, v) == Ins(c, "imm", v)
MovAccArg(c, n) == Ins(c, "arg", n)
LoadAccFromStack(c, slot) == Ins(c, "load", slot)
StoreAccToStack(c, slot) == Ins(c, "store", slot)

(* mc_new_label, mc_bind_label, mc_add_branch_fixup and the jumps.         *)
Unbound == -1
NewLabel(c) == [c EXCEPT !.labels = Append(@, Unbound)]
Bind(c, l) == [c EXCEPT !.labels[l] = Len(c.code)]
Jump(c, op, l) ==
  [Ins(c, op, 0) EXCEPT
     !.branches = @ \cup {[at |-> Len(c.code) + 1, label |-> l]}]

(***************************************************************************)
(* Addresses.  An operator that leaves an address in the accumulator gives *)
(* the context with what it emitted and the type found there, or Miss; the *)
(* code emitted before a miss stays.                                       *)
(***************************************************************************)
RECURSIVE Emit(_, _), EmitArgs(_, _, _), Address(_, _)

Miss == [k |-> "miss"]
Found(c, t) == [c |-> c, t |-> t]
Missed(c) == Found(c, Miss)

(* mc_record_truth_addr_fixup: until the code is complete the instruction  *)
(* holds the offset in the section.                                        *)
Fixup(c, x) == Ins(c, "gaddr", TruthOffset(First(GlobalOf(x))))

(* mc_symbol_pointer_base_to_rax and mc_symbol_base_addr_to_rax differ in  *)
(* what they do with a local: its value, or where it lies.                 *)
PointerBase(c, s) ==
  CASE s.kind = "PARAM"  -> MovAccArg(c, s.arg)
    [] s.kind = "STACK"  -> LoadAccFromStack(c, s.slot)
    [] s.kind = "GLOBAL" -> Fixup(c, s.name)
BaseAddress(c, s) == IF s.kind = "STACK" THEN Ins(c, "frame", s.slot) ELSE PointerBase(c, s)

(* mc_extract_struct_name_from_type leaves the name in a static buffer.    *)
Extract(c, t) == IF IsPtr(t) THEN [c EXCEPT !.buffer = t.of] ELSE c

(* mc_emit_load_acc_from_rax_disp and mc_emit_store_rcx_to_rax_disp know   *)
(* four widths; any other is a word.                                       *)
MemWidth(n) == IF n \in {1, 2, 4} THEN n ELSE WordBytes
Fetch(c, n) == Move(c, "fetch", 0, MemWidth(n))
Put(c, n) == Move(c, "put", 0, MemWidth(n))

(* mc_emit_access_base_object: where the structure lies that is accessed.  *)
(* A pointer is followed, a cast is trusted, and its structure is read     *)
(* from the buffer after the operand has been emitted.                     *)
BaseOfName(c, s) ==
  CASE IsPtr(s.type) -> Found(PointerBase(Extract(c, s.type), s), s.type.of)
    [] IsStruct(c.structs, s.type) -> Found(BaseAddress(c, s), s.type)
    [] OTHER -> Missed(c)

BaseOfCast(c) == Found(c, c.buffer)

BaseOfAccess(a) ==
  CASE IsPtr(a.t) -> Found(Fetch(Extract(a.c, a.t), WordBytes), a.t.of)
    [] IsStruct(a.c.structs, a.t) -> a
    [] OTHER -> Missed(a.c)

Base(c, o) ==
  CASE o.k = "id" /\ FindSymbol(c, o.x) # {} -> BaseOfName(c, SymbolOf(c, o.x))
    [] o.k = "cast" /\ IsPtr(o.t) -> BaseOfCast(Emit(Extract(c, o.t), o.e))
    [] o.k \in {"field", "index"} -> BaseOfAccess(Address(c, o))
    [] OTHER -> Missed(c)

(* mc_emit_address_of_access.  An element is no field, so it is a miss.    *)
AddOffset(c, n) == IF n = 0 THEN c ELSE Ins(c, "addacc", n)
Member(e) == IF e.k = "field" THEN e.f ELSE "[index]"
AtField(b, fs) ==
  IF fs = {} THEN Missed(b.c)
  ELSE LET f == CHOOSE g \in fs : TRUE IN Found(AddOffset(b.c, f.offset), f.type)
FieldAt(b, name) == AtField(b, FieldsOf(b.c.structs, b.t, name))
Address(c, e) == FieldAt(Base(c, e.o), Member(e))

(* mc_resolve_access_layout: the field of a local structure, or of one a   *)
(* local points to, without emitting anything; a set of at most one.       *)
Resolved(c, e) ==
  IF e.o.k # "id" \/ FindSymbol(c, e.o.x) = {} THEN {}
  ELSE LET s == SymbolOf(c, e.o.x)
           t == IF IsPtr(s.type) THEN s.type.of ELSE s.type
       IN  {[symbol |-> s, field |-> f] : f \in FieldsOf(c.structs, t, Member(e))}

(* mc_access_index_elem_size; a call is taken to return words.             *)
NonZero(n, otherwise) == IF n = 0 THEN otherwise ELSE n
ElemSize(c, o) ==
  CASE o.k = "cast" -> NonZero(ElemOf(c.structs, o.t), WordBytes)
    [] o.k = "call" -> WordBytes
    [] o.k = "id" /\ Symbols(c, o.x) # {} ->
         NonZero(ElemOf(c.structs, (CHOOSE s \in Symbols(c, o.x) : TRUE).type), 1)
    [] o.k \in {"field", "index"} /\ Resolved(c, o) # {} ->
         NonZero(ElemOf(c.structs, (CHOOSE r \in Resolved(c, o) : TRUE).field.type), 1)
    [] OTHER -> 1

(* mc_emit_indexed_address: base, then index times the size of an element. *)
SymbolAddress(c, s) == IF IsPtr(s.type) THEN PointerBase(c, s) ELSE BaseAddress(c, s)
IndexBase(c, o) ==
  CASE o.k = "id" ->
         IF Symbols(c, o.x) = {} THEN Missed(c)
         ELSE Found(SymbolAddress(c, CHOOSE s \in Symbols(c, o.x) : TRUE), NoType)
    [] o.k \in {"field", "index"} ->
         IF Resolved(c, o) = {} THEN Missed(c)
         ELSE LET r == CHOOSE q \in Resolved(c, o) : TRUE IN
              Found(AddOffset(SymbolAddress(Extract(c, r.symbol.type), r.symbol), r.field.offset),
                    NoType)
    [] OTHER -> Found(Emit(c, o), NoType)

(* A fault: the index counts bytes.                                        *)
Scaled_Bytes(c, size) == c

Scaled(c, size) ==
  IF size > 1 THEN Ins(Ins(MovAccImm(Ins(c, "push", 0), size), "popc", 0), "*", 0) ELSE c

IndexFrom(b, e) ==
  IF b.t = Miss THEN b
  ELSE Found(Ins(Ins(Scaled(Emit(Ins(b.c, "push", 0), e.i), ElemSize(b.c, e.o)), "popc", 0), "+", 0),
             NoType)
Indexed(c, e) == IndexFrom(IndexBase(c, e.o), e)

(***************************************************************************)
(* mc_emit_expr: the value of an expression ends in the accumulator.       *)
(***************************************************************************)
(* AST_IDENT: a local, then a constant, then a global, then the address of *)
(* a function emitted before; a name that is none of them is 0.            *)
EmitIdent(c, x) ==
  IF FindSymbol(c, x) # {}
  THEN LET s == SymbolOf(c, x) IN
       IF s.kind = "PARAM" THEN MovAccArg(c, s.arg) ELSE LoadAccFromStack(c, s.slot)
  ELSE IF ConstOf(x) # {} THEN MovAccImm(c, Program[First(ConstOf(x))].init)
  ELSE IF GlobalOf(x) # {}
  THEN Fetch(Fixup(c, x), SizeOf(c.structs, Program[First(GlobalOf(x))].type))
  ELSE IF Named(c.funcs, x) # {}
  THEN Ins(c, "lea", FuncNamed(c, x).start - (Len(c.code) + 1))
  ELSE MovAccImm(c, 0)

(* AST_BINARY_OP: the left value waits on the stack while the right one is *)
(* computed, and comes back in rcx.                                        *)
EmitBinary(c, e) ==
  Ins(Ins(Emit(Ins(Emit(c, e.l), "push", 0), e.r), "popc", 0), e.op, 0)

(* AST_UNARY_OP; an indirection reads a word.                              *)
EmitUnary(c, op) == IF op = "deref" THEN Fetch(c, WordBytes) ELSE Ins(c, op, 0)

(* AST_TYPECAST: an integer narrower than a word loses its upper bytes     *)
(* (when its long name is written: a cast to u8 is not cut).               *)
EmitCast(c, t) ==
  IF t.k = "int" /\ t.n < WordBytes THEN Move(c, "trunc", 0, t.n) ELSE c

(* AST_ACCESS: an element or a field is loaded in its width; what is not   *)
(* found is 0.                                                             *)
Loaded(a, n) == IF a.t = Miss THEN MovAccImm(a.c, 0) ELSE Fetch(a.c, n)
EmitElement(c, e) == Loaded(Indexed(c, e), ElemSize(c, e.o))
LoadField(a) == Loaded(a, IF a.t = Miss THEN 0 ELSE SizeOf(a.c.structs, a.t))

(* AST_REFERENCE: the address of an element, a field, a local or, outside  *)
(* an EXE, a function emitted before; anything else is 0.                  *)
ReferTo(a) == IF a.t = Miss THEN MovAccImm(a.c, 0) ELSE a.c
ReferToElement(a, e) == IF a.t = Miss THEN ReferTo(Address(a.c, e)) ELSE a.c
ReferToName(c, x) ==
  IF FindSymbol(c, x) # {} /\ SymbolOf(c, x).kind = "STACK"
  THEN Ins(c, "frame", SymbolOf(c, x).slot)
  ELSE IF Named(c.funcs, x) # {}
  THEN Ins(c, "lea", FuncNamed(c, x).start - (Len(c.code) + 1))
  ELSE MovAccImm(c, 0)
EmitReference(c, o) ==
  CASE o.k = "index" -> ReferToElement(Indexed(c, o), o)
    [] o.k = "field" -> ReferTo(Address(c, o))
    [] o.k = "id"    -> ReferToName(c, o.x)
    [] OTHER         -> MovAccImm(c, 0)

(* A fault: the pad of an odd number of stack arguments is not removed.    *)
CallCleanup_NoPad(c, e, stackArgs) ==
  IF stackArgs > 0 THEN Ins(c, "addsp", WordBytes * stackArgs) ELSE c

CallCleanup(c, e, stackArgs) ==
  IF stackArgs > 0 THEN Ins(c, "addsp", WordBytes * (stackArgs + (stackArgs % 2))) ELSE c

(* The generic call: pad, push every argument from the last to the first,  *)
(* pop the first ones into registers, call, drop the rest and the pad.     *)
InRegs(e) == IF Len(e.args) < RegArgs THEN Len(e.args) ELSE RegArgs
StackArgs(e) == Len(e.args) - InRegs(e)
Padded(c, e) == IF StackArgs(e) % 2 = 1 THEN Ins(c, "subsp", WordBytes) ELSE c
Popped(c, e) ==
  [c EXCEPT !.code = @ \o [i \in 1..InRegs(e) |-> [op |-> "poparg", n |-> i, w |-> WordBytes]]]
AddCallFixup(c, f) == [c EXCEPT !.calls = @ \cup {[at |-> Len(c.code), name |-> f]}]
CallOf(c, f) == AddCallFixup(Ins(c, "call", 0), f)
EmitCall(c, e) ==
  CallCleanup(CallOf(Popped(EmitArgs(Padded(c, e), e.args, Len(e.args)), e), e.f), e, StackArgs(e))

EmitArgs(c, args, i) ==
  IF i = 0 THEN c
  ELSE EmitArgs(Ins(Emit(c, args[i]), "push", 0), args, i - 1)

EmitExpr(c, e) ==
  CASE e.k = "lit"  -> MovAccImm(c, e.v)
    [] e.k = "id"   -> EmitIdent(c, e.x)
    [] e.k = "bin"  -> EmitBinary(c, e)
    [] e.k = "call" -> EmitCall(c, e)
    [] e.k = "unary" -> EmitUnary(Emit(c, e.e), e.op)
    [] e.k = "cast"  -> EmitCast(Emit(c, e.e), e.t)
    [] e.k = "index" -> EmitElement(c, e)
    [] e.k = "field" -> LoadField(Address(c, e))
    [] e.k = "ref"   -> EmitReference(c, e.e)

(***************************************************************************)
(* mc_emit_stmt.                                                           *)
(***************************************************************************)
RECURSIVE EmitAll(_, _)

(* The first statement that fails ends the function.                       *)
EmitAll(c, ss) ==
  IF ss = << >> \/ ~c.ok THEN c ELSE EmitAll(Emit(c, Head(ss)), Tail(ss))

Epilogue(c) == Ins(Ins(c, "leave", 0), "ret", 0)

(* AST_RETURN_STMT; a return with no value returns 0.                      *)
EmitReturn(c, s) == Epilogue([Emit(c, s.e) EXCEPT !.returns = TRUE])

(* The type of a declaration without one: a cast's, the name of a callee,  *)
(* a pointer to the local referred to, or what an access is known to yield *)
(* (mc_access_runtime_type_name).                                          *)
RECURSIVE TypeOf(_, _)

TypeOfName(c, x) ==
  IF Symbols(c, x) = {} THEN NoType ELSE (CHOOSE s \in Symbols(c, x) : TRUE).type
TypeOfField(known, t, name) ==
  LET fs == FieldsOf(known, IF IsPtr(t) THEN t.of ELSE t, name)
  IN  IF fs = {} THEN NoType ELSE (CHOOSE f \in fs : TRUE).type

TypeOfElement(t) == IF t.k \in {"ptr", "array"} THEN t.of ELSE NoType

TypeOf(c, e) ==
  CASE e.k = "id"    -> TypeOfName(c, e.x)
    [] e.k = "cast"  -> e.t
    [] e.k = "index" -> TypeOfElement(TypeOf(c, e.o))
    [] e.k = "field" -> TypeOfField(c.structs, TypeOf(c, e.o), e.f)
    [] OTHER         -> NoType

InferredType(c, e) ==
  CASE e.k = "call" -> [k |-> "struct", name |-> e.f]
    [] e.k = "ref" /\ e.e.k = "id" ->
         IF FindSymbol(c, e.e.x) # {} /\ SymbolOf(c, e.e.x).type # NoType
         THEN [k |-> "ptr", of |-> SymbolOf(c, e.e.x).type] ELSE NoType
    [] e.k \in {"cast", "index", "field"} -> TypeOf(c, e)
    [] OTHER -> NoType

DeclaredType(c, s) == IF s.type = NoType THEN InferredType(c, s.init) ELSE s.type
Declared(c, x, t) == AddLocal(c, x, t, SlotSize(c.structs, t))

(* A structure initialiser is a call of its name with alternating names    *)
(* and values (mc_is_struct_init_call); each field that exists is stored   *)
(* with mc_emit_store_acc_to_base_disp_width, which knows three widths and *)
(* takes any other for four bytes.                                         *)
IsStructInit(c, e) == e.k = "call" /\ IsStruct(c.structs, [k |-> "struct", name |-> e.f])
StoreWidth(n) ==
  CASE n = 0 \/ n > WordBytes -> WordBytes
    [] n \in {1, 2, WordBytes} -> n
    [] OTHER -> 4

RECURSIVE EmitFields(_, _, _, _)
EmitField(c, slot, fs, e) ==
  IF fs = {} THEN c
  ELSE LET f == CHOOSE g \in fs : TRUE
       IN  Move(Emit(c, e), "store", slot + f.offset, StoreWidth(f.size))
EmitFields(c, slot, layout, args) ==
  IF Len(args) < 2 THEN c
  ELSE EmitFields(EmitField(c, slot, IF args[1].k = "id" THEN Fields(layout, args[1].x) ELSE {},
                            args[2]),
                  slot, layout, SubSeq(args, 3, Len(args)))
EmitStructInit(c, slot, e) ==
  EmitFields(c, slot, LayoutOf(c.structs, [k |-> "struct", name |-> e.f]), e.args)

(* AST_VAR_DECL: a name the plan did not see gets a slot now, below the    *)
(* frame the prologue reserved.                                            *)
Introduced(c, s) ==
  IF FindSymbol(c, s.x) # {} THEN c ELSE Declared(c, s.x, DeclaredType(c, s))
InitialValue(c, s, symbol) ==
  IF s.init.k = "none" THEN c
  ELSE IF symbol.kind # "STACK" THEN [c EXCEPT !.ok = FALSE]
  ELSE IF IsStructInit(c, s.init) THEN EmitStructInit(c, symbol.slot, s.init)
  ELSE StoreAccToStack(Emit(c, s.init), symbol.slot)
AfterDecl(c, s) == InitialValue(c, s, SymbolOf(c, s.x))
EmitVarDecl(c, s) == AfterDecl(Introduced(c, s), s)

(* AST_ASSIGNMENT to an element: the value waits on the stack for the      *)
(* address; one that is not found ends there.  In a hardware block the     *)
(* value has been computed before, and is computed again.                  *)
PutElement(a, n) == IF a.t = Miss THEN a.c ELSE Put(Ins(a.c, "popc", 0), n)
AssignElement(c, s) ==
  PutElement(Indexed(Ins(Emit(IF c.hardware THEN Emit(c, s.e) ELSE c, s.e), "push", 0), s.to),
             ElemSize(c, s.to.o))

(* To a field: one that is not found drops the value and computes it once  *)
(* more.                                                                   *)
PutField(a, e) ==
  IF a.t = Miss THEN Emit(Ins(a.c, "popacc", 0), e)
  ELSE Put(Ins(a.c, "popc", 0), SizeOf(a.c.structs, a.t))
AssignField(c, s) == PutField(Address(Ins(Emit(c, s.e), "push", 0), s.to), s.e)

(* To a name: a local, then a global; any other name only evaluates the    *)
(* right side.                                                             *)
StoreTo(c, x) ==
  IF FindSymbol(c, x) # {} /\ SymbolOf(c, x).kind = "STACK"
  THEN StoreAccToStack(c, SymbolOf(c, x).slot)
  ELSE IF GlobalOf(x) # {}
  THEN Put(Ins(Fixup(Ins(c, "push", 0), x), "popc", 0),
           SizeOf(c.structs, Program[First(GlobalOf(x))].type))
  ELSE c

EmitAssign(c, s) ==
  IF /\ IsStructInit(c, s.e)
     /\ FindSymbol(c, s.x) # {} /\ SymbolOf(c, s.x).kind = "STACK"
  THEN EmitStructInit(c, SymbolOf(c, s.x).slot, s.e)
  ELSE StoreTo(Emit(c, s.e), s.x)

EmitStore(c, s) == IF s.to.k = "index" THEN AssignElement(c, s) ELSE AssignField(c, s)

(* In a hardware block the context says so.                                *)
EmitHardware(c, ss) == [EmitAll([c EXCEPT !.hardware = TRUE], ss) EXCEPT !.hardware = c.hardware]

(* The two labels of a statement are the next ones.                        *)
TwoLabels(c) == NewLabel(NewLabel(c))
IfTo(c, s, lElse, lEnd) ==
  Bind(EmitAll(Bind(Jump(EmitAll(Jump(Emit(c, s.c), "jz", lElse), s.t), "jmp", lEnd), lElse), s.e),
       lEnd)
EmitIf(c, s) == IfTo(TwoLabels(c), s, Len(c.labels) + 1, Len(c.labels) + 2)

LoopTo(c, s, lLoop, lBreak) ==
  Bind(Jump(EmitAll(Jump(Emit(Bind([c EXCEPT !.break = lBreak], lLoop), s.c), "jz", lBreak), s.b),
            "jmp", lLoop), lBreak)

(* A fault: the enclosing loop's exit is not put back.                     *)
EmitWhile_KeepsBreak(c, s) == LoopTo(TwoLabels(c), s, Len(c.labels) + 1, Len(c.labels) + 2)

EmitWhile(c, s) ==
  [LoopTo(TwoLabels(c), s, Len(c.labels) + 1, Len(c.labels) + 2) EXCEPT !.break = c.break]

NoLoop == 0
EmitBreak(c) == IF c.break # NoLoop THEN Jump(c, "jmp", c.break) ELSE c

(* match, switch, for, guard and defer statements ("silent") emit nothing. *)
EmitStmt(c, s) ==
  CASE s.k = "ret"   -> EmitReturn(c, s)
    [] s.k = "expr"  -> Emit(c, s.e)
    [] s.k = "var"   -> EmitVarDecl(c, s)
    [] s.k = "set"   -> EmitAssign(c, s)
    [] s.k = "put"   -> EmitStore(c, s)
    [] s.k = "if"    -> EmitIf(c, s)
    [] s.k = "while" -> EmitWhile(c, s)
    [] s.k = "break" -> EmitBreak(c)
    [] s.k = "hardware" -> EmitHardware(c, s.ss)
    [] s.k \in {"block", "metal"} -> EmitAll(c, s.ss)
    [] OTHER -> c

Expressions == {"lit", "id", "bin", "call", "unary", "cast", "index", "field", "ref"}
Emit(c, n) == IF n.k \in Expressions THEN EmitExpr(c, n) ELSE EmitStmt(c, n)

(***************************************************************************)
(* mc_plan_locals_in_stmt descends into blocks, both branches of an if,    *)
(* the bodies of while and of hardware, win, sys and morph blocks, and     *)
(* nothing else.                                                           *)
(***************************************************************************)
RECURSIVE Plan(_, _)

PlanIf(c, s) == Plan(Plan(c, s.t), s.e)

Plan(c, ss) ==
  IF ss = << >> THEN c
  ELSE LET s == Head(ss) IN
       Plan(CASE s.k = "var"   -> Introduced(c, s)
              [] s.k = "if"    -> PlanIf(c, s)
              [] s.k = "while" -> Plan(c, s.b)
              [] s.k \in {"block", "hardware"} -> Plan(c, s.ss)
              [] OTHER -> c, Tail(ss))

(***************************************************************************)
(* mc_emit_function.                                                       *)
(***************************************************************************)
Frameless == {"naked", "rom", "syscall", "interrupt", "exception"}
Framed(d) == d.gate \notin Frameless

(* mc_seed_function_params: a repeated name keeps the first position.      *)
FirstParams(d) ==
  {i \in DOMAIN d.params : \A j \in 1..(i - 1) : d.params[j] # d.params[i]}

SeedParams(c, d) ==
  LET param(i) == [name |-> d.params[i], kind |-> "PARAM", arg |-> i, type |-> d.types[i],
                   slot |-> NoSlot]
      add[i \in 0..Len(d.params)] ==
        IF i = 0 THEN << >>
        ELSE IF i \in FirstParams(d) THEN Append(add[i - 1], param(i)) ELSE add[i - 1]
  IN  [c EXCEPT !.locals = add[Len(d.params)]]

(* mc_plan_param_spills: one word for each parameter, after the locals.    *)
PlanSpills(c) ==
  LET params == {i \in DOMAIN c.locals : c.locals[i].kind = "PARAM"}
      rank(i) == Cardinality({j \in params : j <= i})
  IN  [c EXCEPT
         !.alloc = @ + WordBytes * Cardinality(params),
         !.locals = [i \in DOMAIN @ |->
                       IF i \in params THEN [@[i] EXCEPT !.slot = -(c.alloc + WordBytes * rank(i))]
                       ELSE @[i]]]

(* mc_spill_function_params: every parameter moves to its slot.            *)
SpillParams(c) ==
  LET spill[i \in 0..Len(c.locals)] ==
        IF i = 0 THEN << >>
        ELSE IF c.locals[i].kind # "PARAM" THEN spill[i - 1]
        ELSE spill[i - 1] \o << [op |-> "arg", n |-> c.locals[i].arg, w |-> WordBytes],
                                [op |-> "store", n |-> c.locals[i].slot, w |-> WordBytes] >>
  IN  [c EXCEPT !.code = @ \o spill[Len(c.locals)],
                !.locals = [i \in DOMAIN @ |-> [@[i] EXCEPT !.kind = "STACK"]]]

Prologue(c, planned) ==
  LET framed == Ins(Ins(c, "pushbp", 0), "mov bp sp", 0)
  IN  IF planned > 0 THEN Ins(framed, "subsp", planned) ELSE framed

(* mc_patch_branches: a branch to a label that is not bound fails.         *)
PatchBranches(c) ==
  LET target(b) == c.labels[b.label]
      bound == \A b \in c.branches : b.label \in DOMAIN c.labels /\ target(b) # Unbound
      at == {b.at : b \in c.branches}
      branch(i) == CHOOSE b \in c.branches : b.at = i
  IN  IF ~bound THEN [c EXCEPT !.ok = FALSE]
      ELSE [c EXCEPT !.code = [i \in DOMAIN @ |->
                IF i \in at THEN [@[i] EXCEPT !.n = target(branch(i)) - i] ELSE @[i]]]

(* A fault: no fallback epilogue once the function has a return.           *)
Ending_OnlyIfNoReturn(c, d) ==
  IF c.returns THEN c ELSE Epilogue(MovAccImm(c, 0))

(* The end of a function: an interrupt or exception handler and a system   *)
(* call return by their own instruction unless the body has a return; a    *)
(* naked or rom function ends with its body; an ordinary function always   *)
(* gets a fallback.                                                        *)
Ending(c, d) ==
  CASE d.gate \in {"interrupt", "exception"} -> IF c.returns THEN c ELSE Ins(c, "iretq", 0)
    [] d.gate = "syscall" -> IF c.returns THEN c ELSE Ins(c, "sysretq", 0)
    [] d.gate \in {"rom", "naked"} -> c
    [] OTHER -> Epilogue(MovAccImm(c, 0))

(* mc_ctx_add_func.  The last three fields record what the properties are  *)
(* about: the bytes the prologue reserved, the deepest slot and the gate.  *)
AddFunc(c, d, start) ==
  LET slots == {c.locals[i].slot : i \in DOMAIN c.locals}
      depth == IF slots = {} THEN 0 ELSE -(CHOOSE s \in slots : \A t \in slots : s <= t)
  IN  [c EXCEPT !.funcs = Append(@, [name |-> d.name, start |-> start,
                                     size |-> Len(c.code) - start,
                                     planned |-> c.planned, depth |-> depth,
                                     gate |-> d.gate])]

Sized(c) ==
  LET planned == AlignUp(c.alloc, 2 * WordBytes) IN [c EXCEPT !.alloc = planned, !.planned = planned]
Planned(c, d) ==
  Sized(PlanSpills(Plan(SeedParams([c EXCEPT !.labels = << >>, !.branches = {}, !.returns = FALSE,
                                             !.alloc = 0], d), d.body)))
Begun(c, d) == IF Framed(d) THEN SpillParams(Prologue(c, c.planned)) ELSE c
FunctionOf(c, d) ==
  AddFunc(Ending(PatchBranches(EmitAll(Begun(Planned(c, d), d), d.body)), d), d, Len(c.code))

(***************************************************************************)
(* The machine: the processor and the memory the code runs on.  Memory is  *)
(* the bytes that were loaded or written, the stack below StackSize and    *)
(* the image from LoadBase on; any other reads as 0.  A register holds a   *)
(* signed word.  Exit is the return address of the program.                *)
(* frames records, for every function entered and not left, its index and  *)
(* the stack and base pointers it was entered with.                        *)
(***************************************************************************)
Exit == -1
Values(w) == (ByteMax + 1) ^ w
Signed(v) == ((v + Values(WordBytes) \div 2) % Values(WordBytes)) - Values(WordBytes) \div 2
Truth(b) == IF b THEN 1 ELSE 0
Apply(op, l, r) ==
  CASE op = "+"  -> Signed(l + r)
    [] op = "-"  -> Signed(l - r)
    [] op = "*"  -> Signed(l * r)
    [] op = "==" -> Truth(l = r)
    [] op = "<"  -> Truth(l < r)
    [] op = "&&" -> Truth(l # 0 /\ r # 0)
BinaryOps == {"+", "-", "*", "==", "<", "&&"}

ApplyUnary(op, v) ==
  CASE op = "neg" -> Signed(-v)
    [] op = "not" -> Truth(v = 0)
    [] op = "inv" -> Signed(-v - 1)
UnaryOps == {"neg", "not", "inv"}

(* Where the weavers put the constant truth section: after the code and    *)
(* the mirror state, each on its own pages in an EXE; the address the      *)
(* image is loaded at, and the section's contents.                         *)
LoadBase == 2000
MirrorSize == WordBytes * Cardinality(Globals)
Aligned(n) == IF Format = "EXE" THEN ((n + Align - 1) \div Align) * Align ELSE n
TruthBase == Aligned(Len(mc.code)) + Aligned(MirrorSize)
ByteOf(v, i) == (v \div Values(i)) % (ByteMax + 1)
InitialTruth ==
  [a \in (LoadBase + TruthBase)..(LoadBase + TruthBase + TruthSize - 1) |->
     LET at == a - (LoadBase + TruthBase)
         i == CHOOSE j \in Stored : at \in TruthOffset(j)..(TruthOffset(j) + StorageSize(j) - 1)
     IN  IF Program[i].hasInit /\ StorageSize(i) <= WordBytes
         THEN ByteOf(Program[i].init % Values(WordBytes), at - TruthOffset(i)) ELSE 0]

Holds(m, a) == IF a \in DOMAIN m.mem THEN m.mem[a] ELSE 0
Read(m, a, w) ==
  LET bytes[i \in 0..w] == IF i = 0 THEN 0 ELSE bytes[i - 1] + Holds(m, a + i - 1) * Values(i - 1)
  IN  IF w = WordBytes THEN Signed(bytes[w]) ELSE bytes[w]
Word(m, a) == Read(m, a, WordBytes)

Write(m, a, v, w) ==
  [m EXCEPT !.mem = [b \in DOMAIN @ \cup a..(a + w - 1) |->
     IF b \in a..(a + w - 1) THEN ByteOf(v % Values(WordBytes), b - a) ELSE @[b]]]

Push(m, v) == [Write(m, m.sp - WordBytes, v, WordBytes) EXCEPT !.sp = @ - WordBytes]
Top(m) == Word(m, m.sp)
Pop(m) == [m EXCEPT !.sp = @ + WordBytes]
Argument(m, i) ==
  IF i <= RegArgs THEN m.args[i] ELSE Word(m, m.bp + WordBytes * (2 + (i - 1 - RegArgs)))

FuncAt(offset) == {f \in DOMAIN mc.funcs : mc.funcs[f].start = offset}
Entered(m, pc) ==
  [m EXCEPT !.pc = pc,
            !.frames = << [f |-> FuncAt(pc), sp |-> m.sp, bp |-> m.bp] >> \o @]
Left(m) == [Pop(m) EXCEPT !.pc = Top(m), !.frames = IF @ = << >> THEN @ ELSE Tail(@)]

(* m has already moved past the instruction.                               *)
After(m, i) ==
  CASE i.op = "imm"     -> [m EXCEPT !.acc = i.n]
    [] i.op = "arg"     -> [m EXCEPT !.acc = Argument(m, i.n)]
    [] i.op = "load"    -> [m EXCEPT !.acc = Word(m, m.bp + i.n)]
    [] i.op = "store"   -> Write(m, m.bp + i.n, m.acc, i.w)
    [] i.op = "frame"   -> [m EXCEPT !.acc = m.bp + i.n]
    [] i.op = "fetch"   -> [m EXCEPT !.acc = Read(m, m.acc, i.w)]
    [] i.op = "put"     -> Write(m, m.acc, m.rcx, i.w)
    [] i.op = "addacc"  -> [m EXCEPT !.acc = Signed(@ + i.n)]
    [] i.op = "trunc"   -> [m EXCEPT !.acc = @ % Values(i.w)]
    [] i.op = "popacc"  -> [Pop(m) EXCEPT !.acc = Top(m)]
    [] i.op = "lea"     -> [m EXCEPT !.acc = LoadBase + m.pc + i.n]
    [] i.op = "gaddr"   -> [m EXCEPT !.acc = LoadBase + m.pc + i.n]
    [] i.op = "terminate" -> [m EXCEPT !.pc = Exit]
    [] i.op = "push"    -> Push(m, m.acc)
    [] i.op = "popc"    -> [Pop(m) EXCEPT !.rcx = Top(m)]
    [] i.op = "poparg"  -> [Pop(m) EXCEPT !.args[i.n] = Top(m)]
    [] i.op = "subsp"   -> [m EXCEPT !.sp = @ - i.n]
    [] i.op = "addsp"   -> [m EXCEPT !.sp = @ + i.n]
    [] i.op = "pushbp"  -> Push(m, m.bp)
    [] i.op = "mov bp sp" -> [m EXCEPT !.bp = m.sp]
    [] i.op = "leave"   -> LET n == [m EXCEPT !.sp = m.bp] IN [Pop(n) EXCEPT !.bp = Top(n)]
    [] i.op = "jmp"     -> [m EXCEPT !.pc = @ + i.n]
    [] i.op = "jz"      -> IF m.acc = 0 THEN [m EXCEPT !.pc = @ + i.n] ELSE m
    [] i.op = "call"    -> Entered(Push(m, m.pc), m.pc + i.n)
    [] i.op = "ret"     -> Left(m)
    [] i.op = "iretq"   -> Pop(Left(m))
    [] i.op \in BinaryOps -> [m EXCEPT !.acc = Apply(i.op, m.rcx, m.acc)]
    [] i.op \in UnaryOps  -> [m EXCEPT !.acc = ApplyUnary(i.op, m.acc)]

StackSize == WordBytes * StackWords
Reset ==
  [pc |-> Exit, acc |-> 0, rcx |-> 0, args |-> [i \in 1..RegArgs |-> 0],
   sp |-> StackSize, bp |-> StackSize, mem |-> [a \in {} |-> 0],
   frames |-> << >>]

(***************************************************************************)
(* Dead functions (trace_calls): an EXE keeps its entry, its gates, and    *)
(* every function whose name occurs in a function it keeps, called or not. *)
(***************************************************************************)
RECURSIVE Names(_), NamesIn(_), Reached(_)

NamesOfCall(e) == {e.f} \cup UNION {Names(e.args[i]) : i \in DOMAIN e.args}

Names(e) ==
  CASE e.k = "id"   -> {e.x}
    [] e.k = "bin"  -> Names(e.l) \cup Names(e.r)
    [] e.k = "call" -> NamesOfCall(e)
    [] e.k \in {"unary", "cast", "ref"} -> Names(e.e)
    [] e.k = "field" -> Names(e.o)
    [] e.k = "index" -> Names(e.o) \cup Names(e.i)
    [] OTHER        -> {}

NamesIn(ss) ==
  LET of(s) ==
        CASE s.k \in {"ret", "expr"} -> Names(s.e)
          [] s.k = "set"   -> {s.x} \cup Names(s.e)
          [] s.k = "put"   -> Names(s.to) \cup Names(s.e)
          [] s.k = "var"   -> Names(s.init)
          [] s.k = "if"    -> Names(s.c) \cup NamesIn(s.t) \cup NamesIn(s.e)
          [] s.k = "while" -> Names(s.c) \cup NamesIn(s.b)
          [] s.k = "break" -> {}
          [] OTHER         -> NamesIn(s.ss)
  IN  UNION {of(ss[i]) : i \in DOMAIN ss}

Defined == {i \in DOMAIN Program : Program[i].k = "func"}

(* trace_mark_function_reachable: the first definition of the name.        *)
Marked(x) ==
  LET ds == {i \in Defined : Program[i].name = x} IN IF ds = {} THEN {} ELSE {First(ds)}

Reached(fs) ==
  LET all == fs \cup UNION {Marked(x) : x \in UNION {NamesIn(Program[i].body) : i \in fs}}
  IN  IF all = fs THEN fs ELSE Reached(all)

Gates == {i \in Defined : Program[i].gate # "none"}

(***************************************************************************)
(* The entry: the first decorated function, or else the last one with the  *)
(* name asked for; a ROM asks for rom/entry by default.  An EXE calls it   *)
(* by name from the portal; elsewhere it is the offset of the last of the  *)
(* emitted functions that are decorated or have the name.                  *)
(***************************************************************************)
RomEntry == "rom/entry"
Decorated == {i \in Defined : Program[i].entry}
Asked == IF src.asked = NoName /\ Format = "ROM" THEN RomEntry ELSE src.asked
EntryName ==
  IF Asked = NoName /\ Decorated # {} THEN Program[First(Decorated)].name ELSE Asked
IsEntry(i) == i \in Decorated \/ Program[i].name = EntryName

(* The body of codegen_generate's search, a set of at most one function.   *)
EntryDecl ==
  LET named == {i \in Defined : Program[i].name = Asked}
  IN  IF Decorated # {} THEN {First(Decorated)}
      ELSE {i \in named : \A j \in named : j <= i}

Kept == IF Format = "EXE" THEN Reached(EntryDecl \cup Gates) ELSE Defined

(* mc_emit_exe_portal_entry: the first code of an EXE calls the entry and  *)
(* ends the process with its result.                                       *)
PortalFrame == 128
Portal(c) ==
  LET framed == Ins(Ins(Ins(c, "pushbp", 0), "mov bp sp", 0), "subsp", PortalFrame)
  IN  Epilogue(MovAccImm(Ins(CallOf(framed, EntryName), "terminate", 0), 0))

(***************************************************************************)
(* Behaviour.                                                              *)
(***************************************************************************)
NoCode ==
  [code |-> << >>, calls |-> {}, relocs |-> {}, entry |-> 0, keep |-> {},
   structs |-> << >>, buffer |-> NoType, hardware |-> FALSE,
   funcs |-> << >>, labels |-> << >>,
   branches |-> {}, locals |-> << >>, alloc |-> 0, planned |-> 0, returns |-> FALSE,
   break |-> NoLoop, ok |-> TRUE]

Init ==
  /\ \E i \in DOMAIN Programs :
       src = [decls |-> Programs[i], format |-> Formats[i], asked |-> EntryNames[i]]
  /\ phase = "start"
  /\ next = 1
  /\ mc = NoCode
  /\ cpu = Reset

(* The declarations are known: structures are laid out, the entry is       *)
(* found, dead functions are marked and the portal is emitted.  An EXE     *)
(* must have an entry.                                                     *)
Prepare ==
  /\ phase = "start"
  /\ phase' = IF Format = "EXE" /\ EntryDecl = {} THEN "failed" ELSE "emit"
  /\ mc' = [(IF Format = "EXE" /\ EntryDecl # {} THEN Portal(mc) ELSE mc) EXCEPT
              !.keep = Kept, !.structs = LayoutsOf(<< >>, Program)]
  /\ UNCHANGED <<src, next, cpu>>

At(k) == phase = "emit" /\ next <= Len(Program) /\ Program[next].k = k

(* A global and a structure are entered before the functions and emit no   *)
(* code; an extern function only enters the symbol table.                  *)
Declare ==
  /\ At("global") \/ At("extern") \/ At("struct")
  /\ next' = next + 1
  /\ UNCHANGED <<src, phase, mc, cpu>>

(* A function trace_calls has not reached is skipped.                      *)
SkipFunction ==
  /\ At("func") /\ next \notin mc.keep
  /\ next' = next + 1
  /\ UNCHANGED <<src, phase, mc, cpu>>

(* Outside an EXE the entry moves to a function that is an entry.          *)
EntryMoved(c) ==
  IF Format # "EXE" /\ IsEntry(next)
  THEN [c EXCEPT !.entry = FuncNamed(c, Program[next].name).start]
  ELSE c

EmitFunction ==
  /\ At("func") /\ next \in mc.keep
  /\ \E c \in {FunctionOf(mc, Program[next])} : mc' = EntryMoved(c)
  /\ next' = next + 1
  /\ phase' = IF mc'.ok THEN "emit" ELSE "failed"
  /\ UNCHANGED <<src, cpu>>

(* A fault: the displacement counts from the call itself.                  *)
Displacement_FromField(f, call) == f.start - (call.at - 1)

Displacement(f, call) == f.start - call.at

TruthDisplacement(off, at) == TruthBase + off - at

(* mc_resolve_calls: the first function of that name, or a relocation.     *)
(* Then the references to globals get their displacements, and a program   *)
(* entered at its first byte looks for rom/entry once more.                *)
ResolveCalls ==
  LET resolved == {call \in mc.calls : Named(mc.funcs, call.name) # {}}
      calls == {c.at : c \in resolved}
      call(i) == CHOOSE c \in resolved : c.at = i
      callee(i) == FuncNamed(mc, call(i).name)
      fixups == {i \in DOMAIN mc.code : mc.code[i].op = "gaddr"}
      rom == Named(mc.funcs, RomEntry)
  IN  /\ phase = "emit" /\ next > Len(Program)
      /\ mc' = [mc EXCEPT
                  !.code = [i \in DOMAIN @ |->
                      IF i \in calls THEN [@[i] EXCEPT !.n = Displacement(callee(i), call(i))]
                      ELSE IF i \in fixups THEN [@[i] EXCEPT !.n = TruthDisplacement(mc.code[i].n, i)]
                      ELSE @[i]],
                  !.entry = IF @ = 0 /\ Format # "EXE" /\ rom # {}
                            THEN mc.funcs[First(rom)].start ELSE @,
                  !.relocs = mc.calls \ resolved]
      /\ phase' = "linked"
      /\ UNCHANGED <<src, next, cpu>>

(* The image is entered at its entry point: called, or, an interrupt       *)
(* handler, entered with the flags above the return address.               *)
EntryGates == {mc.funcs[f].gate : f \in FuncAt(mc.entry)}

Start ==
  /\ phase = "linked"
  /\ phase' = "run"
  /\ cpu' = LET loaded == [cpu EXCEPT !.mem = InitialTruth]
                flagged == IF "interrupt" \in EntryGates THEN Push(loaded, 0) ELSE loaded
            IN  Entered(Push(flagged, Exit), mc.entry)
  /\ UNCHANGED <<src, next, mc>>

Current == mc.code[cpu.pc + 1]

Execute ==
  /\ phase = "run"
  /\ cpu.pc \in 0..(Len(mc.code) - 1)
  /\ cpu.sp > 2 * WordBytes
  /\ cpu' = After([cpu EXCEPT !.pc = @ + 1], Current)
  /\ phase' = IF cpu'.pc = Exit THEN "done" ELSE "run"
  /\ UNCHANGED <<src, next, mc>>

Stopped == phase \in {"done", "failed"} /\ UNCHANGED vars

Next == Prepare \/ Declare \/ SkipFunction \/ EmitFunction \/ ResolveCalls \/ Start \/ Execute
        \/ Stopped

(* The processor goes on to the next instruction.                          *)
Spec == Init /\ [][Next]_vars /\ WF_vars(Execute)
=============================================================================
