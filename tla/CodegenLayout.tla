---------------------------- MODULE CodegenLayout ----------------------------
(***************************************************************************)
(* Types and structure layouts of the code generator (aec_codegen.c).  The *)
(* generator keeps a type as the text of its name; here a type is a record *)
(*   int n       an integer of n bytes                                     *)
(*   ptr of      ptr<of>                                                   *)
(*   array len of                                                          *)
(*   struct name                                                           *)
(*   none        no type was given                                         *)
(* Left out are views, vectors, the other spellings of a pointer, and a    *)
(* field named without its first letter.                                   *)
(***************************************************************************)
EXTENDS Integers, Sequences, Bitwise

WordBytes == 8
NoType == [k |-> "none"]
IsPtr(t) == t.k = "ptr"

(* mc_find_struct: the layouts known so far are a sequence; a name has at  *)
(* most one.                                                               *)
Layouts(known, t) ==
  {i \in DOMAIN known : t.k = "struct" /\ known[i].name = t.name}
IsStruct(known, t) == Layouts(known, t) # {}
LayoutOf(known, t) == known[CHOOSE i \in Layouts(known, t) : TRUE]

(* mc_find_struct_field: the fields of that name, of which the first       *)
(* counts, as a set of at most one.                                        *)
Fields(layout, name) ==
  {layout.fields[i] : i \in {j \in DOMAIN layout.fields :
     /\ layout.fields[j].name = name
     /\ \A k \in 1..(j - 1) : layout.fields[k].name # name}}
FieldsOf(known, t, name) ==
  IF IsStruct(known, t) THEN Fields(LayoutOf(known, t), name) ELSE {}

(* mc_type_size_from_name: a structure that is not known takes a word.     *)
RECURSIVE SizeOf(_, _)
SizeOf(known, t) ==
  CASE t.k = "int"    -> t.n
    [] t.k = "array"  -> (IF t.len = 0 THEN 1 ELSE t.len) * SizeOf(known, t.of)
    [] t.k = "struct" -> IF IsStruct(known, t) THEN LayoutOf(known, t).size ELSE WordBytes
    [] OTHER          -> WordBytes

(* mc_ptr_elem_size_from_type: what one step of an index is worth.         *)
ElemOf(known, t) == IF t.k \in {"ptr", "array"} THEN SizeOf(known, t.of) ELSE 1

(* mc_align_up_u32 clears the bits of the mask.                            *)
AlignUp(v, align) == (v + align - 1) - ((v + align - 1) & (align - 1))

(* mc_local_slot_size: whole words, one at least.                          *)
SlotSize(known, t) ==
  LET size == SizeOf(known, t) IN AlignUp(IF size > WordBytes THEN size ELSE WordBytes, WordBytes)

(***************************************************************************)
(* mc_add_struct_layout.  The alignment of a field is its size, that of an *)
(* array its element's and that of a known structure a word, a word at     *)
(* most; a packed structure has none.                                      *)
(***************************************************************************)
FieldAlign(known, t) ==
  LET wanted == CASE t.k = "array" -> SizeOf(known, t.of)
                  [] IsStruct(known, t) -> WordBytes
                  [] OTHER -> SizeOf(known, t)
  IN  CASE wanted > WordBytes -> WordBytes
        [] wanted = 0 -> 1
        [] OTHER -> wanted

Placed(known, d, l, f) ==
  LET align == IF d.packed THEN 1 ELSE FieldAlign(known, f.type)
      offset == AlignUp(l.size, align)
      size == SizeOf(known, f.type)
  IN  [l EXCEPT !.size = offset + size,
                !.align = IF align > @ THEN align ELSE @,
                !.fields = Append(@, [name |-> f.name, type |-> f.type,
                                      offset |-> offset, size |-> size])]

RECURSIVE PlaceAll(_, _, _, _)
PlaceAll(known, d, l, fs) ==
  IF fs = << >> THEN l ELSE PlaceAll(known, d, Placed(known, d, l, Head(fs)), Tail(fs))

Rounded(d, l) == [l EXCEPT !.size = IF d.packed THEN @ ELSE AlignUp(@, l.align)]

AddLayout(known, d) ==
  IF IsStruct(known, [k |-> "struct", name |-> d.name]) THEN known
  ELSE Append(known, Rounded(d, PlaceAll(known, d,
         [name |-> d.name, size |-> 0, align |-> 1, fields |-> << >>], d.fields)))

(* The declarations of a program in their order.                           *)
RECURSIVE LayoutsOf(_, _)
LayoutsOf(known, ds) ==
  IF ds = << >> THEN known
  ELSE LayoutsOf(IF Head(ds).k = "struct" THEN AddLayout(known, Head(ds)) ELSE known, Tail(ds))
=============================================================================
