----------------------------- MODULE AefsSegment -----------------------------
(***************************************************************************)
(* The Segment Summary Area of an AEFS segment (mkiso/aefs/aefs.c): a      *)
(* bitmap of two bits per block and the counters the garbage collector     *)
(* chooses segments by.  The calls are sequential; what can go wrong is a  *)
(* sequence of accepted calls after which the counters no longer agree     *)
(* with the bitmap, a write outside the bitmap, and 32-bit arithmetic on   *)
(* the way to the priority.  Timestamps are left out.                      *)
(*                                                                         *)
(* The caller is free: it passes any index and size.  The history variable *)
(* tracked remembers whether it has so far marked LIVE only FREE blocks    *)
(* and passed for a DEAD block the size it was marked LIVE with.           *)
(***************************************************************************)
EXTENDS Integers, FiniteSets, Functions

CONSTANTS
  BitmapBytes,   \* sizeof(ssa->block_bitmap), 512
  MaxIndex,      \* the limit the guards test, 4096
  BlockSize,     \* AEFS_BLOCK_SIZE, 4096
  Sizes,         \* the sizes callers pass for a block
  Word,          \* 2^32, the modulus of the uint32_t counters
  MaxUsed        \* bound of the model: marks ever made

ASSUME SegmentAssumption ==
  /\ BitmapBytes \in Nat \ {0} /\ MaxIndex \in Nat /\ MaxUsed \in Nat
  /\ Word \in Nat \ {0} /\ Sizes \subseteq 1..Word-1

VARIABLES
  block,   \* ssa->block_bitmap, decoded
  used,    \* ssa->num_blocks_used
  live,    \* ssa->live_bytes
  dead,    \* ssa->dead_bytes
  prio,    \* ssa->gc_priority
  size,    \* history: the size each block was last marked LIVE with
  tracked, \* history: the caller has tracked its blocks
  fresh    \* history: the priority was computed after the last mark

vars == <<block, used, live, dead, prio, size, tracked, fresh>>

Capacity == 4 * BitmapBytes
Blocks == 0..Capacity-1

(* No block is larger than AEFS_BLOCK_SIZE, and a hundred times the bytes  *)
(* of a full bitmap (8 MiB) is still a 32-bit word: beyond that the        *)
(* counters and the product in aefs_update_gc_priority wrap.               *)
ASSUME BlockSizeAssumption ==
  /\ BlockSize \in Nat /\ Sizes \subseteq 1..BlockSize
  /\ 100 * (Capacity * BlockSize) < Word

States == {"FREE", "LIVE", "DEAD", "RESERVED"}

(* AEFS_GC_PRIORITY_LOWEST .. AEFS_GC_PRIORITY_HIGH.                       *)
Lowest == 0
Low == 1
Normal == 2
High == 3

(* A fault: the byte the block's bits are in is not tested.                *)
Addressable_IndexOnly(b) == b < MaxIndex

(* The guards of aefs_block_get_state and aefs_block_set_state: the index  *)
(* limit, then the byte the block's bits are in.                           *)
Addressable(b) == b < MaxIndex /\ b \div 4 < BitmapBytes

(* A function stored through at b, wherever b lies.                        *)
Stored(f, b, v) ==
  [x \in DOMAIN f \cup {b} |-> IF x = b THEN v ELSE f[x]]

InState(st) == {b \in Blocks : block[b] = st}

(* aefs_init_segment_summary.                                              *)
Init ==
  /\ block = [b \in Blocks |-> "FREE"]
  /\ used = 0 /\ live = 0 /\ dead = 0
  /\ prio = Lowest
  /\ size = [b \in Blocks |-> 0]
  /\ tracked = TRUE
  /\ fresh = TRUE

(* aefs_block_mark_live: whatever the block was before, it is counted.     *)
MarkLive(b, sz) ==
  /\ Addressable(b)
  /\ used < MaxUsed
  /\ block' = Stored(block, b, "LIVE")
  /\ used' = (used + 1) % Word
  /\ live' = (live + sz) % Word
  /\ size' = Stored(size, b, sz)
  /\ tracked' = (tracked /\ b \in InState("FREE"))
  /\ fresh' = FALSE
  /\ UNCHANGED <<dead, prio>>

(* A fault: the bytes of a dead block stay counted as live.                *)
MarkDead_KeepsLive(b, sz) ==
  /\ Addressable(b) /\ block[b] = "LIVE"
  /\ block' = Stored(block, b, "DEAD")
  /\ dead' = (dead + sz) % Word
  /\ tracked' = (tracked /\ sz = size[b])
  /\ fresh' = FALSE
  /\ UNCHANGED <<used, live, prio, size>>

(* A fault: a block that is not LIVE is accepted.                          *)
MarkDead_AnyState(b, sz) ==
  /\ Addressable(b)
  /\ block' = Stored(block, b, "DEAD")
  /\ live' = IF live >= sz THEN live - sz ELSE live
  /\ dead' = (dead + sz) % Word
  /\ tracked' = (tracked /\ sz = size[b])
  /\ fresh' = FALSE
  /\ UNCHANGED <<used, prio, size>>

(* aefs_block_mark_dead: only a LIVE block; the live bytes go down only    *)
(* when they do not become negative.                                       *)
MarkDead(b, sz) ==
  /\ Addressable(b) /\ block[b] = "LIVE"
  /\ block' = Stored(block, b, "DEAD")
  /\ live' = IF live >= sz THEN live - sz ELSE live
  /\ dead' = (dead + sz) % Word
  /\ tracked' = (tracked /\ sz = size[b])
  /\ fresh' = FALSE
  /\ UNCHANGED <<used, prio, size>>

(* A fault: the thresholds are tested from the lowest up.                  *)
Priority_LowFirst(ratio) ==
  IF ratio > 30 THEN Low ELSE IF ratio > 60 THEN Normal
  ELSE IF ratio > 80 THEN High ELSE Lowest

Priority(ratio) ==
  IF ratio > 80 THEN High ELSE IF ratio > 60 THEN Normal
  ELSE IF ratio > 30 THEN Low ELSE Lowest

(* aefs_update_gc_priority: sum, product and quotient are uint32_t.        *)
UpdateGcPriority ==
  LET total == (live + dead) % Word IN
  /\ prio' = IF total = 0 THEN Lowest
             ELSE Priority(((dead * 100) % Word) \div total)
  /\ fresh' = TRUE
  /\ UNCHANGED <<block, used, live, dead, size, tracked>>

Next ==
  \/ \E b \in 0..MaxIndex, sz \in Sizes : MarkLive(b, sz) \/ MarkDead(b, sz)
  \/ UpdateGcPriority

Spec == Init /\ [][Next]_vars

-----------------------------------------------------------------------------
(* The counters are 32-bit words and no mark stores outside the bitmap,    *)
(* although the index limit of the guards is twice what the bitmap holds.  *)
TypeOK ==
  /\ block \in [Blocks -> States]
  /\ used \in 0..Word-1 /\ live \in 0..Word-1 /\ dead \in 0..Word-1
  /\ prio \in Lowest..High
  /\ size \in [Blocks -> 0..Word-1]
  /\ tracked \in BOOLEAN /\ fresh \in BOOLEAN

SizesOf(st) == SumFunctionOnSet(size, InState(st))

(* For a caller that tracks its blocks, live_bytes and dead_bytes are the  *)
(* sizes of the LIVE and of the DEAD blocks (aefs.h, the fields of         *)
(* AEFS_Segment_Summary), over any order of marks.                         *)
BytesMatchBitmap ==
  tracked => /\ live = SizesOf("LIVE")
             /\ dead = SizesOf("DEAD")

(* The collector's order is right when it looks: for a tracking caller a   *)
(* segment with nothing live is the first to be collected, one with        *)
(* nothing dead the last, and a mostly live one never before a mostly dead *)
(* one.                                                                    *)
PriorityOrdersSegments ==
  tracked /\ fresh =>
    /\ InState("DEAD") # {} /\ InState("LIVE") = {} => prio = High
    /\ InState("DEAD") = {} => prio = Lowest
    /\ dead > live => prio >= Low
    /\ prio = High => dead > 4 * live

(* Whatever the caller passes, bytes are counted dead only in a step that  *)
(* turns a LIVE block DEAD: a FREE block is never reclaimed and a DEAD one *)
(* is not counted twice when the call is repeated.                         *)
OnlyDyingBlocksCountDead ==
  [][dead' # dead =>
       \E b \in Blocks : block[b] = "LIVE" /\ block'[b] = "DEAD"]_vars
=============================================================================
