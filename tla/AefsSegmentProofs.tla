-------------------------- MODULE AefsSegmentProofs --------------------------
(* Theorems about AefsSegment for every bitmap size, index limit and word. *)
EXTENDS AefsSegment, DataInduction

(* A value reduced to a word is a word.                                    *)
LEMMA ModInWord == ASSUME NEW n \in Int PROVE n % Word \in 0..Word-1
  BY SegmentAssumption DEF SegmentAssumption

(* The guards of the bitmap accessors admit only blocks of the bitmap,     *)
(* whatever the index limit.                                               *)
LEMMA AddressableInBitmap ==
  ASSUME NEW b \in Nat, Addressable(b)
  PROVE  b \in Blocks
  BY SegmentAssumption DEF SegmentAssumption, Addressable, Blocks, Capacity

(* A store at a block of the bitmap keeps the shape of the function.       *)
LEMMA StoredType ==
  ASSUME NEW S, NEW f \in [Blocks -> S], NEW b \in Blocks, NEW v \in S
  PROVE  /\ Stored(f, b, v) \in [Blocks -> S]
         /\ Stored(f, b, v)[b] = v
  BY DEF Stored

(* Every step keeps the types: the bitmap is never stored outside.         *)
LEMMA TypeStep == ASSUME TypeOK, [Next]_vars PROVE TypeOK'
<1> USE SegmentAssumption DEF SegmentAssumption
<1>1. ASSUME NEW b \in 0..MaxIndex, NEW sz \in Sizes, MarkLive(b, sz)
      PROVE  TypeOK'
  <2>1. b \in Blocks
    BY <1>1, AddressableInBitmap DEF MarkLive
  <2>2. /\ block' \in [Blocks -> States]
        /\ size' \in [Blocks -> 0..Word-1]
    <3>1. block' = Stored(block, b, "LIVE") /\ size' = Stored(size, b, sz)
      BY <1>1 DEF MarkLive
    <3>2. "LIVE" \in States /\ sz \in 0..Word-1
      BY DEF States
    <3>3. block \in [Blocks -> States] /\ size \in [Blocks -> 0..Word-1]
      BY DEF TypeOK
    <3>4. Stored(block, b, "LIVE") \in [Blocks -> States]
      BY <2>1, <3>2, <3>3, StoredType
    <3>5. Stored(size, b, sz) \in [Blocks -> 0..Word-1]
      BY <2>1, <3>2, <3>3, StoredType
    <3> QED BY <3>1, <3>4, <3>5
  <2>3. used' \in 0..Word-1 /\ live' \in 0..Word-1
    <3>1. used + 1 \in Int /\ live + sz \in Int
      BY DEF TypeOK
    <3> QED BY <1>1, <3>1, ModInWord DEF MarkLive
  <2>4. tracked' \in BOOLEAN /\ fresh' \in BOOLEAN
    BY <1>1, Zenon DEF MarkLive
  <2> QED BY <1>1, <2>2, <2>3, <2>4 DEF MarkLive, TypeOK
<1>2. ASSUME NEW b \in 0..MaxIndex, NEW sz \in Sizes, MarkDead(b, sz)
      PROVE  TypeOK'
  <2>1. b \in Blocks
    BY <1>2, AddressableInBitmap DEF MarkDead
  <2>2. block' \in [Blocks -> States]
    BY <1>2, <2>1, StoredType DEF MarkDead, TypeOK, States
  <2>3. dead' \in 0..Word-1
    <3>1. dead + sz \in Int
      BY DEF TypeOK
    <3> QED BY <1>2, <3>1, ModInWord DEF MarkDead
  <2>4. live' \in 0..Word-1
    BY <1>2 DEF MarkDead, TypeOK
  <2>5. tracked' \in BOOLEAN /\ fresh' \in BOOLEAN
    BY <1>2, Zenon DEF MarkDead
  <2> QED BY <1>2, <2>2, <2>3, <2>4, <2>5 DEF MarkDead, TypeOK
<1>3. CASE UpdateGcPriority
  <2>1. prio' \in Lowest..High
    BY <1>3 DEF UpdateGcPriority, Priority, Lowest, Low, Normal, High
  <2> QED BY <1>3, <2>1 DEF UpdateGcPriority, TypeOK
<1>4. CASE UNCHANGED vars
  BY <1>4 DEF vars, TypeOK
<1> QED BY <1>1, <1>2, <1>3, <1>4 DEF Next

(* No sequence of calls, whatever index and size they pass, stores outside *)
(* the bitmap or leaves a counter that is not a word.                      *)
THEOREM SegmentTypeCorrect == Spec => []TypeOK
<1>1. Init => TypeOK
  BY SegmentAssumption DEF SegmentAssumption, Init, TypeOK, States, Lowest, High
<1>2. TypeOK /\ [Next]_vars => TypeOK'
  BY TypeStep
<1> QED BY <1>1, <1>2, PTL DEF Spec

(* Only a LIVE block's bytes are ever counted dead, and only once, for     *)
(* every caller.                                                           *)
THEOREM DeadBytesOnlyFromLive == Spec => OnlyDyingBlocksCountDead
<1> DEFINE Dying == \E b \in Blocks : block[b] = "LIVE" /\ block'[b] = "DEAD"
<1>1. TypeOK /\ [Next]_vars => [dead' # dead => Dying]_vars
  <2> SUFFICES ASSUME TypeOK, Next, dead' # dead PROVE Dying
    BY DEF vars
  <2>1. PICK b \in 0..MaxIndex, sz \in Sizes : MarkDead(b, sz)
    BY DEF Next, MarkLive, UpdateGcPriority
  <2>2. b \in Blocks
    BY <2>1, SegmentAssumption, AddressableInBitmap
    DEF MarkDead, SegmentAssumption
  <2>3. block[b] = "LIVE" /\ block'[b] = "DEAD"
    BY <2>1, <2>2 DEF MarkDead, Stored
  <2> QED BY <2>2, <2>3
<1>2. OnlyDyingBlocksCountDead <=> [][dead' # dead => Dying]_vars
  BY DEF OnlyDyingBlocksCountDead
<1> QED BY <1>1, <1>2, SegmentTypeCorrect, PTL DEF Spec

-----------------------------------------------------------------------------
(* The sums of the sizes of blocks. *)

LEMMA SetsOfBlocks ==
  /\ IsFiniteSet(Blocks) /\ Cardinality(Blocks) = Capacity /\ Capacity \in Nat
  /\ \A S \in SUBSET Blocks : /\ IsFiniteSet(S) /\ Cardinality(S) \in Nat
                              /\ Cardinality(S) <= Capacity
<1>1. Capacity \in Nat
  BY SegmentAssumption DEF SegmentAssumption, Capacity
<1>2. IsFiniteSet(Blocks) /\ Cardinality(Blocks) = Capacity
  BY <1>1, FS_Interval DEF Blocks
<1> QED BY <1>1, <1>2, FS_Subset, FS_CardinalityType

(* A sum of naturals is one, and no less than any of its parts.            *)
LEMMA SumIsNat ==
  ASSUME NEW f, NEW S, IsFiniteSet(S), \A x \in S : f[x] \in Nat
  PROVE  /\ SumFunctionOnSet(f, S) \in Nat
         /\ \A x \in S : f[x] <= SumFunctionOnSet(f, S)
<1> DEFINE T == {n \in Nat : \A R \in SUBSET S :
                    Cardinality(R) = n => SumFunctionOnSet(f, R) \in Nat}
<1>1. 0 \in T
  <2>1. \A R \in SUBSET S : Cardinality(R) = 0 => R = {}
    BY FS_Subset, FS_EmptySet
  <2> QED BY <2>1, SumOfNone
<1>2. ASSUME NEW n \in Nat, n \in T PROVE n + 1 \in T
  <2>1. ASSUME NEW R \in SUBSET S, Cardinality(R) = n + 1
        PROVE  SumFunctionOnSet(f, R) \in Nat
    <3>1. R # {} /\ IsFiniteSet(R)
      BY <2>1, FS_EmptySet, FS_Subset
    <3>2. PICK x \in R : TRUE
      BY <3>1
    <3>3. R \ {x} \in SUBSET S /\ Cardinality(R \ {x}) = n
      BY <2>1, <3>1, SmallerSubset
    <3>4. SumFunctionOnSet(f, R) = f[x] + SumFunctionOnSet(f, R \ {x})
      <4>1. \A y \in R : f[y] \in Int
        OBVIOUS
      <4> QED BY <3>1, <4>1, SumOfAny
    <3>5. SumFunctionOnSet(f, R \ {x}) \in Nat /\ f[x] \in Nat
      BY <1>2, <3>3
    <3> QED BY <3>4, <3>5
  <2> QED BY <2>1
<1>3. \A n \in Nat : n \in T
  <2> HIDE DEF T
  <2> QED BY <1>1, <1>2, SetInduction
<1>4. \A R \in SUBSET S : SumFunctionOnSet(f, R) \in Nat
  BY <1>3, FS_Subset, FS_CardinalityType
<1>5. ASSUME NEW x \in S PROVE f[x] <= SumFunctionOnSet(f, S)
  <2>1. SumFunctionOnSet(f, S) = f[x] + SumFunctionOnSet(f, S \ {x})
    <3>1. \A y \in S : f[y] \in Int
      OBVIOUS
    <3> QED BY <3>1, SumOfAny
  <2>2. SumFunctionOnSet(f, S \ {x}) \in Nat /\ f[x] \in Nat
    BY <1>4
  <2> QED BY <2>1, <2>2
<1> QED BY <1>4, <1>5

(* A sum of values up to m is at most m for each of them.                  *)
LEMMA SumBound ==
  ASSUME NEW f, NEW S, IsFiniteSet(S), NEW m \in Nat, \A x \in S : f[x] \in 0..m
  PROVE  SumFunctionOnSet(f, S) <= Cardinality(S) * m
<1> DEFINE T == {n \in Nat : \A R \in SUBSET S :
                    Cardinality(R) = n => SumFunctionOnSet(f, R) <= n * m}
<1>1. 0 \in T
  <2>1. \A R \in SUBSET S : Cardinality(R) = 0 => R = {}
    BY FS_Subset, FS_EmptySet
  <2>2. 0 * m = 0 /\ SumFunctionOnSet(f, {}) <= 0
    BY SumOfNone
  <2> QED BY <2>1, <2>2
<1>2. ASSUME NEW n \in Nat, n \in T PROVE n + 1 \in T
  <2>1. ASSUME NEW R \in SUBSET S, Cardinality(R) = n + 1
        PROVE  SumFunctionOnSet(f, R) <= (n + 1) * m
    <3>1. R # {} /\ IsFiniteSet(R)
      BY <2>1, FS_EmptySet, FS_Subset
    <3>2. PICK x \in R : TRUE
      BY <3>1
    <3>3. R \ {x} \in SUBSET S /\ Cardinality(R \ {x}) = n
      BY <2>1, <3>1, SmallerSubset
    <3>4. SumFunctionOnSet(f, R) = f[x] + SumFunctionOnSet(f, R \ {x})
      <4>1. \A y \in R : f[y] \in Int
        OBVIOUS
      <4> QED BY <3>1, <4>1, SumOfAny
    <3>5. SumFunctionOnSet(f, R \ {x}) <= n * m /\ f[x] \in Nat /\ f[x] <= m
      BY <1>2, <3>3
    <3>6. SumFunctionOnSet(f, R \ {x}) \in Nat
      <4>1. IsFiniteSet(R \ {x}) /\ \A y \in R \ {x} : f[y] \in Nat
        BY <3>1, FS_Subset
      <4> QED BY <4>1, SumIsNat
    <3>7. n * m \in Nat /\ (n + 1) * m = n * m + m
      OBVIOUS
    <3> QED BY <3>4, <3>5, <3>6, <3>7
  <2> QED BY <2>1
<1>3. \A n \in Nat : n \in T
  <2> HIDE DEF T
  <2> QED BY <1>1, <1>2, SetInduction
<1>4. Cardinality(S) \in T
  BY <1>3, FS_CardinalityType
<1> QED BY <1>4

-----------------------------------------------------------------------------
(* The inductive invariant: a block that is LIVE or DEAD has a size of the *)
(* caller's, the bytes match the bitmap, and a priority that is fresh is   *)
(* the one of the bytes counted.                                           *)

SizesKnown == \A b \in Blocks : block[b] \in {"LIVE", "DEAD"} => size[b] \in Sizes

PrioOf(l, d) ==
  IF (l + d) % Word = 0 THEN Lowest
  ELSE Priority(((d * 100) % Word) \div ((l + d) % Word))

IInv ==
  /\ TypeOK /\ SizesKnown /\ BytesMatchBitmap
  /\ fresh => prio = PrioOf(live, dead)

(* The bytes of some blocks: at most a full bitmap of blocks, and at least *)
(* one for every block.                                                    *)
LEMMA BytesOfBlocks ==
  ASSUME NEW f, NEW S \in SUBSET Blocks, \A x \in S : f[x] \in Sizes
  PROVE  /\ SumFunctionOnSet(f, S) \in Nat /\ SumFunctionOnSet(f, S) <= Capacity * BlockSize
         /\ S = {} => SumFunctionOnSet(f, S) = 0
         /\ S # {} => SumFunctionOnSet(f, S) >= 1
<1>1. IsFiniteSet(S) /\ Cardinality(S) \in Nat /\ Cardinality(S) <= Capacity
  BY SetsOfBlocks
<1>2. \A x \in S : f[x] \in 1..BlockSize /\ f[x] \in 0..BlockSize /\ f[x] \in Nat
  <2>1. \A z \in Sizes : z \in 1..BlockSize /\ z \in 0..BlockSize /\ z \in Nat
    BY BlockSizeAssumption
  <2> QED BY <2>1
<1>3. BlockSize \in Nat
  BY BlockSizeAssumption
<1>4. SumFunctionOnSet(f, S) \in Nat /\ \A x \in S : f[x] <= SumFunctionOnSet(f, S)
  BY <1>1, <1>2, SumIsNat
<1>5. SumFunctionOnSet(f, S) <= Cardinality(S) * BlockSize
  BY <1>1, <1>2, <1>3, SumBound
<1>6. Cardinality(S) * BlockSize <= Capacity * BlockSize
  BY <1>1, <1>3, SetsOfBlocks
<1>7. SumFunctionOnSet(f, S) <= Capacity * BlockSize
  <2>1. Cardinality(S) * BlockSize \in Nat /\ Capacity * BlockSize \in Nat
    BY <1>1, <1>3, SetsOfBlocks
  <2> QED BY <2>1, <1>4, <1>5, <1>6
<1>8. S = {} => SumFunctionOnSet(f, S) = 0
  BY SumOfNone
<1>9. S # {} => SumFunctionOnSet(f, S) >= 1
  BY <1>2, <1>4
<1> QED BY <1>4, <1>7, <1>8, <1>9

LEMMA SizesOfState ==
  ASSUME SizesKnown, NEW st \in {"LIVE", "DEAD"}
  PROVE  /\ SizesOf(st) \in Nat /\ SizesOf(st) <= Capacity * BlockSize
         /\ InState(st) = {} => SizesOf(st) = 0
         /\ InState(st) # {} => SizesOf(st) >= 1
<1>1. InState(st) \in SUBSET Blocks /\ \A x \in InState(st) : size[x] \in Sizes
  BY DEF SizesKnown, InState
<1> QED BY <1>1, BytesOfBlocks DEF SizesOf

LEMMA SizesOfStateNext ==
  ASSUME SizesKnown', NEW st \in {"LIVE", "DEAD"}
  PROVE  SizesOf(st)' \in Nat /\ SizesOf(st)' <= Capacity * BlockSize
<1>1. InState(st)' \in SUBSET Blocks /\ \A x \in InState(st)' : size'[x] \in Sizes
  BY DEF SizesKnown, InState
<1> QED BY <1>1, BytesOfBlocks DEF SizesOf

(* Sums of one state's blocks, after a block of another state changes.     *)
LEMMA OthersKeepTheirSum ==
  ASSUME TypeOK, NEW S \in SUBSET Blocks, NEW b \in Blocks, b \notin S, NEW sz
  PROVE  SumFunctionOnSet(Stored(size, b, sz), S) = SumFunctionOnSet(size, S)
<1>1. IsFiniteSet(S)
  BY SetsOfBlocks
<1>2. \A x \in S : size[x] = Stored(size, b, sz)[x]
  BY DEF Stored, TypeOK
<1> QED BY <1>1, <1>2, SumCongruence

LEMMA BlockBytes ==
  /\ Capacity * BlockSize \in Nat /\ 100 * (Capacity * BlockSize) < Word /\ Word \in Nat
  /\ Sizes \subseteq 1..BlockSize /\ BlockSize \in Nat
BY SetsOfBlocks, SegmentAssumption, BlockSizeAssumption DEF SegmentAssumption

LEMMA InitOK == Init => IInv
<1> SUFFICES ASSUME Init PROVE IInv
  OBVIOUS
<1>0. Word \in Nat \ {0}
  BY SegmentAssumption DEF SegmentAssumption
<1>1. TypeOK
  BY <1>0 DEF Init, TypeOK, States, Lowest, High
<1>2. InState("LIVE") = {} /\ InState("DEAD") = {} /\ SizesKnown
  BY DEF Init, InState, SizesKnown
<1>3. BytesMatchBitmap
  BY <1>2, SumOfNone DEF Init, BytesMatchBitmap, SizesOf
<1>4. prio = PrioOf(live, dead)
  BY <1>0 DEF Init, PrioOf
<1> QED BY <1>1, <1>2, <1>3, <1>4 DEF IInv

(* A mark of a FREE block: its size is added to the bytes of the LIVE.     *)
LEMMA MarkLiveOK ==
  ASSUME IInv, TypeOK', NEW b \in 0..MaxIndex, NEW sz \in Sizes, MarkLive(b, sz)
  PROVE  SizesKnown' /\ BytesMatchBitmap'
<1>0. b \in Blocks
  BY SegmentAssumption, AddressableInBitmap DEF MarkLive, SegmentAssumption
<1>1. /\ TypeOK /\ SizesKnown /\ BytesMatchBitmap
      /\ block' = Stored(block, b, "LIVE") /\ size' = Stored(size, b, sz)
      /\ dead' = dead /\ live' = (live + sz) % Word
      /\ tracked' = (tracked /\ b \in InState("FREE"))
  BY DEF IInv, MarkLive
<1>2. /\ block'[b] = "LIVE" /\ size'[b] = sz
      /\ \A x \in Blocks : x # b => block'[x] = block[x] /\ size'[x] = size[x]
  BY <1>0, <1>1 DEF Stored, TypeOK
<1>3. SizesKnown'
  BY <1>1, <1>2 DEF SizesKnown
<1>4. ASSUME tracked'
      PROVE  live' = SizesOf("LIVE")' /\ dead' = SizesOf("DEAD")'
  <2>1. tracked /\ b \in InState("FREE") /\ live = SizesOf("LIVE") /\ dead = SizesOf("DEAD")
    <3>1. tracked /\ b \in InState("FREE")
      BY <1>1, <1>4
    <3> QED BY <3>1, <1>1 DEF BytesMatchBitmap
  <2>2. block[b] = "FREE"
    BY <2>1 DEF InState
  <2>3. /\ InState("LIVE")' = InState("LIVE") \cup {b} /\ b \notin InState("LIVE")
        /\ InState("DEAD")' = InState("DEAD") /\ b \notin InState("DEAD")
        /\ InState("LIVE") \in SUBSET Blocks /\ InState("DEAD") \in SUBSET Blocks
    BY <1>0, <1>2, <2>2 DEF InState
  <2>4. SizesOf("DEAD")' = SizesOf("DEAD")
    BY <1>0, <1>1, <2>3, OthersKeepTheirSum DEF SizesOf
  <2>5. SizesOf("LIVE")' = sz + SizesOf("LIVE")
    <3>1. SumFunctionOnSet(size', InState("LIVE")) = SizesOf("LIVE")
      BY <1>0, <1>1, <2>3, OthersKeepTheirSum DEF SizesOf
    <3>2. \A x \in InState("LIVE") \cup {b} : size'[x] \in Int
      <4>1. \A x \in Blocks : size'[x] \in Int
        BY DEF TypeOK
      <4> QED BY <1>0, <2>3, <4>1
    <3>3. SumFunctionOnSet(size', InState("LIVE") \cup {b})
            = size'[b] + SumFunctionOnSet(size', InState("LIVE"))
      BY <2>3, <3>2, SetsOfBlocks, SumWith
    <3> QED BY <1>2, <2>3, <3>1, <3>3 DEF SizesOf
  <2>6. (live + sz) % Word = live + sz
    <3>1. live \in Nat /\ live <= Capacity * BlockSize
      BY <1>1, <2>1, SizesOfState
    <3>2. sz \in 1..BlockSize
      BY BlockBytes
    <3>3. SizesOf("LIVE")' \in Nat /\ SizesOf("LIVE")' <= Capacity * BlockSize
      BY <1>3, SizesOfStateNext
    <3>4. live + sz \in Nat /\ live + sz < Word
      BY <2>1, <2>5, <3>1, <3>2, <3>3, BlockBytes
    <3> QED BY <3>4, BlockBytes
  <2>7. sz \in Nat /\ SizesOf("LIVE") \in Nat
    BY <1>1, SizesOfState, BlockBytes
  <2> QED BY <1>1, <2>1, <2>4, <2>5, <2>6, <2>7
<1>5. BytesMatchBitmap'
  BY <1>4 DEF BytesMatchBitmap
<1> QED BY <1>3, <1>5

LEMMA SumOfBlocks ==
  ASSUME NEW S \in SUBSET Blocks, NEW f, \A x \in Blocks : f[x] \in Int, NEW b \in S
  PROVE  SumFunctionOnSet(f, S) = f[b] + SumFunctionOnSet(f, S \ {b})
<1>1. IsFiniteSet(S) /\ \A x \in S : f[x] \in Int
  BY SetsOfBlocks
<1> QED BY <1>1, SumOfAny

(* A LIVE block dies with the size it was marked with: its bytes go from   *)
(* the LIVE to the DEAD.                                                   *)
LEMMA MarkDeadOK ==
  ASSUME IInv, TypeOK', NEW b \in 0..MaxIndex, NEW sz \in Sizes, MarkDead(b, sz)
  PROVE  SizesKnown' /\ BytesMatchBitmap'
<1>0. b \in Blocks
  BY SegmentAssumption, AddressableInBitmap DEF MarkDead, SegmentAssumption
<1>1. /\ TypeOK /\ SizesKnown /\ BytesMatchBitmap
      /\ block[b] = "LIVE" /\ block' = Stored(block, b, "DEAD") /\ size' = size
      /\ dead' = (dead + sz) % Word /\ live' = IF live >= sz THEN live - sz ELSE live
      /\ tracked' = (tracked /\ sz = size[b])
  BY DEF IInv, MarkDead
<1>2. /\ block'[b] = "DEAD"
      /\ \A x \in Blocks : x # b => block'[x] = block[x]
  BY <1>0, <1>1 DEF Stored, TypeOK
<1>3. SizesKnown'
  BY <1>1, <1>2 DEF SizesKnown
<1>4. ASSUME tracked'
      PROVE  live' = SizesOf("LIVE")' /\ dead' = SizesOf("DEAD")'
  <2>1. tracked /\ sz = size[b] /\ live = SizesOf("LIVE") /\ dead = SizesOf("DEAD")
    <3>1. tracked /\ sz = size[b]
      BY <1>1, <1>4
    <3> QED BY <3>1, <1>1 DEF BytesMatchBitmap
  <2>3. /\ InState("LIVE")' = InState("LIVE") \ {b} /\ b \in InState("LIVE")
        /\ InState("DEAD")' = InState("DEAD") \cup {b} /\ b \notin InState("DEAD")
        /\ InState("LIVE") \in SUBSET Blocks /\ InState("DEAD") \in SUBSET Blocks
    BY <1>0, <1>1, <1>2 DEF InState
  <2>4. \A x \in Blocks : size[x] \in Int
    BY <1>1 DEF TypeOK
  <2>5. SizesOf("DEAD")' = sz + SizesOf("DEAD")
    <3>1. SumFunctionOnSet(size, InState("DEAD") \cup {b})
            = size[b] + SumFunctionOnSet(size, InState("DEAD"))
      <4>1. \A x \in InState("DEAD") \cup {b} : size[x] \in Int
        BY <1>0, <2>3, <2>4
      <4> QED BY <2>3, <4>1, SetsOfBlocks, SumWith
    <3> QED BY <1>1, <2>1, <2>3, <3>1 DEF SizesOf
  <2>6. SizesOf("LIVE") = sz + SizesOf("LIVE")'
    <3>1. SumFunctionOnSet(size, InState("LIVE"))
            = size[b] + SumFunctionOnSet(size, InState("LIVE") \ {b})
      <4> DEFINE L == InState("LIVE")
      <4>1. L \in SUBSET Blocks /\ b \in L
        BY <2>3
      <4> HIDE DEF L
      <4>2. SumFunctionOnSet(size, L) = size[b] + SumFunctionOnSet(size, L \ {b})
        BY <2>4, <4>1, SumOfBlocks
      <4> QED BY <4>2 DEF L
    <3> QED BY <1>1, <2>1, <2>3, <3>1 DEF SizesOf
  <2>7. /\ SizesOf("LIVE")' \in Nat /\ SizesOf("DEAD")' \in Nat /\ SizesOf("DEAD")' < Word
        /\ SizesOf("LIVE") \in Nat /\ SizesOf("DEAD") \in Nat /\ sz \in Nat
    <3>1. /\ SizesOf("LIVE")' \in Nat /\ SizesOf("DEAD")' \in Nat
          /\ SizesOf("DEAD")' <= Capacity * BlockSize
      BY <1>3, SizesOfStateNext
    <3> QED BY <1>1, <3>1, SizesOfState, BlockBytes
  <2>8. live' = live - sz /\ live - sz = SizesOf("LIVE")'
    BY <1>1, <2>1, <2>6, <2>7
  <2>9. (dead + sz) % Word = dead + sz
    BY <2>1, <2>5, <2>7, BlockBytes
  <2> QED BY <1>1, <2>1, <2>5, <2>7, <2>8, <2>9
<1>5. BytesMatchBitmap'
  BY <1>4 DEF BytesMatchBitmap
<1> QED BY <1>3, <1>5

LEMMA StepOK == ASSUME IInv, [Next]_vars PROVE IInv'
<1>0. TypeOK /\ SizesKnown /\ BytesMatchBitmap /\ (fresh => prio = PrioOf(live, dead)) /\ TypeOK'
  BY TypeStep DEF IInv
<1>1. ASSUME NEW b \in 0..MaxIndex, NEW sz \in Sizes, MarkLive(b, sz)
      PROVE  IInv'
  <2>1. fresh' = FALSE
    BY <1>1 DEF MarkLive
  <2> QED BY <1>0, <1>1, <2>1, MarkLiveOK DEF IInv
<1>2. ASSUME NEW b \in 0..MaxIndex, NEW sz \in Sizes, MarkDead(b, sz)
      PROVE  IInv'
  <2>1. fresh' = FALSE
    BY <1>2 DEF MarkDead
  <2> QED BY <1>0, <1>2, <2>1, MarkDeadOK DEF IInv
<1>3. CASE UpdateGcPriority
  <2>1. SizesKnown' /\ BytesMatchBitmap'
    BY <1>0, <1>3 DEF UpdateGcPriority, SizesKnown, BytesMatchBitmap, SizesOf, InState
  <2>2. prio' = PrioOf(live', dead')
    BY <1>3 DEF UpdateGcPriority, PrioOf
  <2> QED BY <1>0, <2>1, <2>2 DEF IInv
<1>4. CASE UNCHANGED vars
  BY <1>0, <1>4 DEF vars, IInv, SizesKnown, BytesMatchBitmap, SizesOf, InState
<1> QED BY <1>1, <1>2, <1>3, <1>4 DEF Next

LEMMA Inductive == Spec => []IInv
<1>1. IInv /\ [Next]_vars => IInv'
  BY StepOK
<1> QED BY <1>1, InitOK, PTL DEF Spec

(* A caller that marks only FREE blocks and lets each die with the size it *)
(* was marked with reads exact counters, after any sequence of calls: none *)
(* of the 32-bit sums wraps and the guard of the live bytes never bites.   *)
THEOREM BytesAlwaysMatch == Spec => []BytesMatchBitmap
<1>1. IInv => BytesMatchBitmap
  BY DEF IInv
<1> QED BY <1>1, Inductive, PTL

-----------------------------------------------------------------------------
(* The priority of bytes that fit: the sum and the product do not wrap, so *)
(* the ratio is the true percentage, rounded down.                         *)

LEMMA Quotient ==
  ASSUME NEW x \in Nat, NEW t \in Nat, t > 0
  PROVE  /\ x \div t \in Nat
         /\ (x \div t) * t <= x /\ x < (x \div t) * t + t
OBVIOUS

(* The percentage of dead bytes in l live and d dead ones.                 *)
LEMMA Percentage ==
  ASSUME NEW l \in Nat, NEW d \in Nat, l + d > 0, NEW r \in Nat,
         r * (l + d) <= 100 * d, 100 * d < r * (l + d) + (l + d)
  PROVE  /\ l = 0 => r = 100
         /\ d = 0 => r = 0
         /\ d > l => r > 30
         /\ r > 80 => d > 4 * l
<1>1. l = 0 => r = 100
  <2> SUFFICES ASSUME l = 0 PROVE r = 100
    OBVIOUS
  <2>1. r * d <= 100 * d /\ 100 * d < (r + 1) * d /\ d > 0
    OBVIOUS
  <2> QED BY <2>1
<1>2. d = 0 => r = 0
  <2> SUFFICES ASSUME d = 0, r > 0 PROVE FALSE
    OBVIOUS
  <2>1. r * l <= 0 /\ l > 0
    OBVIOUS
  <2> QED BY <2>1
<1>3. d > l => r > 30
  <2> SUFFICES ASSUME d > l, r <= 30 PROVE FALSE
    OBVIOUS
  <2>1. r * (l + d) <= 30 * (l + d)
    OBVIOUS
  <2> QED BY <2>1
<1>4. r > 80 => d > 4 * l
  <2> SUFFICES ASSUME r > 80, d <= 4 * l PROVE FALSE
    OBVIOUS
  <2>1. r * (l + d) >= 81 * (l + d)
    OBVIOUS
  <2> QED BY <2>1
<1> QED BY <1>1, <1>2, <1>3, <1>4

LEMMA PriorityOfBytes ==
  ASSUME NEW l \in Nat, NEW d \in Nat, l + d < Word, 100 * d < Word
  PROVE  /\ l = 0 /\ d > 0 => PrioOf(l, d) = High
         /\ d = 0 => PrioOf(l, d) = Lowest
         /\ d > l => PrioOf(l, d) >= Low
         /\ PrioOf(l, d) = High => d > 4 * l
<1>1. (l + d) % Word = l + d /\ (d * 100) % Word = 100 * d
  <2>1. l + d \in Nat /\ d * 100 \in Nat /\ d * 100 = 100 * d
    OBVIOUS
  <2>2. \A n \in Nat : n < Word => n % Word = n
    BY BlockBytes
  <2> QED BY <2>1, <2>2
<1>2. CASE l + d = 0
  <2>1. PrioOf(l, d) = Lowest /\ l = 0 /\ d = 0
    BY <1>1, <1>2 DEF PrioOf
  <2> QED BY <2>1 DEF Lowest, High
<1>3. CASE l + d > 0
  <2> DEFINE r == (100 * d) \div (l + d)
  <2>1. PrioOf(l, d) = Priority(r)
    BY <1>1, <1>3 DEF PrioOf
  <2>2. r \in Nat /\ r * (l + d) <= 100 * d /\ 100 * d < r * (l + d) + (l + d)
    <3>1. 100 * d \in Nat /\ l + d \in Nat
      OBVIOUS
    <3> QED BY <1>3, <3>1, Quotient
  <2> HIDE DEF r
  <2>3. /\ l = 0 => r = 100
        /\ d = 0 => r = 0
        /\ d > l => r > 30
        /\ r > 80 => d > 4 * l
    BY <1>3, <2>2, Percentage
  <2> QED BY <2>1, <2>2, <2>3 DEF Priority, Lowest, Low, Normal, High
<1> QED BY <1>2, <1>3

(* For such a caller the collector's order is right whenever it is fresh,  *)
(* for every size of bitmap whose percentages fit a word.                  *)
THEOREM PriorityAlwaysOrders == Spec => []PriorityOrdersSegments
<1>1. IInv => PriorityOrdersSegments
  <2> SUFFICES ASSUME IInv, tracked, fresh
               PROVE  /\ InState("DEAD") # {} /\ InState("LIVE") = {} => prio = High
                      /\ InState("DEAD") = {} => prio = Lowest
                      /\ dead > live => prio >= Low
                      /\ prio = High => dead > 4 * live
    BY DEF PriorityOrdersSegments
  <2>1. SizesKnown /\ live = SizesOf("LIVE") /\ dead = SizesOf("DEAD") /\ prio = PrioOf(live, dead)
    BY DEF IInv, BytesMatchBitmap
  <2>2. /\ live \in Nat /\ live <= Capacity * BlockSize
        /\ dead \in Nat /\ dead <= Capacity * BlockSize
        /\ InState("LIVE") = {} => live = 0
        /\ InState("DEAD") = {} => dead = 0
        /\ InState("DEAD") # {} => dead >= 1
    BY <2>1, SizesOfState
  <2>3. live + dead < Word /\ 100 * dead < Word
    BY <2>2, BlockBytes
  <2>4. /\ live = 0 /\ dead > 0 => prio = High
        /\ dead = 0 => prio = Lowest
        /\ dead > live => prio >= Low
        /\ prio = High => dead > 4 * live
    BY <2>1, <2>2, <2>3, PriorityOfBytes
  <2>5. dead >= 1 => dead > 0
    BY <2>2
  <2> QED BY <2>2, <2>4, <2>5
<1> QED BY <1>1, Inductive, PTL
=============================================================================
