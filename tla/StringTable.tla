----------------------------- MODULE StringTable -----------------------------
(***************************************************************************)
(* The interning table of the AST (frontend/parser/ast_string_table.c).    *)
(*                                                                         *)
(* A table owns three allocations that grow independently: the array of    *)
(* entries (an entry's index is the StringId its caller keeps), the byte   *)
(* pool the entries' data pointers point into, and the hash table whose    *)
(* chains hold ids.  The calls are sequential; what is hard is that a      *)
(* growth of one allocation, or its failure halfway, must leave the other  *)
(* two consistent, and that ids and pointers handed out earlier are kept   *)
(* by the parser across later calls.                                       *)
(*                                                                         *)
(* Abstractions.  A string is a member of Strings with a length and a hash *)
(* value (the MurmurHash arithmetic is HashOf).  A data pointer is the     *)
(* pair (generation of the pool allocation, offset): realloc that moves    *)
(* the pool starts a new generation.  A chain is the set of its ids,       *)
(* searched from the largest id down: nodes are pushed at the head in      *)
(* increasing id order, by stringtable_add_len and by a rebuild alike.     *)
(* Entry 0, the reserved empty string, is never in a pool and can match no *)
(* lookup (its length is 0), so it is left out of entries and chains.  The *)
(* statistics counters are left out.                                       *)
(***************************************************************************)
EXTENDS Integers, Sequences, FiniteSets

CONSTANTS
  Strings,          \* the strings callers add
  LenOf,            \* length of each string
  HashOf,           \* hash_murmur3_32 of each string
  MinDedupLen,      \* config.min_length_for_dedup (4 by default)
  MaxLength,        \* longest string accepted (1 MB)
  InitialCapacity,  \* config.initial_capacity: entries and buckets
  Primes,           \* the prime list of stringtable_rebuild_hash_table
  LoadPercent,      \* config.load_factor_threshold, in percent
  InitialPool,      \* config.initial_pool_size
  GrowPercent,      \* config.pool_grow_factor
  MaxPool,          \* config.max_pool_size
  AllocFails,       \* whether malloc and realloc may return NULL
  PoolMoves,        \* whether realloc may move the pool
  MaxEntries,       \* bound of the model: entries ever added
  MaxRefs           \* bound of the model: reference count of an entry

ASSUME ConstantsAssumption ==
  /\ LenOf \in [Strings -> Nat]
  /\ HashOf \in [Strings -> Nat]
  /\ MinDedupLen \in Nat /\ MaxLength \in Nat
  /\ InitialCapacity \in Nat \ {0}
  /\ Primes \subseteq Nat \ {0}
  /\ LoadPercent \in Nat
  /\ InitialPool \in Nat \ {0} /\ GrowPercent \in Nat /\ MaxPool \in Nat
  /\ InitialPool <= MaxPool
  /\ AllocFails \in BOOLEAN /\ PoolMoves \in BOOLEAN
  /\ MaxEntries \in Nat /\ MaxRefs \in Nat

VARIABLES
  entries,   \* table->entries[1..]: string, data pointer, reference count
  ecap,      \* table->entry_capacity
  table,     \* table->hash_table: null pointer or not, capacity, chains
  pool,      \* table->pool: generation of the allocation, used, size
  issued,    \* history: the <<id, string>> pairs returned by successful adds
  lost,      \* history: since the last clear an entry was not on its chain
  crashed    \* a null or unmapped pointer has been dereferenced

vars == <<entries, ecap, table, pool, issued, lost, crashed>>

Ids == DOMAIN entries
EntryCount == Len(entries) + 1

(***************************************************************************)
(* Pool growth: stringtable_expand_pool multiplies the size by the growth  *)
(* factor until the request fits and only then compares with the maximum.  *)
(***************************************************************************)
GrowSteps == 8
Grown(size) ==
  LET f[k \in Nat] ==
        IF k = 0 THEN size
        ELSE LET g == (f[k-1] * GrowPercent) \div 100
             IN  IF g <= size THEN 2 * size ELSE g
  IN  {f[k] : k \in 0..GrowSteps}

IsGrownSize(n, size, need) ==
  /\ n \in Grown(size)
  /\ n >= need
  /\ \A m \in Grown(size) : m >= need => n <= m

(* A fault: the room for the terminating NUL is not requested.             *)
PoolsFor_NoNul(s) ==
  IF pool.used + LenOf[s] <= pool.size THEN {pool}
  ELSE {[gen |-> g, used |-> pool.used, size |-> n] :
          g \in IF PoolMoves THEN {pool.gen, pool.gen + 1} ELSE {pool.gen},
          n \in {m \in pool.size..MaxPool :
                   IsGrownSize(m, pool.size, pool.used + LenOf[s])}}

PoolsFor(s) ==
  LET need == pool.used + LenOf[s] + 1 IN
  IF need <= pool.size THEN {pool}
  ELSE {[gen |-> g, used |-> pool.used, size |-> n] :
          g \in IF PoolMoves THEN {pool.gen, pool.gen + 1} ELSE {pool.gen},
          n \in {m \in pool.size..MaxPool : IsGrownSize(m, pool.size, need)}}

(***************************************************************************)
(* The hash table and its rebuild.                                         *)
(***************************************************************************)
Bucket(s, cap) == HashOf[s] % cap

ChainsOf(es, ids, cap) ==
  [b \in 0..cap-1 |-> {i \in ids : Bucket(es[i].str, cap) = b}]

(* The capacity after a rebuild, a set of one element: the next prime of   *)
(* the list, or twice the capacity less one when the list is exhausted.    *)
NextCapacity(cap) ==
  IF \E p \in Primes : p > cap
  THEN {p \in Primes : p > cap /\ \A q \in Primes : q > cap => p <= q}
  ELSE {2 * cap - 1}

(* Two faults of a rebuild: the entries stay in the buckets of the old     *)
(* capacity; the array of the old capacity is kept.                        *)
Rebuilt_KeepsBuckets(es) ==
  {[null |-> FALSE, cap |-> cap,
    chain |-> [b \in 0..cap-1 |->
                 {i \in DOMAIN es : Bucket(es[i].str, table.cap) = b}]] :
     cap \in NextCapacity(table.cap)}

Rebuilt_KeepsArray(es) ==
  {[null |-> FALSE, cap |-> cap,
    chain |-> [b \in DOMAIN table.chain |->
                 {i \in DOMAIN es : Bucket(es[i].str, cap) = b}]] :
     cap \in NextCapacity(table.cap)}

(* stringtable_rebuild_hash_table: the old table is freed first.  If the   *)
(* new bucket array cannot be allocated hash_table stays NULL with the old *)
(* capacity; if a node cannot, the entries after it are not in the table.  *)
Redistributed(es, n, cap) ==
  [null |-> FALSE, cap |-> cap,
   chain |-> ChainsOf(es, {i \in DOMAIN es : i <= n}, cap)]

Lost == [null |-> TRUE, cap |-> table.cap,
         chain |-> [b \in 0..table.cap-1 |-> {}]]

NodesMade(es) == IF AllocFails THEN 0..Len(es) ELSE {Len(es)}

Rebuilt(es) ==
  {Redistributed(es, n, cap) : n \in NodesMade(es), cap \in NextCapacity(table.cap)}
  \cup (IF AllocFails THEN {Lost} ELSE {})

Overloaded(count, cap) == 100 * count > LoadPercent * cap

(***************************************************************************)
(* Searching a chain.  An entry matches on hash, length and bytes; reading *)
(* the bytes of an entry whose pool allocation was moved is undefined: it  *)
(* may compare equal, unequal, or fault.                                   *)
(***************************************************************************)
Live(i) == entries[i].gen = pool.gen

Candidates(s) ==
  {i \in table.chain[Bucket(s, table.cap)] :
     /\ HashOf[entries[i].str] = HashOf[s]
     /\ LenOf[entries[i].str] = LenOf[s]}

(* A fault: entries are compared by hash and length only.                  *)
MayMatch_HashOnly(s) == Candidates(s)

MustMatch(s) == {i \in Candidates(s) : Live(i) /\ entries[i].str = s}
MayMatch(s)  == {i \in Candidates(s) : Live(i) => entries[i].str = s}

NotFound == 0
FindResults(s) ==
  {i \in MayMatch(s) : \A j \in MustMatch(s) : j <= i} \cup
  (IF MustMatch(s) = {} THEN {NotFound} ELSE {})

Deduplicated(s) == LenOf[s] >= MinDedupLen

Init ==
  /\ entries = << >>
  /\ ecap = InitialCapacity
  /\ table = [null |-> FALSE, cap |-> InitialCapacity,
              chain |-> [b \in 0..InitialCapacity-1 |-> {}]]
  /\ pool = [gen |-> 0, used |-> 0, size |-> InitialPool]
  /\ issued = {}
  /\ lost = FALSE
  /\ crashed = FALSE

(* stringtable_add_len rejects an over-long string and gives the empty one *)
(* the reserved id: neither changes the table.                             *)
Accepted(s) == LenOf[s] \in 1..MaxLength

(* stringtable_add_len, the string is found: its count goes up.            *)
AddExisting(s) ==
  /\ ~crashed /\ ~table.null
  /\ Accepted(s) /\ Deduplicated(s)
  /\ \E i \in FindResults(s) \ {NotFound} :
       /\ entries[i].refs < MaxRefs
       /\ entries' = [entries EXCEPT ![i].refs = @ + 1]
       /\ issued' = issued \cup {<<i, s>>}
  /\ UNCHANGED <<ecap, table, pool, lost, crashed>>

GrownCapacity == IF EntryCount >= ecap THEN 2 * ecap ELSE ecap

(* A fault: the search for an equal string is skipped.                     *)
IsNew_Always(s) == TRUE

IsNew(s) == Deduplicated(s) => ~table.null /\ NotFound \in FindResults(s)

\* Every stored entry is on its chain.
Complete(es, t) ==
  ~t.null /\ \A i \in DOMAIN es : i \in t.chain[Bucket(es[i].str, t.cap)]

(* The node of an id is pushed on the chain of its hash.                   *)
Pushed(t, s, id) ==
  [null |-> FALSE, cap |-> t.cap,
   chain |-> [t.chain EXCEPT ![Bucket(s, t.cap)] = @ \cup {id}]]

(* stringtable_add_len, a new entry: the entry array and the pool grow as  *)
(* needed, the entry is stored, the table is rebuilt when overloaded, and  *)
(* the new id is pushed on its chain.  The node of the last step may not   *)
(* be allocated (the caller gets STRING_ID_INVALID, the entry stays); with *)
(* a node, a rebuild that lost the table is dereferenced.                  *)
AddNew(s) ==
  /\ ~crashed
  /\ Accepted(s) /\ IsNew(s)
  /\ Len(entries) < MaxEntries
  /\ ecap' = GrownCapacity
  /\ \E p \in PoolsFor(s) :
       LET id == EntryCount
           es == Append(entries, [str |-> s, gen |-> p.gen,
                                  off |-> p.used, refs |-> 1])
       IN
       /\ entries' = es
       /\ pool' = [gen |-> p.gen, used |-> p.used + LenOf[s] + 1, size |-> p.size]
       /\ \E t \in IF Overloaded(id + 1, table.cap) THEN Rebuilt(es) ELSE {table} :
            \/ /\ t.null
               /\ table' = t
               /\ crashed' = TRUE
               /\ UNCHANGED issued
            \/ /\ ~t.null
               /\ table' = Pushed(t, s, id)
               /\ issued' = issued \cup {<<id, s>>}
               /\ UNCHANGED crashed
            \/ /\ AllocFails
               /\ table' = t
               /\ UNCHANGED <<issued, crashed>>
  /\ lost' = (lost \/ ~Complete(entries', table'))

(* stringtable_add_len gives up before storing: the entry array cannot     *)
(* grow, or the array has grown and the pool cannot.                       *)
AddFails(s) ==
  /\ ~crashed
  /\ Accepted(s) /\ IsNew(s)
  /\ \/ /\ AllocFails /\ EntryCount >= ecap
        /\ UNCHANGED ecap
     \/ /\ \/ PoolsFor(s) = {}
           \/ AllocFails /\ pool.used + LenOf[s] + 1 > pool.size
        /\ Len(entries) < MaxEntries
        /\ ecap' = GrownCapacity
  /\ UNCHANGED <<entries, table, pool, issued, lost, crashed>>

(* stringtable_add_len and stringtable_lookup_len index hash_table without *)
(* a check and compare the bytes of entries whose pool has moved.          *)
SearchCrashes(s) ==
  /\ ~crashed
  /\ LenOf[s] > 0
  /\ \/ table.null
     \/ ~table.null /\ \E i \in Candidates(s) : ~Live(i)
  /\ crashed' = TRUE
  /\ UNCHANGED <<entries, ecap, table, pool, issued, lost>>

(* A fault: the chains survive the clear.                                  *)
Clear_KeepsChains ==
  /\ ~crashed
  /\ entries' = << >>
  /\ pool' = [pool EXCEPT !.used = 0]
  /\ issued' = {}
  /\ lost' = table.null
  /\ UNCHANGED <<ecap, table, crashed>>

(* stringtable_clear: every id and pointer handed out is given up; the     *)
(* capacities are kept.                                                    *)
Clear ==
  /\ ~crashed
  /\ entries' = << >>
  /\ table' = [table EXCEPT !.chain = [b \in DOMAIN table.chain |-> {}]]
  /\ pool' = [pool EXCEPT !.used = 0]
  /\ issued' = {}
  /\ lost' = table.null
  /\ UNCHANGED <<ecap, crashed>>

(* stringtable_compact: a rebuild at any time (bound of the model: while   *)
(* the capacity is within the prime list).                                 *)
Compact ==
  /\ ~crashed
  /\ NextCapacity(table.cap) \subseteq Primes
  /\ table' \in Rebuilt(entries)
  /\ lost' = (lost \/ ~Complete(entries, table'))
  /\ UNCHANGED <<entries, ecap, pool, issued, crashed>>

Next ==
  \/ \E s \in Strings :
       AddExisting(s) \/ AddNew(s) \/ AddFails(s) \/ SearchCrashes(s)
  \/ Clear
  \/ Compact

Spec == Init /\ [][Next]_vars
-----------------------------------------------------------------------------
(* The state of the table is well formed.                                  *)
TypeOK ==
  /\ entries \in Seq([str : Strings, gen : Nat, off : Nat, refs : Nat])
  /\ ecap \in Nat \ {0}
  /\ table \in [null : BOOLEAN, cap : {table.cap}, chain : {table.chain}]
  /\ table.cap \in Nat \ {0}
  /\ table.chain \in [0..table.cap-1 -> SUBSET Nat]
  /\ pool \in [gen : Nat, used : Nat, size : Nat]
  /\ issued \subseteq Nat \X Strings
  /\ lost \in BOOLEAN
  /\ crashed \in BOOLEAN

(* A chain holds only ids of stored entries, each in the bucket of its own *)
(* hash under the capacity of today: what stringtable_validate looks for,  *)
(* kept by every rebuild, failed rebuild and clear.                        *)
ChainsSound ==
  \A b \in DOMAIN table.chain : \A i \in table.chain[b] :
    i \in Ids /\ Bucket(entries[i].str, table.cap) = b

(* The strings stored since the last clear lie in the used part of the     *)
(* pool, NUL included, in the order they were added and without overlap:   *)
(* no later add writes over a string whose pointer was handed out.         *)
PoolDisjoint ==
  /\ pool.used <= pool.size
  /\ \A i \in Ids : entries[i].off + LenOf[entries[i].str] + 1 <= pool.used
  /\ \A i, j \in Ids :
       i < j => entries[i].off + LenOf[entries[i].str] + 1 <= entries[j].off

\* The pool has not moved under a stored string since the last clear.
AllLive == \A i \in Ids : Live(i)

(* An id returned by an add names its string until the table is cleared,   *)
(* through every growth, rebuild and failed allocation, as long as the     *)
(* pool has not moved under a stored string.                               *)
IssuedIdsResolve ==
  AllLive => \A p \in issued : p[1] \in Ids /\ entries[p[1]].str = p[2]

(* Every add of a string long enough to be deduplicated returns one and    *)
(* the same id: the parser compares identifiers by id.  It takes a pool    *)
(* that has not moved and entries that never fell off their chains, also   *)
(* not for a while: a later rebuild brings them back next to their doubles *)
Interned ==
  AllLive /\ ~lost =>
    \A p, q \in issued : Deduplicated(p[2]) /\ p[2] = q[2] => p[1] = q[1]

(* The table does what an interner promises.  When an entry is lost or the *)
(* pool has moved, what was promised is forgotten, until the next clear.   *)
Granted == IF AllLive /\ ~lost THEN issued ELSE {}
Promise == INSTANCE Interner WITH ids <- Granted
KeepsThePromise == Promise!Spec
=============================================================================
