-------------------------- MODULE StringTableProofs --------------------------
(***************************************************************************)
(* Proofs about StringTable, for all strings, hash values, configurations  *)
(* and failures: a chain never holds a dangling id and stored strings      *)
(* never overlap, whatever fails and wherever the pool goes.               *)
(***************************************************************************)
EXTENDS StringTable, TLAPS

USE ConstantsAssumption DEF ConstantsAssumption

(* An id lands in a bucket that exists.                                    *)
LEMMA BucketInRange ==
  ASSUME NEW s \in Strings, NEW cap \in Nat \ {0}
  PROVE  Bucket(s, cap) \in 0..cap-1
<1>1. HashOf[s] \in Nat
  OBVIOUS
<1>2. QED
  BY <1>1 DEF Bucket

(* A rebuild ends with a positive capacity.                                *)
LEMMA NextCapacityType ==
  ASSUME NEW cap \in Nat \ {0}
  PROVE  NextCapacity(cap) \subseteq Nat \ {0}
<1>1. CASE \E p \in Primes : p > cap
  BY <1>1 DEF NextCapacity
<1>2. CASE ~ \E p \in Primes : p > cap
  <2>1. 2 * cap - 1 \in Nat \ {0}
    OBVIOUS
  <2>2. QED
    BY <1>2, <2>1 DEF NextCapacity
<1>3. QED
  BY <1>1, <1>2

(* What the proofs need to know of a hash table t over entries es: it has  *)
(* a bucket for every value below its capacity, and a chain holds only ids *)
(* of entries whose hash belongs there.                                    *)
WellHashed(t, es) ==
  /\ t.null \in BOOLEAN
  /\ t.cap \in Nat \ {0}
  /\ t.chain \in [0..t.cap-1 -> SUBSET Nat]
  /\ \A b \in 0..t.cap-1 : \A i \in t.chain[b] :
       i \in DOMAIN es /\ Bucket(es[i].str, t.cap) = b

Entry == [str : Strings, gen : Nat, off : Nat, refs : Nat]

(* Redistributing any set of stored ids gives a sound table.               *)
LEMMA ChainsOfWellHashed ==
  ASSUME NEW es \in Seq(Entry), NEW ids \in SUBSET DOMAIN es,
         NEW cap \in Nat \ {0}, NEW null \in BOOLEAN
  PROVE  WellHashed([null |-> null, cap |-> cap,
                     chain |-> ChainsOf(es, ids, cap)], es)
<1>1. DOMAIN es \subseteq Nat
  OBVIOUS
<1>2. ChainsOf(es, ids, cap) \in [0..cap-1 -> SUBSET Nat]
  BY <1>1 DEF ChainsOf
<1>3. \A b \in 0..cap-1 : \A i \in ChainsOf(es, ids, cap)[b] :
        i \in DOMAIN es /\ Bucket(es[i].str, cap) = b
  BY DEF ChainsOf
<1>4. QED
  BY <1>2, <1>3 DEF WellHashed

(* Every outcome of a rebuild, failed ones included, is sound.             *)
LEMMA RebuiltWellHashed ==
  ASSUME NEW es \in Seq(Entry), WellHashed(table, es) \/ table.cap \in Nat \ {0},
         NEW t \in Rebuilt(es)
  PROVE  WellHashed(t, es)
<1>1. table.cap \in Nat \ {0}
  BY DEF WellHashed
<1>2. ASSUME NEW cap \in NextCapacity(table.cap), NEW n \in NodesMade(es),
             t = Redistributed(es, n, cap)
      PROVE  WellHashed(t, es)
  <2>1. cap \in Nat \ {0}
    BY <1>1, NextCapacityType
  <2>2. QED
    BY <1>2, <2>1, ChainsOfWellHashed DEF Redistributed
<1>3. CASE t = Lost
  BY <1>1, <1>3 DEF Lost, WellHashed
<1>4. \/ \E n \in NodesMade(es), cap \in NextCapacity(table.cap) :
            t = Redistributed(es, n, cap)
      \/ t = Lost
  BY DEF Rebuilt
<1>5. QED
  BY <1>2, <1>3, <1>4

(* Pushing the id of a stored entry on its own chain keeps a table sound.  *)
LEMMA PushWellHashed ==
  ASSUME NEW es \in Seq(Entry), NEW t, WellHashed(t, es),
         NEW s \in Strings, NEW id \in DOMAIN es, es[id].str = s
  PROVE  WellHashed(Pushed(t, s, id), es)
<1> DEFINE k == Bucket(s, t.cap)
           c == [t.chain EXCEPT ![k] = @ \cup {id}]
<1>1. id \in Nat
  OBVIOUS
<1>2. k \in 0..t.cap-1
  BY BucketInRange DEF WellHashed
<1>3. c \in [0..t.cap-1 -> SUBSET Nat]
  BY <1>1, <1>2 DEF WellHashed
<1>4. ASSUME NEW b \in 0..t.cap-1, NEW i \in c[b]
      PROVE  i \in DOMAIN es /\ Bucket(es[i].str, t.cap) = b
  <2>1. CASE b = k
    BY <1>2, <1>4, <2>1 DEF WellHashed
  <2>2. CASE b # k
    BY <1>2, <1>4, <2>2 DEF WellHashed
  <2>3. QED
    BY <2>1, <2>2
<1>5. QED
  BY <1>3, <1>4 DEF WellHashed, Pushed

-----------------------------------------------------------------------------
(* Every pool an add may continue with has room for the string after what  *)
(* is already used.                                                        *)
LEMMA PoolsForType ==
  ASSUME NEW s \in Strings, pool \in [gen : Nat, used : Nat, size : Nat],
         NEW p \in PoolsFor(s)
  PROVE  /\ p \in [gen : Nat, used : Nat, size : Nat]
         /\ p.used = pool.used
         /\ p.used + LenOf[s] + 1 <= p.size
<1> DEFINE need == pool.used + LenOf[s] + 1
<1>1. LenOf[s] \in Nat /\ need \in Nat
  OBVIOUS
<1>2. CASE need <= pool.size
  <2>1. p = pool
    BY <1>2 DEF PoolsFor
  <2>2. QED
    BY <1>2, <2>1
<1>3. CASE ~(need <= pool.size)
  <2>1. PICK g \in IF PoolMoves THEN {pool.gen, pool.gen + 1} ELSE {pool.gen},
             n \in {m \in pool.size..MaxPool : IsGrownSize(m, pool.size, need)} :
               p = [gen |-> g, used |-> pool.used, size |-> n]
    BY <1>3 DEF PoolsFor
  <2>2. n \in Nat /\ n >= need
    BY <1>1, <2>1 DEF IsGrownSize
  <2>3. g \in Nat
    OBVIOUS
  <2>4. QED
    BY <2>1, <2>2, <2>3
<1>4. QED
  BY <1>2, <1>3

(* The structural invariant: types, sound chains, disjoint strings.        *)
IInv == TypeOK /\ ChainsSound /\ PoolDisjoint

(* The chain part of the invariant in the form the lemmas use.             *)
LEMMA WellHashedEquiv ==
  ASSUME TypeOK
  PROVE  ChainsSound <=> WellHashed(table, entries)
<1>1. DOMAIN table.chain = 0..table.cap-1
  BY DEF TypeOK
<1>2. QED
  BY <1>1 DEF TypeOK, ChainsSound, WellHashed, Ids

LEMMA InitInv == Init => IInv
<1> SUFFICES ASSUME Init PROVE IInv
  OBVIOUS
<1>1. TypeOK
  <2>1. entries \in Seq([str : Strings, gen : Nat, off : Nat, refs : Nat])
    BY DEF Init
  <2>2. table \in [null : BOOLEAN, cap : {table.cap}, chain : {table.chain}]
    BY DEF Init
  <2>3. table.cap \in Nat \ {0} /\ table.chain \in [0..table.cap-1 -> SUBSET Nat]
    BY DEF Init
  <2>4. pool \in [gen : Nat, used : Nat, size : Nat]
    BY DEF Init
  <2>5. QED
    BY <2>1, <2>2, <2>3, <2>4 DEF Init, TypeOK
<1>2. ChainsSound
  BY DEF Init, ChainsSound
<1>3. PoolDisjoint
  BY DEF Init, PoolDisjoint, Ids
<1>4. QED
  BY <1>1, <1>2, <1>3 DEF IInv

(* An id found by a search is the id of a stored entry.                    *)
LEMMA FoundIsStored ==
  ASSUME IInv, NEW s \in Strings, NEW i \in FindResults(s), i # NotFound
  PROVE  i \in Ids /\ i \in MayMatch(s)
<1>1. i \in MayMatch(s)
  BY DEF FindResults
<1>2. Bucket(s, table.cap) \in DOMAIN table.chain
  BY BucketInRange DEF IInv, TypeOK
<1>3. QED
  BY <1>1, <1>2 DEF MayMatch, Candidates, IInv, ChainsSound

\* The history of losses stays a truth value.
LEMMA LostType ==
  ASSUME lost \in BOOLEAN, lost' = (lost \/ ~Complete(entries', table'))
  PROVE  lost' \in BOOLEAN
BY Zenon

LEMMA AddExistingInv ==
  ASSUME IInv, NEW s \in Strings, AddExisting(s)
  PROVE  IInv'
<1>1. PICK i \in FindResults(s) \ {NotFound} :
        /\ entries' = [entries EXCEPT ![i].refs = @ + 1]
        /\ issued' = issued \cup {<<i, s>>}
  BY DEF AddExisting
<1>2. i \in Ids
  BY <1>1, FoundIsStored
<1>3. UNCHANGED <<ecap, table, pool, lost, crashed>>
  BY DEF AddExisting
<1>4. entries \in Seq(Entry)
  BY DEF IInv, TypeOK, Entry
<1>5. i \in 1..Len(entries) /\ entries[i] \in Entry
  BY <1>2, <1>4 DEF Ids
<1>6. [entries[i] EXCEPT !.refs = @ + 1] \in Entry
  <2>1. entries[i].refs + 1 \in Nat
    BY <1>5 DEF Entry
  <2>2. QED
    BY <1>5, <2>1, Zenon DEF Entry
<1>7. entries' = [entries EXCEPT ![i] = [entries[i] EXCEPT !.refs = @ + 1]]
  BY <1>1, <1>5
<1>8. entries' \in Seq(Entry) /\ Ids' = Ids
  BY <1>4, <1>5, <1>6, <1>7 DEF Ids
<1>9. \A j \in Ids : entries'[j].str = entries[j].str /\ entries'[j].off = entries[j].off
  <2> SUFFICES ASSUME NEW j \in Ids
               PROVE  entries'[j].str = entries[j].str /\ entries'[j].off = entries[j].off
    OBVIOUS
  <2>1. CASE j = i
    BY <1>4, <1>5, <1>7, <2>1 DEF Entry, Ids
  <2>2. CASE j # i
    BY <1>4, <1>5, <1>7, <2>2 DEF Ids
  <2>3. QED
    BY <2>1, <2>2
<1>10. TypeOK'
  <2>1. issued' \subseteq Nat \X Strings
    <3>1. issued \subseteq Nat \X Strings
      BY DEF IInv, TypeOK
    <3>2. i \in Nat
      BY <1>4, <1>5
    <3>3. QED
      BY <1>1, <3>1, <3>2
  <2>2. QED
    BY <1>3, <1>8, <2>1 DEF IInv, TypeOK, Entry
<1>11. ChainsSound'
  BY <1>3, <1>8, <1>9 DEF IInv, ChainsSound, Bucket
<1>12. PoolDisjoint'
  BY <1>3, <1>8, <1>9 DEF IInv, PoolDisjoint
<1>13. QED
  BY <1>10, <1>11, <1>12 DEF IInv

(* Appending an entry keeps the stored ones where they are.                *)
LEMMA AppendEntry ==
  ASSUME NEW es \in Seq(Entry), NEW e \in Entry
  PROVE  /\ Append(es, e) \in Seq(Entry)
         /\ DOMAIN Append(es, e) = DOMAIN es \cup {Len(es) + 1}
         /\ Append(es, e)[Len(es) + 1] = e
         /\ \A i \in DOMAIN es : Append(es, e)[i] = es[i]
OBVIOUS

LEMMA AddNewInv ==
  ASSUME IInv, NEW s \in Strings, AddNew(s)
  PROVE  IInv'
<1> DEFINE id == EntryCount
           e(p) == [str |-> s, gen |-> p.gen, off |-> p.used, refs |-> 1]
           es(p) == Append(entries, e(p))
           tables(p) == IF Overloaded(id + 1, table.cap) THEN Rebuilt(es(p)) ELSE {table}
           push(t) == Pushed(t, s, id)
<1>1. PICK p \in PoolsFor(s) :
        /\ entries' = es(p)
        /\ pool' = [gen |-> p.gen, used |-> p.used + LenOf[s] + 1, size |-> p.size]
        /\ \E t \in tables(p) :
             \/ t.null /\ table' = t /\ crashed' = TRUE /\ UNCHANGED issued
             \/ /\ ~t.null /\ table' = push(t)
                /\ issued' = issued \cup {<<id, s>>} /\ UNCHANGED crashed
             \/ AllocFails /\ table' = t /\ UNCHANGED <<issued, crashed>>
  BY DEF AddNew
<1>2. /\ p \in [gen : Nat, used : Nat, size : Nat]
      /\ p.used = pool.used
      /\ p.used + LenOf[s] + 1 <= p.size
  BY PoolsForType DEF IInv, TypeOK
<1>3. entries \in Seq(Entry) /\ e(p) \in Entry /\ LenOf[s] \in Nat
  BY <1>2 DEF IInv, TypeOK, Entry
<1>4. /\ es(p) \in Seq(Entry)
      /\ DOMAIN es(p) = DOMAIN entries \cup {id}
      /\ es(p)[id] = e(p)
      /\ \A i \in DOMAIN entries : es(p)[i] = entries[i]
  BY <1>3, AppendEntry DEF EntryCount
<1>5. id \in Nat /\ \A i \in DOMAIN entries : i \in Nat /\ i < id
  BY <1>3 DEF EntryCount
<1>6. WellHashed(table, entries)
  BY WellHashedEquiv DEF IInv
<1>7. WellHashed(table, es(p))
  BY <1>4, <1>6 DEF WellHashed
<1>8. ASSUME NEW t \in tables(p)
      PROVE  WellHashed(t, es(p)) /\ t = [null |-> t.null, cap |-> t.cap, chain |-> t.chain]
  <2>1. CASE t = table
    BY <1>7, <2>1 DEF IInv, TypeOK
  <2>2. CASE t \in Rebuilt(es(p))
    <3>1. WellHashed(t, es(p))
      BY <1>4, <1>7, <2>2, RebuiltWellHashed
    <3>2. \/ \E n \in NodesMade(es(p)), cap \in NextCapacity(table.cap) :
               t = Redistributed(es(p), n, cap)
          \/ t = Lost
      BY <2>2 DEF Rebuilt
    <3>3. t = [null |-> t.null, cap |-> t.cap, chain |-> t.chain]
      BY <3>2 DEF Redistributed, Lost
    <3>4. QED
      BY <3>1, <3>3
  <2>3. QED
    BY <2>1, <2>2
<1>9. WellHashed(table', entries') /\ table' = [null |-> table'.null, cap |-> table'.cap, chain |-> table'.chain]
  <2>1. PICK t \in tables(p) : table' = t \/ table' = push(t)
    BY <1>1
  <2>2. CASE table' = t
    BY <1>1, <1>8, <2>2
  <2>3. CASE table' = push(t)
    <3>1. WellHashed(push(t), es(p))
      <4>1. id \in DOMAIN es(p) /\ es(p)[id].str = s
        BY <1>4
      <4>2. QED
        BY <1>4, <1>8, <4>1, PushWellHashed
    <3>2. push(t) = [null |-> push(t).null, cap |-> push(t).cap, chain |-> push(t).chain]
      BY DEF Pushed
    <3>3. QED
      BY <1>1, <2>3, <3>1, <3>2
  <2>4. QED
    BY <2>1, <2>2, <2>3
<1>10. /\ pool'.used = p.used + LenOf[s] + 1
       /\ pool'.size = p.size
       /\ pool' \in [gen : Nat, used : Nat, size : Nat]
  BY <1>1, <1>2, <1>3
<1>11. TypeOK'
  <2>1. issued' \subseteq Nat \X Strings
    <3>1. issued \subseteq Nat \X Strings
      BY DEF IInv, TypeOK
    <3>2. issued' = issued \/ issued' = issued \cup {<<id, s>>}
      BY <1>1
    <3>3. QED
      BY <1>5, <3>1, <3>2
  <2>2. crashed' \in BOOLEAN
    BY <1>1 DEF IInv, TypeOK
  <2>3. ecap' \in Nat \ {0}
    <3>1. ecap' = ecap \/ ecap' = 2 * ecap
      BY DEF AddNew, GrownCapacity
    <3>2. ecap \in Nat \ {0}
      BY DEF IInv, TypeOK
    <3>3. QED
      BY <3>1, <3>2
  <2>4. table' \in [null : BOOLEAN, cap : {table'.cap}, chain : {table'.chain}]
    BY <1>9 DEF WellHashed
  <2>5. table'.cap \in Nat \ {0} /\ table'.chain \in [0..table'.cap-1 -> SUBSET Nat]
    BY <1>9 DEF WellHashed
  <2>6. lost' \in BOOLEAN
    BY LostType DEF AddNew, IInv, TypeOK
  <2>7. QED
    BY <1>1, <1>4, <1>10, <2>1, <2>2, <2>3, <2>4, <2>5, <2>6 DEF TypeOK, Entry
<1>12. ChainsSound'
  <2>1. DOMAIN table'.chain = 0..table'.cap-1
    BY <1>9 DEF WellHashed
  <2>2. QED
    BY <1>9, <2>1 DEF WellHashed, ChainsSound, Ids, Bucket
<1>13. PoolDisjoint'
  <2>1. Ids' = Ids \cup {id}
    BY <1>1, <1>4 DEF Ids
  <2>2. \A i \in Ids : /\ entries'[i] = entries[i]
                       /\ entries[i].off + LenOf[entries[i].str] + 1 <= pool.used
                       /\ entries[i].str \in Strings /\ entries[i].off \in Nat
                       /\ LenOf[entries[i].str] \in Nat
    <3>1. \A i \in Ids : entries[i] \in Entry
      BY <1>3 DEF Ids
    <3>2. QED
      BY <1>1, <1>4, <3>1 DEF IInv, PoolDisjoint, Ids, Entry
  <2>3. entries'[id].str = s /\ entries'[id].off = pool.used
    <3>1. entries'[id] = e(p)
      BY <1>1, <1>4
    <3>2. e(p).str = s /\ e(p).off = p.used
      OBVIOUS
    <3>3. QED
      BY <1>2, <3>1, <3>2, Zenon
  <2>4. pool.used \in Nat /\ pool'.used = pool.used + LenOf[s] + 1
    BY <1>2, <1>10 DEF IInv, TypeOK
  <2>5. pool'.used <= pool'.size
    BY <1>2, <1>10
  <2>6. \A i \in Ids' : entries'[i].off + LenOf[entries'[i].str] + 1 <= pool'.used
    <3> SUFFICES ASSUME NEW i \in Ids'
                 PROVE  entries'[i].off + LenOf[entries'[i].str] + 1 <= pool'.used
      OBVIOUS
    <3>1. CASE i = id
      <4>1. entries'[i].str = s /\ entries'[i].off = pool.used
        BY <2>3, <3>1, Zenon
      <4>2. QED
        BY <2>4, <4>1
    <3>2. CASE i \in Ids
      BY <2>2, <2>4, <3>2
    <3>3. QED
      BY <2>1, <3>1, <3>2
  <2>7. \A i, j \in Ids' :
          i < j => entries'[i].off + LenOf[entries'[i].str] + 1 <= entries'[j].off
    <3> SUFFICES ASSUME NEW i \in Ids', NEW j \in Ids', i < j
                 PROVE  entries'[i].off + LenOf[entries'[i].str] + 1 <= entries'[j].off
      OBVIOUS
    <3>1. i \in Ids
      BY <1>5, <2>1 DEF Ids
    <3>2. CASE j = id
      BY <2>2, <2>3, <3>1, <3>2
    <3>3. CASE j \in Ids
      BY <2>2, <3>1, <3>3 DEF IInv, PoolDisjoint
    <3>4. QED
      BY <2>1, <3>2, <3>3
  <2>8. QED
    BY <2>5, <2>6, <2>7 DEF PoolDisjoint
<1>14. QED
  BY <1>11, <1>12, <1>13 DEF IInv

(* A failed add changes the capacity of the entry array at most.           *)
LEMMA AddFailsInv ==
  ASSUME IInv, NEW s \in Strings, AddFails(s)
  PROVE  IInv'
<1>1. UNCHANGED <<entries, table, pool, issued, lost, crashed>>
  BY DEF AddFails
<1>2. ecap' = ecap \/ ecap' = 2 * ecap
  BY DEF AddFails, GrownCapacity
<1>3. ecap \in Nat \ {0}
  BY DEF IInv, TypeOK
<1>4. ecap' \in Nat \ {0}
  BY <1>2, <1>3
<1>5. TypeOK'
  BY <1>1, <1>4 DEF IInv, TypeOK
<1>6. ChainsSound' /\ PoolDisjoint'
  BY <1>1 DEF IInv, ChainsSound, PoolDisjoint, Ids, Bucket
<1>7. QED
  BY <1>5, <1>6 DEF IInv

LEMMA ClearInv ==
  ASSUME IInv, Clear
  PROVE  IInv'
<1> DEFINE c == [b \in DOMAIN table.chain |-> {}]
<1>1. /\ entries' = << >>
      /\ table' = [table EXCEPT !.chain = c]
      /\ pool' = [pool EXCEPT !.used = 0]
      /\ issued' = {}
      /\ lost' = table.null
      /\ UNCHANGED <<ecap, crashed>>
  BY DEF Clear
<1>2. /\ pool' \in [gen : Nat, used : Nat, size : Nat]
      /\ pool'.used = 0 /\ pool'.size = pool.size /\ pool.size \in Nat
  BY <1>1 DEF IInv, TypeOK
<1>3. /\ table'.cap = table.cap /\ table'.chain = c
      /\ table' \in [null : BOOLEAN, cap : {table.cap}, chain : {c}]
  BY <1>1 DEF IInv, TypeOK
<1>4. DOMAIN table.chain = 0..table.cap-1
  BY DEF IInv, TypeOK
<1>5. TypeOK'
  <2>1. entries' \in Seq([str : Strings, gen : Nat, off : Nat, refs : Nat])
    BY <1>1
  <2>2. table'.chain \in [0..table'.cap-1 -> SUBSET Nat]
    BY <1>3, <1>4
  <2>3. lost' \in BOOLEAN
    <3>1. table.null \in BOOLEAN
      BY DEF IInv, TypeOK
    <3>2. QED
      BY <1>1, <3>1
  <2>4. QED
    BY <1>1, <1>2, <1>3, <2>1, <2>2, <2>3 DEF IInv, TypeOK
<1>6. ChainsSound'
  BY <1>3 DEF ChainsSound
<1>7. PoolDisjoint'
  <2>1. Ids' = {}
    BY <1>1 DEF Ids
  <2>2. QED
    BY <1>2, <2>1 DEF PoolDisjoint
<1>8. QED
  BY <1>5, <1>6, <1>7 DEF IInv

LEMMA CompactInv ==
  ASSUME IInv, Compact
  PROVE  IInv'
<1>1. table' \in Rebuilt(entries) /\ UNCHANGED <<entries, ecap, pool, issued, crashed>>
  BY DEF Compact
<1>2. entries \in Seq(Entry) /\ table.cap \in Nat \ {0}
  BY DEF IInv, TypeOK, Entry
<1>3. WellHashed(table', entries)
  BY <1>1, <1>2, RebuiltWellHashed
<1>4. table' = [null |-> table'.null, cap |-> table'.cap, chain |-> table'.chain]
  <2>1. \/ \E n \in NodesMade(entries), cap \in NextCapacity(table.cap) :
             table' = Redistributed(entries, n, cap)
        \/ table' = Lost
    BY <1>1 DEF Rebuilt
  <2>2. QED
    BY <2>1 DEF Redistributed, Lost
<1>5. TypeOK'
  <2>1. table' \in [null : BOOLEAN, cap : {table'.cap}, chain : {table'.chain}]
    BY <1>3, <1>4 DEF WellHashed
  <2>2. table'.cap \in Nat \ {0} /\ table'.chain \in [0..table'.cap-1 -> SUBSET Nat]
    BY <1>3 DEF WellHashed
  <2>3. lost' \in BOOLEAN
    BY <1>1, LostType DEF Compact, IInv, TypeOK
  <2>4. QED
    BY <1>1, <2>1, <2>2, <2>3 DEF IInv, TypeOK
<1>6. ChainsSound'
  <2>1. DOMAIN table'.chain = 0..table'.cap-1
    BY <1>3 DEF WellHashed
  <2>2. QED
    BY <1>1, <1>3, <2>1 DEF WellHashed, ChainsSound, Ids, Bucket
<1>7. PoolDisjoint'
  BY <1>1 DEF IInv, PoolDisjoint, Ids
<1>8. QED
  BY <1>5, <1>6, <1>7 DEF IInv

LEMMA StepInv == IInv /\ [Next]_vars => IInv'
<1> SUFFICES ASSUME IInv, [Next]_vars
             PROVE  IInv'
  OBVIOUS
<1>1. ASSUME NEW s \in Strings, SearchCrashes(s)
      PROVE  IInv'
  BY <1>1 DEF SearchCrashes, IInv, TypeOK, ChainsSound, PoolDisjoint, Ids, Bucket
<1>2. CASE UNCHANGED vars
  BY <1>2 DEF vars, IInv, TypeOK, ChainsSound, PoolDisjoint, Ids, Bucket
<1>3. QED
  BY <1>1, <1>2, AddExistingInv, AddNewInv, AddFailsInv, ClearInv, CompactInv DEF Next

(* Type correctness of the table under every call and every failure.       *)
THEOREM TypeCorrect == Spec => []TypeOK
<1>1. IInv => TypeOK
  BY DEF IInv
<1>2. QED
  BY InitInv, StepInv, <1>1, PTL DEF Spec

(* No chain ever names an entry that is not stored or belongs elsewhere,   *)
(* so a search never reads past entry_count, even after a rebuild that     *)
(* failed at any point.                                                    *)
THEOREM ChainsAlwaysSound == Spec => []ChainsSound
<1>1. IInv => ChainsSound
  BY DEF IInv
<1>2. QED
  BY InitInv, StepInv, <1>1, PTL DEF Spec

(* Strings added since the last clear never overlap in the pool and never  *)
(* exceed it.                                                              *)
THEOREM StringsNeverOverlap == Spec => []PoolDisjoint
<1>1. IInv => PoolDisjoint
  BY DEF IInv
<1>2. QED
  BY InitInv, StepInv, <1>1, PTL DEF Spec

-----------------------------------------------------------------------------
(* The pool moves forward only: an entry written before the last move is   *)
(* never read through a pointer into the pool of today.                    *)
Generations == \A i \in Ids : entries[i].gen <= pool.gen

ResolveInv == IInv /\ Generations /\ IssuedIdsResolve

(* What every add does to the entries: none of the stored ones changes     *)
(* its string, and an appended one is the string added.                    *)
LEMMA AddNewEntries ==
  ASSUME IInv, NEW s \in Strings, AddNew(s)
  PROVE  /\ Ids' = Ids \cup {EntryCount} /\ EntryCount \notin Ids /\ EntryCount \in Nat
         /\ \A i \in Ids : entries'[i] = entries[i]
         /\ entries'[EntryCount].str = s
         /\ entries'[EntryCount].gen = pool'.gen
         /\ pool'.gen = pool.gen \/ (PoolMoves /\ pool'.gen = pool.gen + 1)
         /\ issued' = issued \/ issued' = issued \cup {<<EntryCount, s>>}
<1> DEFINE e(p) == [str |-> s, gen |-> p.gen, off |-> p.used, refs |-> 1]
<1>1. PICK p \in PoolsFor(s) :
        /\ entries' = Append(entries, e(p))
        /\ pool' = [gen |-> p.gen, used |-> p.used + LenOf[s] + 1, size |-> p.size]
        /\ issued' = issued \/ issued' = issued \cup {<<EntryCount, s>>}
  BY DEF AddNew
<1>2. p \in [gen : Nat, used : Nat, size : Nat]
  BY PoolsForType DEF IInv, TypeOK
<1>3. entries \in Seq(Entry) /\ e(p) \in Entry
  BY <1>2 DEF IInv, TypeOK, Entry
<1>4. /\ Ids' = Ids \cup {EntryCount}
      /\ entries'[EntryCount] = e(p)
      /\ \A i \in Ids : entries'[i] = entries[i]
  BY <1>1, <1>3, AppendEntry DEF Ids, EntryCount
<1>5. EntryCount \notin Ids /\ EntryCount \in Nat
  BY <1>3 DEF Ids, EntryCount
<1>6. p.gen = pool.gen \/ (PoolMoves /\ p.gen = pool.gen + 1)
  BY DEF PoolsFor
<1>7. entries'[EntryCount].str = s /\ entries'[EntryCount].gen = p.gen
  <2>1. e(p).str = s /\ e(p).gen = p.gen
    OBVIOUS
  <2>2. QED
    BY <1>4, <2>1, Zenon
<1>8. pool'.gen = p.gen
  BY <1>1
<1>9. QED
  BY <1>1, <1>4, <1>5, <1>6, <1>7, <1>8

LEMMA AddExistingEntries ==
  ASSUME IInv, NEW s \in Strings, AddExisting(s)
  PROVE  /\ Ids' = Ids
         /\ \A j \in Ids : /\ entries'[j].str = entries[j].str
                           /\ entries'[j].gen = entries[j].gen
         /\ \E i \in Ids \cap MayMatch(s) : issued' = issued \cup {<<i, s>>}
         /\ UNCHANGED <<table, pool>>
<1>1. PICK i \in FindResults(s) \ {NotFound} :
        /\ entries' = [entries EXCEPT ![i].refs = @ + 1]
        /\ issued' = issued \cup {<<i, s>>}
  BY DEF AddExisting
<1>2. i \in Ids /\ i \in MayMatch(s)
  BY <1>1, FoundIsStored
<1>3. entries \in Seq(Entry)
  BY DEF IInv, TypeOK, Entry
<1>4. Ids' = Ids
  BY <1>1, <1>2, <1>3 DEF Ids
<1>5. ASSUME NEW j \in Ids
      PROVE  entries'[j].str = entries[j].str /\ entries'[j].gen = entries[j].gen
  <2>1. entries[j] \in Entry
    BY <1>3 DEF Ids
  <2>2. CASE j = i
    BY <1>1, <1>2, <2>1, <2>2 DEF Entry, Ids
  <2>3. CASE j # i
    BY <1>1, <1>2, <2>3 DEF Ids
  <2>4. QED
    BY <2>2, <2>3
<1>6. UNCHANGED <<table, pool>>
  BY DEF AddExisting
<1>7. QED
  BY <1>1, <1>2, <1>4, <1>5, <1>6

LEMMA StoredType ==
  ASSUME IInv, NEW i \in Ids
  PROVE  i \in Nat /\ entries[i].gen \in Nat
<1>1. entries \in Seq(Entry)
  BY DEF IInv, TypeOK, Entry
<1>2. i \in 1..Len(entries) /\ entries[i] \in Entry
  BY <1>1 DEF Ids
<1>3. QED
  BY <1>1, <1>2 DEF Entry

(* An add after which every entry is live began with every entry live:     *)
(* what a move of the pool has made stale stays stale.                     *)
LEMMA LiveBefore ==
  ASSUME IInv, Generations, NEW s \in Strings, AddNew(s), AllLive'
  PROVE  AllLive
<1>1. /\ Ids' = Ids \cup {EntryCount}
      /\ \A i \in Ids : entries'[i] = entries[i]
      /\ pool'.gen = pool.gen \/ pool'.gen = pool.gen + 1
  BY AddNewEntries
<1>2. pool.gen \in Nat
  BY DEF IInv, TypeOK
<1>3. ASSUME NEW i \in Ids
      PROVE  entries[i].gen = pool.gen
  <2>1. entries[i].gen \in Nat
    BY <1>3, StoredType
  <2>2. entries[i].gen = pool'.gen
    BY <1>1, <1>3 DEF AllLive, Live
  <2>3. entries[i].gen <= pool.gen
    BY <1>3 DEF Generations
  <2>4. QED
    BY <1>1, <1>2, <2>1, <2>2, <2>3
<1>4. QED
  BY <1>3 DEF AllLive, Live

LEMMA ResolveStep ==
  ASSUME ResolveInv, [Next]_vars
  PROVE  ResolveInv'
<1>1. IInv'
  BY StepInv DEF ResolveInv
<1> USE DEF ResolveInv
<1>2. ASSUME NEW s \in Strings, AddExisting(s)
      PROVE  (Generations /\ IssuedIdsResolve)'
  <2>1. PICK i \in Ids \cap MayMatch(s) : issued' = issued \cup {<<i, s>>}
    BY <1>2, AddExistingEntries
  <2>2. AllLive' => AllLive /\ entries[i].str = s
    BY <1>2, <2>1, AddExistingEntries DEF MayMatch, AllLive, Live
  <2>3. Generations'
    BY <1>2, AddExistingEntries DEF Generations
  <2>4. IssuedIdsResolve'
    BY <1>2, <2>1, <2>2, AddExistingEntries DEF IssuedIdsResolve
  <2>5. QED
    BY <2>3, <2>4
<1>3. ASSUME NEW s \in Strings, AddNew(s)
      PROVE  (Generations /\ IssuedIdsResolve)'
  <2>1. Generations'
    <3>1. pool.gen \in Nat /\ \A i \in Ids : entries[i].gen \in Nat
      BY StoredType DEF IInv, TypeOK
    <3>2. /\ Ids' = Ids \cup {EntryCount}
          /\ \A i \in Ids : entries'[i] = entries[i]
          /\ entries'[EntryCount].gen = pool'.gen
          /\ pool'.gen = pool.gen \/ pool'.gen = pool.gen + 1
      BY <1>3, AddNewEntries
    <3>3. QED
      BY <3>1, <3>2 DEF Generations
  <2>2. IssuedIdsResolve'
    BY <1>3, AddNewEntries, LiveBefore DEF IssuedIdsResolve
  <2>3. QED
    BY <2>1, <2>2
<1>4. ASSUME NEW s \in Strings, AddFails(s) \/ SearchCrashes(s)
      PROVE  (Generations /\ IssuedIdsResolve)'
  BY <1>4 DEF AddFails, SearchCrashes, Generations, AllLive, Live, IssuedIdsResolve, Ids
<1>5. ASSUME Clear
      PROVE  (Generations /\ IssuedIdsResolve)'
  <2>1. entries' = << >> /\ issued' = {}
    BY <1>5 DEF Clear
  <2>2. Ids' = {}
    BY <2>1 DEF Ids
  <2>3. QED
    BY <2>1, <2>2 DEF Generations, IssuedIdsResolve
<1>6. ASSUME Compact
      PROVE  (Generations /\ IssuedIdsResolve)'
  BY <1>6 DEF Compact, Generations, AllLive, Live, IssuedIdsResolve, Ids
<1>7. ASSUME UNCHANGED vars
      PROVE  (Generations /\ IssuedIdsResolve)'
  BY <1>7 DEF vars, Generations, AllLive, Live, IssuedIdsResolve, Ids
<1>8. QED
  BY <1>1, <1>2, <1>3, <1>4, <1>5, <1>6, <1>7 DEF Next

LEMMA ResolveInit == Init => ResolveInv
<1> SUFFICES ASSUME Init PROVE ResolveInv
  OBVIOUS
<1>1. Ids = {} /\ issued = {}
  BY DEF Init, Ids
<1>2. QED
  BY <1>1, InitInv DEF ResolveInv, Generations, IssuedIdsResolve

(* An id returned by an add names its string until the next clear,         *)
(* whichever allocations fail, unless the pool moves under a string.       *)
THEOREM IdsAreStable == Spec => []IssuedIdsResolve
<1>1. ResolveInv /\ [Next]_vars => ResolveInv'
  BY ResolveStep
<1>2. ResolveInv => IssuedIdsResolve
  BY DEF ResolveInv
<1>3. QED
  BY ResolveInit, <1>1, <1>2, PTL DEF Spec

-----------------------------------------------------------------------------
(* Why one string has one id: while nothing is lost every stored entry is  *)
(* on its chain, so a search that misses means there is no entry, and no   *)
(* two entries of a deduplicated string are ever stored.                   *)
AllHashed == Complete(entries, table)

UniqueEntries ==
  \A i, j \in Ids :
    Deduplicated(entries[i].str) /\ entries[i].str = entries[j].str => i = j

InternInv ==
  /\ ResolveInv
  /\ ~lost => AllHashed
  /\ AllLive /\ ~lost => UniqueEntries

(* A search that may miss proves that the string is not stored.            *)
LEMMA MissedIsAbsent ==
  ASSUME IInv, AllLive, AllHashed, NEW s \in Strings, NotFound \in FindResults(s)
  PROVE  \A i \in Ids : entries[i].str # s
<1>1. NotFound \notin MayMatch(s)
  <2> SUFFICES ASSUME NotFound \in MayMatch(s) PROVE FALSE
    OBVIOUS
  <2>1. Bucket(s, table.cap) \in DOMAIN table.chain
    BY BucketInRange DEF IInv, TypeOK
  <2>2. NotFound \in Ids
    BY <2>1 DEF MayMatch, Candidates, IInv, ChainsSound
  <2>3. QED
    BY SMTT(30), <2>2 DEF Ids, NotFound, IInv, TypeOK
<1>2. MustMatch(s) = {}
  BY <1>1 DEF FindResults
<1>3. ASSUME NEW i \in Ids, entries[i].str = s
      PROVE  FALSE
  <2>1. i \in Candidates(s)
    BY <1>3 DEF AllHashed, Complete, Candidates, Ids
  <2>2. QED
    BY <1>2, <1>3, <2>1 DEF MustMatch, AllLive
<1>4. QED
  BY <1>3

LEMMA InternAddNew ==
  ASSUME InternInv, NEW s \in Strings, AddNew(s), AllLive', ~lost'
  PROVE  /\ AllLive /\ ~lost /\ AllHashed'
         /\ Deduplicated(s) => \A i \in Ids : entries[i].str # s
         /\ UniqueEntries'
<1>1. IInv /\ Generations
  BY DEF InternInv, ResolveInv
<1>2. AllLive
  BY <1>1, LiveBefore
<1>3. ~lost /\ AllHashed'
  BY DEF AddNew, AllHashed
<1>4. Deduplicated(s) => \A i \in Ids : entries[i].str # s
  BY <1>1, <1>2, <1>3, MissedIsAbsent DEF AddNew, IsNew, InternInv
<1>5. /\ Ids' = Ids \cup {EntryCount} /\ EntryCount \notin Ids
      /\ \A i \in Ids : entries'[i] = entries[i]
      /\ entries'[EntryCount].str = s
  BY <1>1, AddNewEntries
<1>6. UniqueEntries'
  <2>1. UniqueEntries
    BY <1>2, <1>3 DEF InternInv
  <2>2. QED
    BY <1>4, <1>5, <2>1 DEF UniqueEntries, Deduplicated
<1>7. QED
  BY <1>2, <1>3, <1>4, <1>6

(* A found string: nothing but a reference count changes.                  *)
LEMMA InternAddExisting ==
  ASSUME InternInv, NEW s \in Strings, AddExisting(s)
  PROVE  /\ AllLive' <=> AllLive
         /\ lost' = lost
         /\ AllHashed => AllHashed'
         /\ UniqueEntries => UniqueEntries'
<1>1. /\ Ids' = Ids
      /\ \A j \in Ids : entries'[j].str = entries[j].str /\ entries'[j].gen = entries[j].gen
      /\ UNCHANGED <<table, pool>>
  BY AddExistingEntries DEF InternInv, ResolveInv
<1>2. AllLive' <=> AllLive
  BY <1>1 DEF AllLive, Live
<1>3. lost' = lost
  BY DEF AddExisting
<1>4. AllHashed => AllHashed'
  BY <1>1 DEF AllHashed, Complete, Ids, Bucket
<1>5. UniqueEntries => UniqueEntries'
  BY <1>1 DEF UniqueEntries, Deduplicated
<1>6. QED
  BY <1>2, <1>3, <1>4, <1>5

LEMMA InternStep ==
  ASSUME InternInv, [Next]_vars
  PROVE  InternInv'
<1> DEFINE Rest == /\ ~lost => AllHashed
                   /\ AllLive /\ ~lost => UniqueEntries
<1>1. ResolveInv'
  BY ResolveStep DEF InternInv
<1>2. IInv
  BY DEF InternInv, ResolveInv
<1>3. ASSUME NEW s \in Strings, AddExisting(s)
      PROVE  Rest'
  BY <1>3, InternAddExisting DEF InternInv
<1>4. ASSUME NEW s \in Strings, AddNew(s)
      PROVE  Rest'
  <2>1. ~lost' => AllHashed'
    BY <1>4 DEF AddNew, AllHashed
  <2>2. QED
    BY <1>4, <2>1, InternAddNew
<1>5. ASSUME NEW s \in Strings, AddFails(s) \/ SearchCrashes(s)
      PROVE  Rest'
  BY <1>5 DEF AddFails, SearchCrashes, InternInv, AllHashed, Complete, AllLive, Live,
              UniqueEntries, Ids, Bucket, Deduplicated
<1>6. ASSUME Clear
      PROVE  Rest'
  <2>1. entries' = << >> /\ table' = [table EXCEPT !.chain = [b \in DOMAIN table.chain |-> {}]]
    BY <1>6 DEF Clear
  <2>2. DOMAIN entries' = {} /\ Ids' = {}
    BY <2>1 DEF Ids
  <2>3. table'.null = table.null /\ lost' = table.null
    BY <1>2, <1>6, <2>1 DEF Clear, IInv, TypeOK
  <2>4. ~lost' => AllHashed'
    BY <2>2, <2>3 DEF AllHashed, Complete
  <2>5. UniqueEntries'
    BY <2>2 DEF UniqueEntries
  <2>6. QED
    BY <2>4, <2>5
<1>7. ASSUME Compact
      PROVE  Rest'
  <2>1. entries' = entries /\ pool' = pool /\ lost' = (lost \/ ~Complete(entries, table'))
    BY <1>7 DEF Compact
  <2>2. ~lost' => AllHashed' /\ ~lost
    BY <2>1 DEF AllHashed
  <2>3. AllLive' <=> AllLive
    BY <2>1 DEF AllLive, Live, Ids
  <2>4. UniqueEntries => UniqueEntries'
    BY <2>1 DEF UniqueEntries, Ids, Deduplicated
  <2>5. QED
    BY <2>2, <2>3, <2>4 DEF InternInv
<1>8. ASSUME UNCHANGED vars
      PROVE  Rest'
  BY <1>8 DEF vars, InternInv, AllHashed, Complete, AllLive, Live, UniqueEntries, Ids,
              Bucket, Deduplicated
<1>9. Rest'
  BY <1>3, <1>4, <1>5, <1>6, <1>7, <1>8 DEF Next
<1>10. QED
  BY <1>1, <1>9 DEF InternInv

LEMMA InternInit == Init => InternInv
<1> SUFFICES ASSUME Init PROVE InternInv
  OBVIOUS
<1>1. Ids = {} /\ DOMAIN entries = {} /\ ~table.null
  BY DEF Init, Ids
<1>2. QED
  BY <1>1, ResolveInit DEF InternInv, AllHashed, Complete, UniqueEntries

(* All adds of one string that is long enough to be deduplicated return    *)
(* one id, unless the pool has moved under a string or an entry has fallen *)
(* off its chain since the last clear.                                     *)
THEOREM OneIdPerString == Spec => []Interned
<1>1. InternInv /\ [Next]_vars => InternInv'
  BY InternStep
<1>2. InternInv => Interned
  BY DEF InternInv, ResolveInv, IssuedIdsResolve, UniqueEntries, Interned
<1>3. QED
  BY InternInit, <1>1, <1>2, PTL DEF Spec

-----------------------------------------------------------------------------
(* The refinement: a step of the table answers as an interner may, or      *)
(* forgets, or changes nothing a caller sees.                              *)
LEMMA FoundFits ==
  ASSUME InternInv, AllLive, ~lost, NEW s \in Strings, AddExisting(s)
  PROVE  \E i \in Nat : /\ issued' = issued \cup {<<i, s>>}
                        /\ Promise!Fits(i, s)
<1>1. PICK i \in Ids \cap MayMatch(s) : issued' = issued \cup {<<i, s>>}
  BY AddExistingEntries DEF InternInv, ResolveInv
<1>2. entries[i].str = s
  BY <1>1 DEF MayMatch, AllLive
<1>3. i \in Nat
  BY <1>1, StoredType DEF InternInv, ResolveInv
<1>4. \A p \in issued : p[1] \in Ids /\ entries[p[1]].str = p[2]
  BY DEF InternInv, ResolveInv, IssuedIdsResolve
<1>5. UniqueEntries
  BY DEF InternInv
<1>6. Granted = issued
  BY DEF Granted
<1>7. Promise!Fits(i, s)
  BY <1>1, <1>2, <1>4, <1>5, <1>6 DEF Promise!Fits, UniqueEntries, Deduplicated
<1>8. QED
  BY <1>1, <1>3, <1>7

LEMMA NewFits ==
  ASSUME InternInv, NEW s \in Strings, AddNew(s), AllLive', ~lost'
  PROVE  /\ Granted = issued
         /\ EntryCount \in Nat /\ Promise!Fits(EntryCount, s)
         /\ issued' = issued \/ issued' = issued \cup {<<EntryCount, s>>}
<1>1. AllLive /\ ~lost /\ (Deduplicated(s) => \A i \in Ids : entries[i].str # s)
  BY InternAddNew
<1>2. EntryCount \notin Ids /\ EntryCount \in Nat
      /\ (issued' = issued \/ issued' = issued \cup {<<EntryCount, s>>})
  BY AddNewEntries DEF InternInv, ResolveInv
<1>3. \A p \in issued : p[1] \in Ids /\ entries[p[1]].str = p[2]
  BY <1>1 DEF InternInv, ResolveInv, IssuedIdsResolve
<1>4. Granted = issued
  BY <1>1 DEF Granted
<1>5. Promise!Fits(EntryCount, s)
  BY <1>1, <1>2, <1>3, <1>4 DEF Promise!Fits, Deduplicated
<1>6. QED
  BY <1>2, <1>4, <1>5

LEMMA AnswerOf ==
  ASSUME NEW s \in Strings, NEW i \in Nat, Promise!Fits(i, s),
         Granted' = Granted \cup {<<i, s>>}
  PROVE  Promise!Next
<1>1. <<i, s>> \in Granted' /\ <<i, s>> \in Nat \X {s} /\ <<i, s>>[1] = i
  OBVIOUS
<1>2. Promise!Answer(s)
  BY <1>1 DEF Promise!Answer
<1>3. QED
  BY <1>2 DEF Promise!Next

LEMMA PromiseStep ==
  ASSUME InternInv, [Next]_vars
  PROVE  [Promise!Next]_Granted
<1>1. CASE ~(AllLive' /\ ~lost')
  <2>1. Granted' = {}
    BY <1>1 DEF Granted
  <2>2. QED
    BY <2>1 DEF Promise!Next, Promise!Forget
<1>2. CASE AllLive' /\ ~lost'
  <2>1. Granted' = issued'
    BY <1>2 DEF Granted
  <2>2. ASSUME NEW s \in Strings, AddExisting(s)
        PROVE  Promise!Next
    <3>1. AllLive /\ ~lost
      BY <1>2, <2>2, InternAddExisting
    <3>2. PICK i \in Nat : issued' = issued \cup {<<i, s>>} /\ Promise!Fits(i, s)
      BY <2>2, <3>1, FoundFits
    <3>3. Granted = issued
      BY <3>1 DEF Granted
    <3>4. QED
      BY <2>1, <3>2, <3>3, AnswerOf
  <2>3. ASSUME NEW s \in Strings, AddNew(s)
        PROVE  [Promise!Next]_Granted
    BY <1>2, <2>1, <2>3, NewFits, AnswerOf
  <2>4. ASSUME NEW s \in Strings, AddFails(s) \/ SearchCrashes(s)
        PROVE  Granted' = Granted
    BY <2>4 DEF AddFails, SearchCrashes, Granted, AllLive, Live, Ids
  <2>5. ASSUME Clear
        PROVE  Promise!Next
    <3>1. issued' = {}
      BY <2>5 DEF Clear
    <3>2. QED
      BY <2>1, <3>1 DEF Promise!Next, Promise!Forget
  <2>6. ASSUME Compact
        PROVE  Granted' = Granted
    <3>1. entries' = entries /\ pool' = pool /\ issued' = issued
      BY <2>6 DEF Compact
    <3>2. AllLive /\ ~lost
      BY <1>2, <2>6, <3>1 DEF Compact, AllLive, Live, Ids
    <3>3. QED
      BY <2>1, <3>1, <3>2 DEF Granted
  <2>7. ASSUME UNCHANGED vars
        PROVE  Granted' = Granted
    BY <2>7 DEF vars, Granted, AllLive, Live, Ids
  <2>8. QED
    BY <2>2, <2>3, <2>4, <2>5, <2>6, <2>7 DEF Next
<1>3. QED
  BY <1>1, <1>2

(* The table implements the interner the parser relies on, for all strings *)
(* and configurations and whatever fails.                                  *)
THEOREM TableImplementsInterner == Spec => KeepsThePromise
<1>1. Init => Promise!Init
  BY DEF Init, Promise!Init, Granted
<1>2. InternInv /\ [Next]_vars => InternInv'
  BY InternStep
<1>3. InternInv /\ [Next]_vars => [Promise!Next]_Granted
  BY PromiseStep
<1>4. QED
  BY InternInit, <1>1, <1>2, <1>3, PTL DEF Spec, KeepsThePromise, Promise!Spec

-----------------------------------------------------------------------------
(* When the conditions of the above hold: without failing allocations      *)
(* nothing is ever lost.                                                   *)
NeverLost == ~lost

(* Without failing allocations a rebuild puts every entry on its chain.    *)
LEMMA RebuiltIsComplete ==
  ASSUME AllocFails = FALSE, NEW es \in Seq(Entry), table.cap \in Nat \ {0},
         NEW t \in Rebuilt(es)
  PROVE  /\ ~t.null
         /\ \A i \in DOMAIN es : i \in t.chain[Bucket(es[i].str, t.cap)]
<1>1. PICK cap \in NextCapacity(table.cap) : t = Redistributed(es, Len(es), cap)
  <2>1. \E n \in NodesMade(es), cap \in NextCapacity(table.cap) :
          t = Redistributed(es, n, cap)
    BY DEF Rebuilt
  <2>2. NodesMade(es) = {Len(es)}
    BY DEF NodesMade
  <2>3. QED
    BY <2>1, <2>2
<1>2. cap \in Nat \ {0}
  BY NextCapacityType
<1>3. /\ t.cap = cap /\ ~t.null
      /\ t.chain = [b \in 0..cap-1 |->
                     {i \in {k \in DOMAIN es : k <= Len(es)} : Bucket(es[i].str, cap) = b}]
  BY <1>1 DEF Redistributed, ChainsOf
<1>4. ASSUME NEW i \in DOMAIN es
      PROVE  i \in t.chain[Bucket(es[i].str, t.cap)]
  <2>1. es[i] \in Entry /\ i <= Len(es)
    OBVIOUS
  <2>2. es[i].str \in Strings
    BY <2>1 DEF Entry
  <2>3. Bucket(es[i].str, cap) \in 0..cap-1
    BY <1>2, <2>2, BucketInRange
  <2>4. QED
    BY <1>3, <2>1, <2>3
<1>5. QED
  BY <1>3, <1>4

LEMMA CompleteAfterAdd ==
  ASSUME AllocFails = FALSE, IInv, AllHashed, NEW s \in Strings, AddNew(s)
  PROVE  AllHashed'
<1> DEFINE id == EntryCount
           es == entries'
           tables == IF Overloaded(id + 1, table.cap) THEN Rebuilt(es) ELSE {table}
<1>0. IInv'
  BY AddNewInv
<1>1. PICK t \in tables :
        \/ t.null /\ table' = t
        \/ ~t.null /\ table' = Pushed(t, s, id)
  BY DEF AddNew
<1>2. entries' \in Seq(Entry) /\ entries \in Seq(Entry) /\ table.cap \in Nat \ {0}
  BY <1>0 DEF IInv, TypeOK, Entry
<1>3. /\ Ids' = Ids \cup {id} /\ id \notin Ids /\ id \in Nat
      /\ \A i \in Ids : entries'[i] = entries[i]
      /\ entries'[id].str = s
  BY AddNewEntries
<1>4. ~t.null /\ \A i \in Ids : i \in t.chain[Bucket(es[i].str, t.cap)]
  <2>1. CASE t = table
    BY <1>3, <2>1 DEF AllHashed, Complete, Ids
  <2>2. CASE t \in Rebuilt(es)
    BY <1>2, <1>3, <2>2, RebuiltIsComplete DEF Ids
  <2>3. QED
    BY <2>1, <2>2
<1>5. table' = Pushed(t, s, id)
  BY <1>1, <1>4
<1>6. WellHashed(t, es)
  <2>1. WellHashed(table, entries)
    BY WellHashedEquiv DEF IInv
  <2>2. CASE t = table
    BY <1>3, <2>1, <2>2 DEF WellHashed, Ids
  <2>3. CASE t \in Rebuilt(es)
    BY <1>2, <2>3, RebuiltWellHashed
  <2>4. QED
    BY <2>2, <2>3
<1>7. t.cap \in Nat \ {0} /\ t.chain \in [0..t.cap-1 -> SUBSET Nat]
  BY <1>6 DEF WellHashed
<1>8. /\ ~table'.null /\ table'.cap = t.cap
      /\ table'.chain = [t.chain EXCEPT ![Bucket(s, t.cap)] = @ \cup {id}]
  BY <1>4, <1>5 DEF Pushed
<1>9. Bucket(s, t.cap) \in 0..t.cap-1
  BY <1>7, BucketInRange
<1>10. ASSUME NEW i \in Ids'
       PROVE  i \in table'.chain[Bucket(entries'[i].str, t.cap)]
  <2>1. CASE i = id
    BY <1>3, <1>7, <1>8, <1>9, <2>1
  <2>2. CASE i \in Ids
    <3>1. entries'[i] \in Entry
      BY <1>2, <1>10 DEF Ids
    <3>2. entries'[i].str \in Strings
      BY <3>1 DEF Entry
    <3>3. Bucket(entries'[i].str, t.cap) \in 0..t.cap-1
      BY <1>7, <3>2, BucketInRange
    <3>4. QED
      BY <1>4, <1>7, <1>8, <2>2, <3>3
  <2>3. QED
    BY <1>3, <1>10, <2>1, <2>2
<1>11. QED
  BY <1>8, <1>10 DEF AllHashed, Complete, Bucket, Ids

LEMMA CompleteStep ==
  ASSUME AllocFails = FALSE, IInv, NeverLost, AllHashed, [Next]_vars
  PROVE  (NeverLost /\ AllHashed)'
<1>1. ASSUME NEW s \in Strings, AddExisting(s)
      PROVE  (NeverLost /\ AllHashed)'
  BY <1>1, AddExistingEntries DEF AddExisting, NeverLost, AllHashed, Complete, Ids, Bucket
<1>2. ASSUME NEW s \in Strings, AddNew(s)
      PROVE  (NeverLost /\ AllHashed)'
  BY <1>2, CompleteAfterAdd DEF AddNew, NeverLost, AllHashed
<1>3. ASSUME NEW s \in Strings, AddFails(s) \/ SearchCrashes(s)
      PROVE  (NeverLost /\ AllHashed)'
  BY <1>3 DEF AddFails, SearchCrashes, NeverLost, AllHashed, Complete, Bucket
<1>4. ASSUME Clear
      PROVE  (NeverLost /\ AllHashed)'
  <2>1. entries' = << >> /\ table' = [table EXCEPT !.chain = [b \in DOMAIN table.chain |-> {}]]
    BY <1>4 DEF Clear
  <2>2. DOMAIN entries' = {}
    BY <2>1
  <2>3. table'.null = table.null /\ lost' = table.null
    BY <1>4, <2>1 DEF Clear, IInv, TypeOK
  <2>4. QED
    BY <2>2, <2>3 DEF NeverLost, AllHashed, Complete
<1>5. ASSUME Compact
      PROVE  (NeverLost /\ AllHashed)'
  <2>1. table' \in Rebuilt(entries) /\ entries' = entries
        /\ lost' = (lost \/ ~Complete(entries, table'))
    BY <1>5 DEF Compact
  <2>2. entries \in Seq(Entry) /\ table.cap \in Nat \ {0}
    BY DEF IInv, TypeOK, Entry
  <2>3. Complete(entries, table')
    BY <2>1, <2>2, RebuiltIsComplete DEF Complete
  <2>4. QED
    BY <2>1, <2>3 DEF NeverLost, AllHashed
<1>6. ASSUME UNCHANGED vars
      PROVE  (NeverLost /\ AllHashed)'
  BY <1>6 DEF vars, NeverLost, AllHashed, Complete, Bucket
<1>7. QED
  BY <1>1, <1>2, <1>3, <1>4, <1>5, <1>6 DEF Next

(* With memory to spare no entry ever falls off its chain, so the promise  *)
(* is only ever broken by a moved pool.                                    *)
THEOREM NothingLostWithoutFailures ==
  ASSUME AllocFails = FALSE
  PROVE  Spec => []NeverLost
<1>1. Init => NeverLost /\ AllHashed
  BY DEF Init, NeverLost, AllHashed, Complete
<1>2. IInv /\ NeverLost /\ AllHashed /\ [Next]_vars => (NeverLost /\ AllHashed)'
  BY CompleteStep
<1>3. QED
  BY InitInv, StepInv, <1>1, <1>2, PTL DEF Spec
=============================================================================
