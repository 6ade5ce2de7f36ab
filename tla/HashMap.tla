------------------------------ MODULE HashMap ------------------------------
(***************************************************************************)
(* The hash table behind Map objects, vm->allModules included              *)
(* (object/obj_map.c): open addressing with linear probing, removed keys   *)
(* leave a tombstone, the entries are copied to a larger or a smaller      *)
(* array when the load factor asks for it.                                 *)
(*                                                                         *)
(* The key of a free entry is UNDEFINED; the entry ends a probe chain if   *)
(* its value is FALSE and is a tombstone if its value is TRUE.             *)
(***************************************************************************)
EXTENDS Integers, FiniteSets

CONSTANTS
  Key, Value,
  Hash,          \* hashValue() of every key
  UNDEFINED,     \* VT_UNDEFINED
  MinCapacity,   \* MIN_CAPACITY, 64 in class.h
  GrowFactor,    \* CAPACITY_GROW_FACTOR, 4 in class.h
  LoadNum,       \* MAP_LOAD_PERCENT, 0.8 in obj_map.h, is LoadNum / LoadDen
  LoadDen,
  MaxCapacity,   \* bound: the largest array
  ShadowedStores \* may scripts store to a key that lies behind a tombstone?

ASSUME HashMapAssumption ==
  /\ Hash \in [Key -> Nat]
  /\ UNDEFINED \notin Key \union Value
  /\ MinCapacity \in Nat \ {0, 1} /\ GrowFactor \in Nat \ {0, 1} /\ MaxCapacity \in Nat
  /\ LoadNum \in Nat \ {0} /\ LoadDen \in Nat /\ LoadNum < LoadDen /\ LoadDen <= MinCapacity * LoadNum
  /\ ShadowedStores \in BOOLEAN

VARIABLES
  capacity,  \* objMap->capacity
  count,     \* objMap->count
  entries,   \* objMap->entries, indexed from 0
  stuck      \* findEntry() goes round and round in a table without an end of chain

mapVars == <<capacity, count, entries, stuck>>

Entry == [key : Key \union {UNDEFINED}, value : Value \union BOOLEAN]

MapTypeOK ==
  /\ capacity \in 0..MaxCapacity
  /\ count \in 0..capacity
  /\ entries \in [0..capacity - 1 -> Entry]
  /\ stuck \in BOOLEAN

EndOfChain == [key |-> UNDEFINED, value |-> FALSE]
Tombstone == [key |-> UNDEFINED, value |-> TRUE]

Empty(n) == [i \in 0..n - 1 |-> EndOfChain]

MapInit == capacity = 0 /\ count = 0 /\ entries = Empty(0) /\ stuck = FALSE

-----------------------------------------------------------------------------
(* Probing *)

\* Where the probe for k looks after n misses in a table of the given size.
Slot(k, n, size) == (Hash[k] + n) % size

\* The number of misses until an entry satisfies Stop; size if none does.
Misses(k, table, size, Stop(_)) ==
  CHOOSE n \in 0..size :
    /\ \A m \in 0..n - 1 : ~Stop(table[Slot(k, m, size)])
    /\ n = size \/ Stop(table[Slot(k, n, size)])

NotThere == -1
Endless == -2

\* findEntry(): the index of the entry of k, NotThere, or Endless if every entry is
\* visited again and again.
FindEntry(k) ==
  IF capacity = 0 THEN NotThere
  ELSE LET n == Misses(k, entries, capacity, LAMBDA e : e.key = k \/ e = EndOfChain)
           i == Slot(k, n, capacity)
       IN  IF n = capacity THEN Endless ELSE IF entries[i] = EndOfChain THEN NotThere ELSE i

\* Fault: a key that is in the table keeps the value it has.
AddEntryOnce(table, size, k, v) ==
  LET n == Misses(k, table, size, LAMBDA e : e.key \in {k, UNDEFINED})
      i == Slot(k, n, size)
  IN  IF table[i].key = k THEN table ELSE [table EXCEPT ![i] = [key |-> k, value |-> v]]

\* addEntry(): the first entry that is free, tombstones included, or holds k.
AddEntry(table, size, k, v) ==
  LET n == Misses(k, table, size, LAMBDA e : e.key \in {k, UNDEFINED})
  IN  [table EXCEPT ![Slot(k, n, size)] = [key |-> k, value |-> v]]

Used(table, size) == {i \in 0..size - 1 : table[i].key # UNDEFINED}

\* The key is in the table, but addEntry() would meet a tombstone before it.
Shadowed(table, size, k) ==
  /\ \E i \in Used(table, size) : table[i].key = k
  /\ table[Slot(k, Misses(k, table, size, LAMBDA e : e.key \in {k, UNDEFINED}), size)].key # k

\* resizeMap(): the entries in use are added one by one to an empty table.
Resized(table, size) ==
  LET copied[i \in 0..capacity] ==
        IF i = 0 THEN Empty(size)
        ELSE LET e == table[i - 1]
             IN  IF e.key = UNDEFINED THEN copied[i - 1]
                 ELSE AddEntry(copied[i - 1], size, e.key, e.value)
  IN  copied[capacity]

AtLeast(n) == IF n < MinCapacity THEN MinCapacity ELSE n

-----------------------------------------------------------------------------
(* The operations of a Map object *)

\* Fault: the entry about to be added is not counted.
FullBefore == capacity = 0 \/ count * LoadDen > capacity * LoadNum

\* The test of mapSet() for growing.
Full == (count + 1) * LoadDen > capacity * LoadNum

\* mapSet(): map[k] = v
Set(k, v) ==
  /\ LET size == IF Full THEN AtLeast(capacity * GrowFactor) ELSE capacity
         table == IF Full THEN Resized(entries, size) ELSE entries
         new == AddEntry(table, size, k, v)
     IN  /\ size <= MaxCapacity
         /\ capacity' = size
         /\ Shadowed(table, size, k) => ShadowedStores
         /\ count' = IF Used(new, size) = Used(table, size) THEN count ELSE count + 1
         /\ entries' = new
  /\ UNCHANGED stuck

\* Fault: capacity and count are not reset.
ClearEntries ==
  /\ entries' = Empty(0)
  /\ UNCHANGED <<capacity, count, stuck>>

\* clearMap()
Clear ==
  /\ capacity' = 0
  /\ count' = 0
  /\ entries' = Empty(0)
  /\ UNCHANGED stuck

\* Fault: a removed entry ends its probe chain.
RemovedWithoutTrace(i) == [entries EXCEPT ![i] = EndOfChain]

Removed(i) == [entries EXCEPT ![i] = Tombstone]

\* The test of removeKey() for shrinking, when n entries are left.
Sparse(n) == n * LoadDen < (capacity \div GrowFactor) * LoadNum /\ n > MinCapacity

\* removeKey() of a key that is in the map
Remove(k) ==
  /\ FindEntry(k) \in 0..capacity - 1
  /\ LET left == count - 1
         table == Removed(FindEntry(k))
         size == AtLeast(capacity \div GrowFactor)
     IN  /\ count' = left
         /\ IF left = 0 THEN capacity' = 0 /\ entries' = Empty(0)
            ELSE IF Sparse(left) THEN capacity' = size /\ entries' = Resized(table, size)
            ELSE capacity' = capacity /\ entries' = table
  /\ UNCHANGED stuck

\* containsKey(), map[k] or remove() of a key that is not in the map: no effect if
\* the probe meets the end of a chain, otherwise the interpreter hangs.
Miss(k) ==
  /\ FindEntry(k) \in {NotThere, Endless}
  /\ stuck' = (FindEntry(k) = Endless)
  /\ UNCHANGED <<capacity, count, entries>>

MapNext ==
  /\ ~stuck
  /\ \/ \E k \in Key : Remove(k) \/ Miss(k) \/ \E v \in Value : Set(k, v)
     \/ Clear

MapSpec == MapInit /\ [][MapNext]_mapVars

-----------------------------------------------------------------------------
(* Properties *)

\* What the map answers for k.
Get(k) == LET i == FindEntry(k) IN IF i \in 0..capacity - 1 THEN entries[i].value ELSE UNDEFINED

\* Every key that is in the table is found: between the place its hash asks for
\* and the place it has, no removal and no resizing leaves an end of chain.
EveryKeyIsFound ==
  \A i \in Used(entries, capacity) : FindEntry(entries[i].key) \in 0..capacity - 1

\* map.count is the number of entries in use, and the table is never fuller than
\* MAP_LOAD_PERCENT, so that addEntry() always finds a free entry.
CountAndLoad ==
  /\ count = Cardinality(Used(entries, capacity))
  /\ count * LoadDen <= capacity * LoadNum

\* A key has one entry: "a free slot was found, so the key is not in the map", says
\* the comment in addEntry().
OneEntryPerKey ==
  \A i, j \in Used(entries, capacity) : entries[i].key = entries[j].key => i = j

\* A lookup always answers (containsKey in core.c: "determines whether the map
\* contains the key").
LookupAnswers == ~stuck

\* The state of the table: every key of the map is found, and by one entry only; the counts
\* are right and leave a free entry for the search to end at.
TableOK == MapTypeOK /\ EveryKeyIsFound /\ CountAndLoad /\ OneEntryPerKey

MapAbstract == INSTANCE KeyValue WITH map <- [k \in Key |-> Get(k)]

\* What an operation on the table does to the answers is what the operation of that
\* name, with the same key and the same value, does to a map; a lookup changes none.
SameOperation ==
  /\ \A k \in Key, v \in Value : Set(k, v) => MapAbstract!Put(k, v)
  /\ \A k \in Key : Remove(k) => MapAbstract!Delete(k)
  /\ \A k \in Key : Miss(k) => UNCHANGED [c \in Key |-> Get(c)]
  /\ Clear => MapAbstract!DeleteAll

\* The table implements the map: it begins as an empty one, and map[k] = v, remove(k)
\* and clear() change the answers for all keys as Put(k, v), Delete(k) and DeleteAll do
\* (mapSet(), removeKey() and clearMap() of obj_map.c).
ImplementsMap == MapAbstract!Spec /\ [][SameOperation]_mapVars
=============================================================================
