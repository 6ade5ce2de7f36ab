------------------------------ MODULE ObjList ------------------------------
(***************************************************************************)
(* List objects: the buffer operations (object/obj_list.c and the buffer   *)
(* macros of include/utils.h) under the List primitives of vm/core.c, and  *)
(* a for loop over the list, whose body may change it.                     *)
(***************************************************************************)
EXTENDS Integers

CONSTANTS
  Value,
  Junk,         \* the content of a slot nobody has written, or of memory outside the buffer
  None,         \* no iterator: the loop has not started, or has ended
  GrowFactor,   \* CAPACITY_GROW_FACTOR, 4 in class.h
  MaxCount,     \* bound: elements
  Wrap          \* the number of values of an index, 2^32 in the code

\* What ceilToPowerOf2() can return without overflow.
PowersOf2 == {2 ^ k : k \in 0..30}

ASSUME ObjListAssumption ==
  /\ Junk \notin Value /\ None \notin Nat
  /\ GrowFactor \in Nat \ {0, 1}
  /\ MaxCount \in Nat
  /\ Wrap \in Nat /\ Wrap > MaxCount

\* Up to MaxCount elements every count has a capacity, as up to 2^30 it does.
ASSUME CapacityAssumption ==
  /\ PowersOf2 \subseteq Nat
  /\ \A n \in 1..MaxCount : \E p \in PowersOf2 : n <= p /\ p < 2 * n

VARIABLES
  count,     \* objList->elements.count
  capacity,  \* objList->elements.capacity
  datas,     \* objList->elements.datas, indexed from 0
  iter,      \* the loop's hidden variable: what iterate(iter) returned last
  ended      \* has the process ended, by exit(1) or by a memory fault?

listVars == <<count, capacity, datas, iter, ended>>

ListTypeOK ==
  /\ count \in Nat /\ capacity \in Nat /\ count <= capacity
  /\ datas \in [0..capacity - 1 -> Value \union {Junk}]
  /\ iter \in Nat \union {None}
  /\ ended \in BOOLEAN

ListInit ==
  /\ count = 0 /\ capacity = 0
  /\ datas = [i \in 0..0 - 1 |-> Junk]
  /\ iter = None
  /\ ended = FALSE

-----------------------------------------------------------------------------
(* Helpers *)

\* ceilToPowerOf2()
CeilToPowerOf2(n) == CHOOSE p \in PowersOf2 : n <= p /\ p < 2 * n

\* Fault: the buffer is found too small one element late.
GrownLate == IF count > capacity THEN CeilToPowerOf2(count + 1) ELSE capacity

\* The capacity after ValueBufferAdd().
Grown == IF count + 1 > capacity THEN CeilToPowerOf2(count + 1) ELSE capacity

\* Fault: the capacity is never reduced.
NeverShrunk == capacity

\* The capacity after removeElement(); `count` still includes the removed element.
Shrunk == IF capacity \div GrowFactor > count THEN capacity \div GrowFactor ELSE capacity

\* What the program reads at datas[i].
Read(i) == IF i \in 0..capacity - 1 THEN datas[i] ELSE Junk

\* validateIndexValue(): negative indices count from the end; -1 if out of bounds.
Index(i, length) ==
  IF i \in 0..length - 1 THEN i ELSE IF i + length \in 0..length - 1 THEN i + length ELSE -1

-----------------------------------------------------------------------------
(* The primitives *)

\* Fault: the count is increased before the element is stored at it.
AddBehind(v) ==
  /\ count < MaxCount
  /\ count' = count + 1
  /\ capacity' = Grown
  /\ datas' = [i \in 0..Grown - 1 |-> IF i = count + 1 THEN v ELSE Read(i)]
  /\ UNCHANGED <<iter, ended>>

\* list.add(v), and addCore_() for list literals
Add(v) ==
  /\ count < MaxCount
  /\ count' = count + 1
  /\ capacity' = Grown
  /\ datas' = [i \in 0..Grown - 1 |-> IF i = count THEN v ELSE Read(i)]
  /\ UNCHANGED <<iter, ended>>

\* Fault: a negative index counts from the length before the insertion.
InsertFromOldLength(at, v) ==
  LET index == Index(at, count)
  IN  /\ index \in 0..count - 1
      /\ count < MaxCount
      /\ count' = count + 1
      /\ capacity' = Grown
      /\ datas' = [i \in 0..Grown - 1 |->
                     IF i < index \/ i > count THEN Read(i)
                     ELSE IF i = index THEN v ELSE Read(i - 1)]
      /\ UNCHANGED <<iter, ended>>

\* list.insert(at, v) before an element
Insert(at, v) ==
  LET index == Index(at, count + 1)
  IN  /\ index \in 0..count - 1
      /\ count < MaxCount
      /\ count' = count + 1
      /\ capacity' = Grown
      /\ datas' = [i \in 0..Grown - 1 |->
                     IF i < index \/ i > count THEN Read(i)
                     ELSE IF i = index THEN v ELSE Read(i - 1)]
      /\ UNCHANGED <<iter, ended>>

\* list.insert(at, v) at the end, or into an empty list: primListInsert() accepts the
\* index, insertElement() does not.
InsertAtEnd(at) ==
  /\ Index(at, count + 1) = count
  /\ ended' = TRUE
  /\ UNCHANGED <<count, capacity, datas, iter>>

\* list[at] = v
Overwrite(at, v) ==
  /\ Index(at, count) # -1
  /\ datas' = [datas EXCEPT ![Index(at, count)] = v]
  /\ UNCHANGED <<count, capacity, iter, ended>>

\* list.removeAt(at).  The loop of removeElement() moves one element more than there
\* is: it reads datas[count], which lies behind a full buffer.  shrinkList() discards the
\* pointer that memManager() returns; datas stays valid because realloc() is taken to shrink
\* a block in place, which the C standard does not promise.
RemoveElement(at) ==
  LET index == Index(at, count)
  IN  /\ index # -1
      /\ count' = count - 1
      /\ capacity' = Shrunk
      /\ datas' = [i \in 0..Shrunk - 1 |->
                     IF i < index \/ i >= count THEN datas[i] ELSE Read(i + 1)]
      /\ UNCHANGED <<iter, ended>>

\* list.clear()
Clear ==
  /\ count' = 0 /\ capacity' = 0
  /\ datas' = [i \in 0..0 - 1 |-> Junk]
  /\ UNCHANGED <<iter, ended>>

\* list = list[from..to]: newObjList() of exactly as many elements.
Subscript(from, to) ==
  LET f == Index(from, count)
      t == Index(to, count)
      n == IF f < t THEN t - f + 1 ELSE f - t + 1
  IN  /\ f # -1 /\ t # -1
      /\ count' = n /\ capacity' = n
      /\ datas' = [i \in 0..n - 1 |-> IF f < t THEN datas[f + i] ELSE datas[f - i]]
      /\ UNCHANGED <<iter, ended>>

\* The same with an end that is out of bounds.  primListSubscript() does not look at
\* the failure of calculateRange() and reads the element with the index 2^32 - 1, 64 GB
\* behind the buffer.  In an empty list there is nothing to copy.
SubscriptOutOfBounds(from, to) ==
  /\ Index(from, count) = -1 \/ Index(to, count) = -1
  /\ count > 0
  /\ ended' = TRUE
  /\ UNCHANGED <<count, capacity, datas, iter>>

-----------------------------------------------------------------------------
(* for element (list) { ... }: the calls of iterate(); the body is in between *)

\* iterate(null)
IterateFirst ==
  /\ iter = None
  /\ count > 0
  /\ iter' = 0
  /\ UNCHANGED <<count, capacity, datas, ended>>

\* Fault: the end is one element further.
IterateTooFar ==
  /\ iter # None
  /\ iter' = IF iter >= count THEN None ELSE iter + 1
  /\ UNCHANGED <<count, capacity, datas, ended>>

\* iterate(iter): the loop ends at iter >= count - 1, an unsigned difference.
IterateNext ==
  /\ iter # None
  /\ iter' = IF iter >= (count - 1) % Wrap THEN None ELSE iter + 1
  /\ UNCHANGED <<count, capacity, datas, ended>>

ListNext ==
  /\ ~ended
  /\ \/ \E v \in Value :
          \/ Add(v)
          \/ \E at \in -MaxCount..MaxCount : Insert(at, v) \/ Overwrite(at, v)
     \/ \E at \in -MaxCount..MaxCount : InsertAtEnd(at) \/ RemoveElement(at)
     \/ Clear
     \/ \E from, to \in -MaxCount..MaxCount : Subscript(from, to) \/ SubscriptOutOfBounds(from, to)
     \/ IterateFirst \/ IterateNext

ListSpec == ListInit /\ [][ListNext]_listVars

-----------------------------------------------------------------------------
(* Properties *)

Elements == [i \in 1..count |-> datas[i - 1]]

Abstract == INSTANCE ListOfValues WITH list <- Elements

\* The position an index stands for: from 1, negative indices count from the end.
Position(i, length) == IF i >= 0 THEN i + 1 ELSE length + i + 1

Indices == -MaxCount..MaxCount

\* What a primitive does to the elements is what the operation of that name does to a
\* sequence, with the same value and at the position the index stands for: counted in the
\* longer list for insert(), in the list as it is for the others.
SameOperation ==
  /\ \A v \in Value :
       /\ Add(v) => Abstract!Add(v)
       /\ \A at \in Indices : Insert(at, v) => Abstract!Insert(Position(at, count + 1), v)
       /\ \A at \in Indices : Overwrite(at, v) => Abstract!Overwrite(Position(at, count), v)
  /\ \A at \in Indices : RemoveElement(at) => Abstract!RemoveAt(Position(at, count))
  /\ Clear => Abstract!RemoveAll
  /\ \A from, to \in Indices :
       Subscript(from, to) => Abstract!Cut(Position(from, count), Position(to, count))

\* The buffer implements the list: it begins as an empty one, and add(), insert(),
\* list[i] = v, removeAt(), clear() and list[i..j] change the elements as the same
\* operation, at the same position, changes a sequence (obj_list.c under core.c).
ImplementsList == Abstract!Spec /\ [][SameOperation]_listVars

\* No slot below count is unwritten: what a script reads is what a script stored,
\* although removeElement() moves the slot behind the last element into the list.
ElementsAreStored == \A i \in 0..count - 1 : datas[i] \in Value

\* The buffer is given back in time: after any sequence of operations it is not
\* larger than GrowFactor times the elements, up to rounding.
BufferFollowsCount == capacity \div GrowFactor <= count + 1

\* Called on a list that is not empty, iterate() returns an index of the list or ends
\* the loop, whatever the body has done since the last call.
IterateStaysInList == [][iter' # iter /\ count > 0 => iter' = None \/ iter' < count]_listVars

\* Called on a list that the body has emptied, iterate() ends the loop ("terminate when
\* the iteration is done", core.c; not so, since count - 1 wraps).
EmptiedListEndsLoop == [][iter' # iter /\ count = 0 => iter' = None]_listVars
=============================================================================
