------------------------- MODULE OpenUpvaluesProof -------------------------
(***************************************************************************)
(* For any number of threads, frames and upvalues, and any stacks: open    *)
(* upvalues follow the variables they were created for, and a captured     *)
(* variable is one cell.                                                   *)
(***************************************************************************)
EXTENDS OpenUpvalues, Induction, FiniteSetTheorems, SequenceTheorems, TLAPS

-----------------------------------------------------------------------------
(***************************************************************************)
(* The inductive invariant.                                                *)
(***************************************************************************)
Bases == {r * REGION : r \in 0..(Regions - 1)}

Types ==
  /\ mem \in [Address -> Value \union {Junk}]
  /\ stack \in [Thread -> [base : Nat, capacity : Nat, esp : Nat]]
  /\ frames \in [Thread -> Seq([start : Nat, need : Needs, closure : Nat])]
  /\ openUpvalues \in [Thread -> Seq(Nat)]
  /\ upvalue \in Seq([localVarPtr : Int, closedUpvalue : Value \union {Junk}])
  /\ slots \in [Thread -> Seq(Var)]
  /\ captured \in Seq(Var)
  /\ DOMAIN captured = DOMAIN upvalue

\* A thread has no stack yet, or its stack begins a region and fits into it.
StackFits(t) ==
  IF stack[t].capacity = 0
  THEN stack[t] = NoStack /\ frames[t] = <<>> /\ openUpvalues[t] = <<>>
  ELSE /\ stack[t].base \in Bases /\ stack[t].capacity <= REGION
       /\ stack[t].base < stack[t].esp /\ stack[t].esp <= stack[t].base + stack[t].capacity

Apart ==
  \A t, s \in Thread : t # s /\ stack[t].capacity > 0 /\ stack[s].capacity > 0 =>
    stack[t].base # stack[s].base

\* What is below esp has been written.
Written(t) == \A a \in stack[t].base..(stack[t].esp - 1) : mem[a] \in Value

FramesFit(t) ==
  /\ \A i \in 1..Len(frames[t]) :
       /\ frames[t][i].closure \in Closures
       /\ stack[t].base <= frames[t][i].start /\ frames[t][i].start < stack[t].esp
       /\ frames[t][i].start + frames[t][i].need <= stack[t].base + stack[t].capacity
  /\ \A i, j \in 1..Len(frames[t]) : i < j => frames[t][i].start < frames[t][j].start
  /\ frames[t] # <<>> => frames[t][1].start = stack[t].base

Open(t) == ToSet(openUpvalues[t])
IsOpen(u) == \E t \in Thread : u \in Open(t)
Ptr(u) == upvalue[u].localVarPtr

\* An open upvalue points at a slot that holds its variable; the highest slot comes first.
InOrder(list, up, vars_of, slots_of, b, e) ==
  /\ \A i \in 1..Len(list) :
       /\ list[i] \in DOMAIN up
       /\ up[list[i]].localVarPtr \in b..(e - 1)
       /\ slots_of[up[list[i]].localVarPtr - b + 1] = vars_of[list[i]]
  /\ \A i, j \in 1..Len(list) :
       i < j => up[list[i]].localVarPtr > up[list[j]].localVarPtr

OpenInOrder(t) ==
  InOrder(openUpvalues[t], upvalue, captured, slots[t], stack[t].base, stack[t].esp)

\* Each slot in use holds a variable of its own.
OwnVariables ==
  /\ \A t \in Thread : Len(slots[t]) = Size(t)
  /\ \A t, s \in Thread : \A i \in 1..Len(slots[t]), j \in 1..Len(slots[s]) :
       slots[t][i] = slots[s][j] => t = s /\ i = j

\* An upvalue is open exactly while its variable has a slot, and there is one for a variable.
OneUpvalueEach ==
  /\ \A u, w \in DOMAIN upvalue : captured[u] = captured[w] => u = w
  /\ \A t \in Thread : \A i \in 1..Len(slots[t]), u \in DOMAIN upvalue :
       captured[u] = slots[t][i] => u \in Open(t)
  /\ \A u \in DOMAIN upvalue :
       ~IsOpen(u) => Ptr(u) = Closed /\ upvalue[u].closedUpvalue \in Value

Inv ==
  /\ Types
  /\ \A t \in Thread : StackFits(t) /\ Written(t) /\ FramesFit(t) /\ OpenInOrder(t)
  /\ Apart /\ OwnVariables /\ OneUpvalueEach

-----------------------------------------------------------------------------
(***************************************************************************)
(* Powers of two, regions, and the slots of a stack.                       *)
(***************************************************************************)
LEMMA PowerOf2Large ==
  \A n \in Nat : 2 ^ n \in Nat /\ 2 ^ n >= n
<1> SUFFICES ASSUME NEW n \in Nat PROVE 2 ^ n \in Nat /\ 2 ^ n >= n
  OBVIOUS
<1> DEFINE S == 1..n
           Singles == {{x} : x \in S}
<1>1. IsFiniteSet(S) /\ Cardinality(S) = n
  <2>1. 1 \in Int /\ n \in Int
    OBVIOUS
  <2>2. IsFiniteSet(S) /\ Cardinality(S) = IF 1 > n THEN 0 ELSE n - 1 + 1
    BY <2>1, FS_Interval
  <2> QED
    BY <2>2
<1> HIDE DEF S
<1>2. IsFiniteSet(SUBSET S) /\ Cardinality(SUBSET S) = 2 ^ n
  BY <1>1, FS_SUBSET
<1>3. Singles \subseteq SUBSET S
  OBVIOUS
<1>4. IsFiniteSet(Singles) /\ Cardinality(Singles) = Cardinality(S)
  <2> DEFINE f == [x \in S |-> {x}]
  <2>1. f \in Bijection(S, Singles)
    <3>1. f \in [S -> Singles]
      OBVIOUS
    <3>2. \A a, b \in S : f[a] = f[b] => a = b
      OBVIOUS
    <3>3. \A y \in Singles : \E x \in S : f[x] = y
      OBVIOUS
    <3> HIDE DEF f, Singles
    <3> QED
      BY <3>1, <3>2, <3>3 DEF Bijection, Injection, Surjection, IsInjective
  <2> HIDE DEF f, Singles
  <2> QED
    BY <1>1, <2>1, FS_Bijection DEF ExistsBijection
<1> HIDE DEF Singles
<1>5. Cardinality(Singles) <= Cardinality(SUBSET S)
  BY <1>2, <1>3, FS_Subset
<1>6. Cardinality(SUBSET S) \in Nat
  BY <1>2, FS_CardinalityType
<1> QED
  BY <1>1, <1>2, <1>4, <1>5, <1>6

\* ceilToPowerOf2() is not less than its argument.
LEMMA CeilIsEnough ==
  ASSUME NEW n \in Nat
  PROVE  CeilToPowerOf2(n) \in Nat /\ CeilToPowerOf2(n) >= n
<1> DEFINE S == {p \in {2 ^ i : i \in 0..n} : p >= n}
<1>1. S \subseteq Nat
  BY PowerOf2Large
<1>2. 2 ^ n \in S
  BY PowerOf2Large
<1> HIDE DEF S
<1>3. PICK p \in S : \A q \in S : p <= q
  BY <1>1, <1>2, LeastNumber
<1>4. CeilToPowerOf2(n) = CHOOSE x \in S : \A y \in S : x <= y
  BY DEF CeilToPowerOf2, Min, S
<1>5. CeilToPowerOf2(n) \in S
  BY <1>3, <1>4
<1> QED
  BY <1>1, <1>5 DEF S

LEMMA BasesApart ==
  /\ Bases \subseteq Nat
  /\ \A b \in Bases : b + REGION <= Regions * REGION
  /\ \A b, c \in Bases : b # c => b + REGION <= c \/ c + REGION <= b
<1> USE OpenUpvaluesAssumption
<1>1. \A r, s \in Nat : r < s => r * REGION + REGION <= s * REGION
  <2> SUFFICES ASSUME NEW r \in Nat, NEW s \in Nat, r < s
               PROVE  r * REGION + REGION <= s * REGION
    OBVIOUS
  <2> DEFINE d == s - r - 1
  <2>1. d \in Nat /\ s = r + 1 + d
    OBVIOUS
  <2> HIDE DEF d
  <2>2. s * REGION = r * REGION + REGION + d * REGION
    BY <2>1
  <2>3. d * REGION \in Nat /\ r * REGION \in Nat
    BY <2>1
  <2> QED
    BY <2>2, <2>3
<1>2. \A r \in Nat : r * REGION \in Nat
  OBVIOUS
<1>3. ASSUME NEW b \in Bases PROVE b \in Nat /\ b + REGION <= Regions * REGION
  <2>1. PICK r \in 0..(Regions - 1) : b = r * REGION
    BY DEF Bases
  <2>2. r \in Nat /\ Regions \in Nat /\ r < Regions
    OBVIOUS
  <2> QED
    BY <1>1, <1>2, <2>1, <2>2
<1>4. ASSUME NEW b \in Bases, NEW c \in Bases, b # c
      PROVE  b + REGION <= c \/ c + REGION <= b
  <2>1. PICK r \in 0..(Regions - 1), s \in 0..(Regions - 1) : b = r * REGION /\ c = s * REGION
    BY DEF Bases
  <2>2. r \in Nat /\ s \in Nat /\ (r < s \/ s < r)
    BY <1>4, <2>1
  <2> QED
    BY <1>1, <2>1, <2>2
<1> QED
  BY <1>3, <1>4

\* What the stack and the slots of one thread are, in numbers.
LEMMA StackNumbers ==
  ASSUME Types, NEW t \in Thread, StackFits(t)
  PROVE  /\ stack[t] = [base |-> stack[t].base, capacity |-> stack[t].capacity, esp |-> stack[t].esp]
         /\ stack[t].base \in Nat /\ stack[t].capacity \in Nat /\ stack[t].esp \in Nat
         /\ stack[t].base <= stack[t].esp /\ stack[t].esp <= stack[t].base + stack[t].capacity
         /\ Size(t) = stack[t].esp - stack[t].base
         /\ stack[t].base..(stack[t].base + stack[t].capacity - 1) \subseteq Address
         /\ stack[t].base..(stack[t].esp - 1) \subseteq Address
<1>1. stack[t] \in [base : Nat, capacity : Nat, esp : Nat]
  BY DEF Types
<1>2. stack[t].base \in Nat /\ stack[t].capacity \in Nat /\ stack[t].esp \in Nat
  BY <1>1
<1>3. CASE stack[t].capacity = 0
  <2>1. stack[t].base = 0 /\ stack[t].esp = 0
    BY <1>3 DEF StackFits, NoStack
  <2> QED
    BY <1>1, <1>3, <2>1 DEF Size
<1>4. CASE stack[t].capacity # 0
  <2>1. /\ stack[t].base \in Bases /\ stack[t].capacity <= REGION
        /\ stack[t].base < stack[t].esp /\ stack[t].esp <= stack[t].base + stack[t].capacity
    BY <1>4 DEF StackFits
  <2>2. stack[t].base + REGION <= Regions * REGION
    BY <2>1, BasesApart
  <2>3. REGION \in Nat /\ Regions * REGION \in Nat
    BY OpenUpvaluesAssumption
  <2> QED
    BY <1>1, <1>2, <2>1, <2>2, <2>3 DEF Size, Address
<1> QED
  BY <1>3, <1>4

\* The stacks of two threads have no slot in common.
LEMMA StacksApart ==
  ASSUME Types, Apart, NEW t \in Thread, NEW s \in Thread, t # s, StackFits(t), StackFits(s),
         NEW a \in Int, stack[t].base <= a, a < stack[t].base + stack[t].capacity
  PROVE  ~(stack[s].base <= a /\ a < stack[s].base + stack[s].capacity)
<1>1. /\ stack[t].base \in Nat /\ stack[t].capacity \in Nat
      /\ stack[s].base \in Nat /\ stack[s].capacity \in Nat
  BY StackNumbers
<1>2. CASE stack[s].capacity = 0
  BY <1>1, <1>2
<1>3. CASE stack[s].capacity # 0
  <2>1. stack[t].capacity # 0
    BY <1>1
  <2>2. /\ stack[t].base \in Bases /\ stack[t].capacity <= REGION
        /\ stack[s].base \in Bases /\ stack[s].capacity <= REGION
    BY <1>3, <2>1 DEF StackFits
  <2>3. stack[t].base # stack[s].base
    BY <1>1, <1>3, <2>1 DEF Apart
  <2>4. stack[t].base + REGION <= stack[s].base \/ stack[s].base + REGION <= stack[t].base
    BY <2>2, <2>3, BasesApart
  <2>5. REGION \in Nat
    BY OpenUpvaluesAssumption
  <2> QED
    BY <1>1, <2>2, <2>4, <2>5
<1> QED
  BY <1>2, <1>3

\* The same under the whole invariant.
LEMMA Numbers ==
  ASSUME Inv, NEW t \in Thread
  PROVE  /\ stack[t].base \in Nat /\ stack[t].capacity \in Nat /\ stack[t].esp \in Nat
         /\ stack[t].base <= stack[t].esp /\ stack[t].esp <= stack[t].base + stack[t].capacity
         /\ Len(slots[t]) = stack[t].esp - stack[t].base /\ Len(slots[t]) \in Nat
         /\ \A a \in stack[t].base..(stack[t].base + stack[t].capacity - 1) : a \in Address
         /\ \A a \in stack[t].base..(stack[t].esp - 1) : a \in Address /\ mem[a] \in Value
<1>1. Types /\ StackFits(t) /\ Written(t) /\ OwnVariables
  BY DEF Inv
<1>2. Len(slots[t]) = Size(t)
  BY <1>1 DEF OwnVariables
<1>3. /\ stack[t].base \in Nat /\ stack[t].capacity \in Nat /\ stack[t].esp \in Nat
      /\ stack[t].base <= stack[t].esp /\ Size(t) = stack[t].esp - stack[t].base
  BY <1>1, StackNumbers
<1>4. Len(slots[t]) = stack[t].esp - stack[t].base /\ Len(slots[t]) \in Nat
  BY <1>2, <1>3
<1>5. stack[t].esp <= stack[t].base + stack[t].capacity
  BY <1>1, StackNumbers
<1>6. /\ stack[t].base..(stack[t].base + stack[t].capacity - 1) \subseteq Address
      /\ stack[t].base..(stack[t].esp - 1) \subseteq Address
  BY <1>1, StackNumbers
<1>7. \A a \in stack[t].base..(stack[t].esp - 1) : mem[a] \in Value
  BY <1>1 DEF Written
<1> QED
  BY <1>3, <1>4, <1>5, <1>6, <1>7

LEMMA Shapes ==
  ASSUME Inv, NEW t \in Thread
  PROVE  /\ stack[t] \in [base : Nat, capacity : Nat, esp : Nat]
         /\ frames[t] \in Seq([start : Nat, need : Needs, closure : Nat])
         /\ \A i \in 1..Len(frames[t]) :
              /\ frames[t][i] \in [start : Nat, need : Needs, closure : Nat]
              /\ frames[t][i].start \in Nat /\ frames[t][i].need \in Nat \ {0}
         /\ openUpvalues[t] \in Seq(Nat) /\ slots[t] \in Seq(Var)
         /\ \A i \in 1..Len(slots[t]) : slots[t][i] \in Var
<1>1. /\ stack[t] \in [base : Nat, capacity : Nat, esp : Nat]
      /\ frames[t] \in Seq([start : Nat, need : Needs, closure : Nat])
      /\ openUpvalues[t] \in Seq(Nat) /\ slots[t] \in Seq(Var)
  BY DEF Inv, Types
<1>2. ASSUME NEW i \in 1..Len(frames[t])
      PROVE  /\ frames[t][i] \in [start : Nat, need : Needs, closure : Nat]
             /\ frames[t][i].start \in Nat /\ frames[t][i].need \in Nat \ {0}
  <2>1. frames[t][i] \in [start : Nat, need : Needs, closure : Nat]
    BY <1>1, ElementOfSeq
  <2> QED
    BY <2>1, OpenUpvaluesAssumption
<1>3. \A i \in 1..Len(slots[t]) : slots[t][i] \in Var
  BY <1>1, ElementOfSeq
<1> QED
  BY <1>1, <1>2, <1>3

LEMMA NotShared ==
  ASSUME Inv, NEW t \in Thread, NEW s \in Thread, t # s,
         NEW a \in Int, stack[t].base <= a, a < stack[t].base + stack[t].capacity
  PROVE  ~(stack[s].base <= a /\ a < stack[s].base + stack[s].capacity)
<1>1. Types /\ StackFits(t) /\ StackFits(s) /\ Apart
  BY DEF Inv
<1> QED
  BY <1>1, StacksApart

LEMMA FrontOf ==
  ASSUME NEW S, NEW s \in Seq(S), s # <<>>
  PROVE  /\ Front(s) \in Seq(S) /\ Len(Front(s)) = Len(s) - 1 /\ Len(s) \in Nat \ {0}
         /\ \A i \in 1..(Len(s) - 1) : Front(s)[i] = s[i]
         /\ Last(s) = s[Len(s)] /\ Last(s) \in S
<1>1. Len(s) \in Nat /\ Len(s) # 0
  BY EmptySeq
<1>2. \A i \in 1..(Len(s) - 1) : s[i] \in S
  BY ElementOfSeq
<1>3. /\ SubSeq(s, 1, Len(s) - 1) \in Seq(S)
      /\ Len(SubSeq(s, 1, Len(s) - 1)) = IF 1 <= Len(s) - 1 THEN Len(s) - 1 - 1 + 1 ELSE 0
      /\ \A i \in 1..(Len(s) - 1 - 1 + 1) : SubSeq(s, 1, Len(s) - 1)[i] = s[1 + i - 1]
  <2>1. 1 \in Int /\ Len(s) - 1 \in Int
    BY <1>1
  <2> QED
    BY <1>2, <2>1, SubSeqProperties
<1>4. Len(Front(s)) = Len(s) - 1
  <2> DEFINE n == Len(s)
             k == Len(SubSeq(s, 1, n - 1))
  <2>1. n \in Nat \ {0} /\ k = IF 1 <= n - 1 THEN n - 1 - 1 + 1 ELSE 0
    BY <1>1, <1>3
  <2>2. Front(s) = SubSeq(s, 1, n - 1)
    BY DEF Front
  <2> HIDE DEF n, k
  <2>3. k = n - 1
    BY <2>1
  <2> QED
    BY <2>2, <2>3 DEF n, k
<1>5. ASSUME NEW i \in 1..(Len(s) - 1) PROVE Front(s)[i] = s[i]
  <2>1. i \in 1..(Len(s) - 1 - 1 + 1) /\ 1 + i - 1 = i
    BY <1>1
  <2> QED
    BY <1>3, <2>1 DEF Front
<1>6. Last(s) = s[Len(s)] /\ Last(s) \in S
  BY <1>1, ElementOfSeq DEF Last
<1> QED
  BY <1>1, <1>3, <1>4, <1>5, <1>6 DEF Front

LEMMA ToSetOf ==
  ASSUME NEW S, NEW s \in Seq(S)
  PROVE  \A x : x \in ToSet(s) <=> \E i \in 1..Len(s) : x = s[i]
BY DEF ToSet

LEMMA FreshIsNew ==
  ASSUME NEW live, Var \ live # {}
  PROVE  Fresh(live) \in Var /\ Fresh(live) \notin live
<1>1. Var \ live \subseteq Nat
  BY OpenUpvaluesAssumption DEF Var
<1>2. \E x \in Var \ live : \A y \in Var \ live : x <= y
  BY <1>1, LeastNumber
<1> QED
  BY <1>2 DEF Fresh

\* Open upvalues stay in order when the top of the stack moves, but not below them.
LEMMA InOrderKept ==
  ASSUME NEW list, NEW up, NEW cap, NEW vs, NEW ws, NEW b \in Int, NEW e \in Int, NEW f \in Int,
         InOrder(list, up, cap, vs, b, e),
         \A k \in 1..(e - b) : k <= f - b => ws[k] = vs[k],
         \A i \in 1..Len(list) : up[list[i]].localVarPtr < f
  PROVE  InOrder(list, up, cap, ws, b, f)
<1>1. ASSUME NEW i \in 1..Len(list)
      PROVE  /\ list[i] \in DOMAIN up
             /\ up[list[i]].localVarPtr \in b..(f - 1)
             /\ ws[up[list[i]].localVarPtr - b + 1] = cap[list[i]]
  <2> DEFINE p == up[list[i]].localVarPtr
  <2>1. list[i] \in DOMAIN up /\ p \in b..(e - 1) /\ vs[p - b + 1] = cap[list[i]] /\ p < f
    BY DEF InOrder
  <2> HIDE DEF p
  <2>2. p \in b..(f - 1) /\ p - b + 1 \in 1..(e - b) /\ p - b + 1 <= f - b
    BY <2>1
  <2>3. ws[p - b + 1] = cap[list[i]]
    BY <2>1, <2>2
  <2> QED
    BY <2>1, <2>2, <2>3 DEF p
<1>2. \A i, j \in 1..Len(list) : i < j => up[list[i]].localVarPtr > up[list[j]].localVarPtr
  BY DEF InOrder
<1> QED
  BY <1>1, <1>2 DEF InOrder

LEMMA InOrderWidens ==
  ASSUME NEW list, NEW up, NEW cap, NEW vs, NEW b \in Int, NEW e \in Int, NEW f \in Int,
         InOrder(list, up, cap, vs, b, e), b..(e - 1) \subseteq b..(f - 1)
  PROVE  InOrder(list, up, cap, vs, b, f)
BY DEF InOrder

-----------------------------------------------------------------------------
(***************************************************************************)
(* What is there to be kept.                                               *)
(***************************************************************************)
\* The variable x has the value v.
Holds(x, v) ==
  \/ \E t \in Thread : \E i \in 1..Len(slots[t]) :
       x = slots[t][i] /\ v = mem[stack[t].base + i - 1]
  \/ \E u \in DOMAIN upvalue : ~IsOpen(u) /\ x = captured[u] /\ v = upvalue[u].closedUpvalue

LiveMeans ==
  \A x : x \in LiveVars <=> \/ \E t \in Thread : \E i \in 1..Len(slots[t]) : x = slots[t][i]
                            \/ \E u \in DOMAIN upvalue : x = captured[u]

LEMMA LiveIs ==
  ASSUME Types
  PROVE  LiveMeans /\ LiveVars \subseteq Var
<1>1. \A t \in Thread : slots[t] \in Seq(Var)
  BY DEF Types
<1>2. captured \in Seq(Var) /\ DOMAIN captured = DOMAIN upvalue
  BY DEF Types
<1>3. \A t \in Thread : \A x : x \in ToSet(slots[t]) <=> \E i \in 1..Len(slots[t]) : x = slots[t][i]
  BY <1>1, ToSetOf
<1>4. \A x : x \in ToSet(captured) <=> \E u \in DOMAIN upvalue : x = captured[u]
  BY <1>2 DEF ToSet
<1>5. \A x : x \in LiveVars <=> \/ \E t \in Thread : \E i \in 1..Len(slots[t]) : x = slots[t][i]
                               \/ \E u \in DOMAIN upvalue : x = captured[u]
  <2>1. \A x : x \in UNION {ToSet(slots[t]) : t \in Thread} <=> \E t \in Thread : x \in ToSet(slots[t])
    OBVIOUS
  <2>2. \A x : x \in LiveVars
                 <=> x \in UNION {ToSet(slots[t]) : t \in Thread} \/ x \in ToSet(captured)
    BY DEF LiveVars
  <2>3. \A x : x \in LiveVars <=> (\E t \in Thread : x \in ToSet(slots[t])) \/ x \in ToSet(captured)
    BY <2>1, <2>2, Zenon
  <2> SUFFICES ASSUME NEW x
               PROVE  x \in LiveVars <=> \/ \E t \in Thread : \E i \in 1..Len(slots[t]) : x = slots[t][i]
                                         \/ \E u \in DOMAIN upvalue : x = captured[u]
    OBVIOUS
  <2>4. (\E t \in Thread : x \in ToSet(slots[t]))
           <=> \E t \in Thread : \E i \in 1..Len(slots[t]) : x = slots[t][i]
    <3>1. \A t \in Thread : x \in ToSet(slots[t]) <=> \E i \in 1..Len(slots[t]) : x = slots[t][i]
      BY <1>3
    <3> QED
      BY <3>1, Zenon
  <2>5. x \in ToSet(captured) <=> \E u \in DOMAIN upvalue : x = captured[u]
    BY <1>4
  <2> QED
    BY <2>3, <2>4, <2>5
<1>6. \A u \in DOMAIN upvalue : captured[u] \in Var
  BY <1>2
<1>7. \A t \in Thread : \A i \in 1..Len(slots[t]) : slots[t][i] \in Var
  BY <1>1
<1> QED
  BY <1>5, <1>6, <1>7 DEF LiveMeans

LEMMA LiveHas ==
  ASSUME Types
  PROVE  /\ \A t \in Thread : \A i \in 1..Len(slots[t]) : slots[t][i] \in LiveVars
         /\ \A u \in DOMAIN upvalue : captured[u] \in LiveVars
BY LiveIs DEF LiveMeans

LEMMA OpenOf ==
  ASSUME Types, NEW t \in Thread
  PROVE  /\ \A u : u \in Open(t) <=> \E i \in 1..Len(openUpvalues[t]) : u = openUpvalues[t][i]
         /\ openUpvalues[t] \in Seq(Nat) /\ Len(openUpvalues[t]) \in Nat
<1>1. openUpvalues[t] \in Seq(Nat)
  BY DEF Types
<1> QED
  BY <1>1, ToSetOf, LenProperties DEF Open

LEMMA LiveAlways == Types => LiveMeans
BY LiveIs

LEMMA LiveInNext ==
  ASSUME Types'
  PROVE  \A x : x \in LiveVars'
            <=> \/ \E t \in Thread : \E i \in 1..Len(slots'[t]) : x = slots'[t][i]
                \/ \E u \in DOMAIN upvalue' : x = captured'[u]
<1>1. LiveMeans'
  BY LiveAlways, PTL
<1> QED
  BY <1>1 DEF LiveMeans

\* The facts about an open upvalue, and about the variables of a thread.
LEMMA OpenIsThere ==
  ASSUME Inv, NEW t \in Thread, NEW u \in Open(t)
  PROVE  /\ u \in DOMAIN upvalue /\ Ptr(u) \in stack[t].base..(stack[t].esp - 1)
         /\ Ptr(u) \in Nat /\ Ptr(u) # Closed
         /\ Ptr(u) - stack[t].base + 1 \in 1..Len(slots[t])
         /\ slots[t][Ptr(u) - stack[t].base + 1] = captured[u]
<1>1. PICK i \in 1..Len(openUpvalues[t]) : u = openUpvalues[t][i]
  BY OpenOf DEF Inv
<1>2. /\ u \in DOMAIN upvalue /\ Ptr(u) \in stack[t].base..(stack[t].esp - 1)
      /\ slots[t][Ptr(u) - stack[t].base + 1] = captured[u]
  BY <1>1 DEF Inv, OpenInOrder, InOrder, Ptr
<1>3. stack[t].base \in Nat /\ stack[t].esp \in Nat /\ Size(t) = stack[t].esp - stack[t].base
  BY StackNumbers DEF Inv
<1>4. Len(slots[t]) = Size(t)
  BY DEF Inv, OwnVariables
<1>5. Ptr(u) \in Nat /\ Ptr(u) # Closed
  BY <1>2, <1>3 DEF Closed
<1>6. Ptr(u) - stack[t].base + 1 \in 1..Len(slots[t])
  <2>1. PICK p : p = Ptr(u)
    OBVIOUS
  <2>2. p \in stack[t].base..(stack[t].esp - 1)
    BY <1>2, <2>1
  <2>3. p - stack[t].base + 1 \in 1..(stack[t].esp - stack[t].base)
    BY <1>3, <2>2
  <2> QED
    BY <1>3, <1>4, <2>1, <2>3
<1> QED
  BY <1>2, <1>5, <1>6

ValuesAreHeld ==
  /\ \A x : x \in LiveVars => Holds(x, ValueOf(x))
  /\ \A x, v : Holds(x, v) => x \in LiveVars /\ v = ValueOf(x)

LEMMA HoldsIsValue == Inv => ValuesAreHeld
<1> SUFFICES ASSUME Inv PROVE ValuesAreHeld
  OBVIOUS
<1>s. \A t \in Thread : \A x : x \in ToSet(slots[t]) <=> \E i \in 1..Len(slots[t]) : x = slots[t][i]
  <2>1. \A t \in Thread : slots[t] \in Seq(Var)
    BY DEF Inv, Types
  <2> QED
    BY <2>1, ToSetOf
<1>d. \A t \in Thread : DOMAIN slots[t] = 1..Len(slots[t])
  BY DEF Inv, Types
<1>1. ASSUME NEW t \in Thread, NEW i \in 1..Len(slots[t])
      PROVE  ValueOf(slots[t][i]) = mem[stack[t].base + i - 1]
  <2> DEFINE x == slots[t][i]
             s == CHOOSE s \in Thread : x \in ToSet(slots[s])
             j == CHOOSE j \in DOMAIN slots[s] : slots[s][j] = x
  <2>1. x \in ToSet(slots[t])
    BY <1>s
  <2>2. s \in Thread /\ x \in ToSet(slots[s])
    BY <2>1
  <2>3. ValueOf(x) = mem[stack[s].base + j - 1]
    BY <2>1 DEF ValueOf
  <2> HIDE DEF s
  <2>4. j \in 1..Len(slots[s]) /\ slots[s][j] = x
    <3>1. \E k \in DOMAIN slots[s] : slots[s][k] = x
      <4>1. PICK k \in 1..Len(slots[s]) : x = slots[s][k]
        BY <1>s, <2>2
      <4> QED
        BY <1>d, <2>2, <4>1
    <3>2. j \in DOMAIN slots[s] /\ slots[s][j] = x
      BY <3>1
    <3> HIDE DEF j
    <3> QED
      BY <1>d, <2>2, <3>2
  <2> HIDE DEF j
  <2>5. s = t /\ j = i
    BY <2>2, <2>4 DEF Inv, OwnVariables
  <2> QED
    BY <2>3, <2>5
<1>2. ASSUME NEW u \in DOMAIN upvalue, ~IsOpen(u)
      PROVE  ValueOf(captured[u]) = upvalue[u].closedUpvalue
  <2>1. ~\E t \in Thread : captured[u] \in ToSet(slots[t])
    <3> SUFFICES ASSUME NEW t \in Thread, captured[u] \in ToSet(slots[t]) PROVE FALSE
      OBVIOUS
    <3>1. PICK i \in 1..Len(slots[t]) : captured[u] = slots[t][i]
      BY <1>s
    <3> QED
      BY <1>2, <3>1 DEF Inv, OneUpvalueEach, IsOpen
  <2>2. \A w \in DOMAIN captured : captured[w] = captured[u] => w = u
    BY DEF Inv, OneUpvalueEach, Types
  <2>3. u \in DOMAIN captured
    BY DEF Inv, Types
  <2>4. (CHOOSE w \in DOMAIN captured : captured[w] = captured[u]) = u
    BY <2>2, <2>3
  <2> QED
    BY <2>1, <2>4 DEF ValueOf
<1>3. ASSUME NEW x, x \in LiveVars PROVE \E v : Holds(x, v)
  <2>1. CASE \E t \in Thread : \E i \in 1..Len(slots[t]) : x = slots[t][i]
    BY <2>1 DEF Holds
  <2>2. CASE \E u \in DOMAIN upvalue : x = captured[u]
    <3>1. PICK u \in DOMAIN upvalue : x = captured[u]
      BY <2>2
    <3>2. CASE ~IsOpen(u)
      BY <3>1, <3>2 DEF Holds
    <3>3. CASE IsOpen(u)
      <4>1. PICK t \in Thread : u \in Open(t)
        BY <3>3 DEF IsOpen
      <4>2. \E i \in 1..Len(slots[t]) : x = slots[t][i]
        BY <3>1, <4>1, OpenIsThere
      <4> QED
        BY <4>2 DEF Holds
    <3> QED
      BY <3>2, <3>3
  <2> QED
    BY <1>3, <2>1, <2>2, LiveIs DEF Inv, LiveMeans
<1>4. ASSUME NEW x, NEW v, Holds(x, v) PROVE x \in LiveVars /\ v = ValueOf(x)
  <2>1. x \in LiveVars
    BY <1>4, LiveIs DEF Holds, Inv, LiveMeans
  <2>2. v = ValueOf(x)
    BY <1>1, <1>2, <1>4 DEF Holds
  <2> QED
    BY <2>1, <2>2
<1> QED
  BY <1>3, <1>4 DEF ValuesAreHeld

LEMMA HoldsTypes ==
  ASSUME Inv, NEW x, NEW v, Holds(x, v)
  PROVE  x \in Var /\ v \in Value
<1>1. CASE \E t \in Thread : \E i \in 1..Len(slots[t]) :
             x = slots[t][i] /\ v = mem[stack[t].base + i - 1]
  <2>0. PICK t \in Thread : \E i \in 1..Len(slots[t]) :
               x = slots[t][i] /\ v = mem[stack[t].base + i - 1]
    BY <1>1
  <2>1. PICK i \in 1..Len(slots[t]) : x = slots[t][i] /\ v = mem[stack[t].base + i - 1]
    BY <2>0
  <2>2. slots[t] \in Seq(Var) /\ Len(slots[t]) = Size(t)
    BY DEF Inv, Types, OwnVariables
  <2>3. stack[t].base \in Nat /\ stack[t].esp \in Nat /\ Size(t) = stack[t].esp - stack[t].base
    BY StackNumbers DEF Inv
  <2>4. stack[t].base + i - 1 \in stack[t].base..(stack[t].esp - 1)
    BY <2>2, <2>3
  <2>5. v \in Value
    BY <2>1, <2>4 DEF Inv, Written
  <2> QED
    BY <2>1, <2>2, <2>5
<1>2. CASE \E u \in DOMAIN upvalue : ~IsOpen(u) /\ x = captured[u] /\ v = upvalue[u].closedUpvalue
  BY <1>2 DEF Inv, Types, OneUpvalueEach
<1> QED
  BY <1>1, <1>2 DEF Holds

-----------------------------------------------------------------------------
(***************************************************************************)
(* Steps.  A step of one thread leaves the others alone.                   *)
(***************************************************************************)
Untouched(s) ==
  /\ stack'[s] = stack[s] /\ frames'[s] = frames[s]
  /\ openUpvalues'[s] = openUpvalues[s] /\ slots'[s] = slots[s]
  /\ \A a \in stack[s].base..(stack[s].esp - 1) : mem'[a] = mem[a]
  /\ \A u \in Open(s) : upvalue'[u] = upvalue[u] /\ captured'[u] = captured[u]

LEMMA Others ==
  ASSUME Inv, NEW s \in Thread, Untouched(s), DOMAIN upvalue \subseteq DOMAIN upvalue'
  PROVE  StackFits(s)' /\ Written(s)' /\ FramesFit(s)' /\ OpenInOrder(s)'
<1> USE DEF Untouched
<1>1. StackFits(s)'
  BY DEF Inv, StackFits
<1>2. Written(s)'
  BY DEF Inv, Written
<1>3. FramesFit(s)'
  <2>1. Closures \subseteq Closures'
    BY DEF Closures
  <2> QED
    BY <2>1 DEF Inv, FramesFit
<1>4. OpenInOrder(s)'
  <2>1. \A i \in 1..Len(openUpvalues[s]) :
          /\ openUpvalues[s][i] \in DOMAIN upvalue'
          /\ upvalue'[openUpvalues[s][i]] = upvalue[openUpvalues[s][i]]
          /\ captured'[openUpvalues[s][i]] = captured[openUpvalues[s][i]]
    BY OpenOf DEF Inv, OpenInOrder, InOrder
  <2>2. InOrder(openUpvalues[s], upvalue, captured, slots[s], stack[s].base, stack[s].esp)
    BY DEF Inv, OpenInOrder
  <2>3. InOrder(openUpvalues[s], upvalue', captured', slots[s], stack[s].base, stack[s].esp)
    BY <2>1, <2>2 DEF InOrder
  <2> QED
    BY <2>3 DEF OpenInOrder
<1> QED
  BY <1>1, <1>2, <1>3, <1>4

\* What the values of the variables are after a step: those in gone are lost, x gets v.
Becomes(gone, x, v) ==
  /\ \A y \in Var, w \in Value : Holds(y, w) /\ y \notin gone /\ y # x => Holds(y, w)'
  /\ Holds(x, v)'
  /\ LiveVars' \subseteq (LiveVars \ gone) \union {x}

Loses(gone) ==
  /\ \A y \in Var, w \in Value : Holds(y, w) /\ y \notin gone => Holds(y, w)'
  /\ LiveVars' \subseteq LiveVars \ gone

cells == [x \in LiveVars |-> ValueOf(x)]

LEMMA BecomesMeans ==
  ASSUME Inv, Inv', NEW gone \in SUBSET Var, NEW x \in Var, NEW v \in Value, Becomes(gone, x, v)
  PROVE  cells' = [y \in (LiveVars \ gone) \union {x} |-> IF y = x THEN v ELSE cells[y]]
<1>0. ValuesAreHeld'
  BY HoldsIsValue, PTL
<1>1. /\ \A y : y \in LiveVars => Holds(y, ValueOf(y))
      /\ \A y, w : Holds(y, w) => y \in LiveVars /\ w = ValueOf(y)
  BY HoldsIsValue DEF ValuesAreHeld
<1>2. \A y, w : Holds(y, w)' => y \in LiveVars' /\ w = ValueOf(y)'
  BY <1>0 DEF ValuesAreHeld
<1>3. ASSUME NEW y \in LiveVars, y \notin gone, y # x
      PROVE  y \in LiveVars' /\ ValueOf(y)' = ValueOf(y)
  <2>1. PICK w : w = ValueOf(y) /\ Holds(y, w)
    BY <1>1, <1>3
  <2>2. y \in Var /\ w \in Value
    BY <2>1, HoldsTypes
  <2>3. Holds(y, w)'
    BY <1>3, <2>1, <2>2 DEF Becomes
  <2> QED
    BY <1>2, <2>1, <2>3

<1>4. x \in LiveVars' /\ ValueOf(x)' = v
  <2>1. Holds(x, v)'
    BY DEF Becomes
  <2> QED
    BY <1>2, <2>1
<1>5. LiveVars' = (LiveVars \ gone) \union {x}
  BY <1>3, <1>4 DEF Becomes
<1> QED
  BY <1>3, <1>4, <1>5 DEF cells

LEMMA LosesMeans ==
  ASSUME Inv, Inv', NEW gone \in SUBSET Var, Loses(gone)
  PROVE  cells' = [y \in LiveVars \ gone |-> cells[y]]
<1>0. ValuesAreHeld'
  BY HoldsIsValue, PTL
<1>1. /\ \A y : y \in LiveVars => Holds(y, ValueOf(y))
      /\ \A y, w : Holds(y, w) => y \in LiveVars /\ w = ValueOf(y)
  BY HoldsIsValue DEF ValuesAreHeld
<1>2. \A y, w : Holds(y, w)' => y \in LiveVars' /\ w = ValueOf(y)'
  BY <1>0 DEF ValuesAreHeld
<1>3. ASSUME NEW y \in LiveVars, y \notin gone
      PROVE  y \in LiveVars' /\ ValueOf(y)' = ValueOf(y)
  <2>1. PICK w : w = ValueOf(y) /\ Holds(y, w)
    BY <1>1, <1>3
  <2>2. y \in Var /\ w \in Value
    BY <2>1, HoldsTypes
  <2>3. Holds(y, w)'
    BY <1>3, <2>1, <2>2 DEF Loses
  <2> QED
    BY <1>2, <2>1, <2>3
<1>4. LiveVars' = LiveVars \ gone
  BY <1>3 DEF Loses
<1> QED
  BY <1>3, <1>4 DEF cells

\* The steps of the abstract module that steps of this one map to.
LEMMA OneChanges ==
  ASSUME Inv, Inv', NEW x \in Var, NEW v \in Value, Becomes({}, x, v)
  PROVE  cells' = [y \in LiveVars \union {x} |-> IF y = x THEN v ELSE cells[y]]
<1>1. PICK gone \in SUBSET Var : gone = {}
  OBVIOUS
<1>2. Becomes(gone, x, v)
  BY <1>1
<1>3. cells' = [y \in (LiveVars \ gone) \union {x} |-> IF y = x THEN v ELSE cells[y]]
  BY <1>1, <1>2, BecomesMeans
<1>4. LiveVars \ gone = LiveVars
  BY <1>1
<1> QED
  BY <1>3, <1>4

LEMMA MapsToDeclare ==
  ASSUME Inv, Inv', NEW x \in Var, NEW v \in Value, x \notin LiveVars, Becomes({}, x, v)
  PROVE  Cells!Next
<1>1. cells' = [y \in LiveVars \union {x} |-> IF y = x THEN v ELSE cells[y]]
  BY OneChanges
<1>2. DOMAIN cells = LiveVars
  BY DEF cells
<1> QED
  BY <1>1, <1>2 DEF Cells!Next, Cells!Declare, Cells!Live, cells

LEMMA MapsToAssign ==
  ASSUME Inv, Inv', NEW x \in Var, NEW v \in Value, x \in LiveVars, Becomes({}, x, v)
  PROVE  Cells!Next
<1>1. cells' = [y \in LiveVars \union {x} |-> IF y = x THEN v ELSE cells[y]]
  BY OneChanges
<1>2. DOMAIN cells = LiveVars
  BY DEF cells
<1>3. LiveVars \union {x} = LiveVars
  OBVIOUS
<1>4. cells' = [y \in LiveVars |-> IF y = x THEN v ELSE cells[y]]
  BY <1>1, <1>3
<1>5. cells' = [cells EXCEPT ![x] = v]
  BY <1>2, <1>4
<1> QED
  BY <1>2, <1>5 DEF Cells!Next, Cells!Assign, Cells!Live, cells

LEMMA MapsToReplace ==
  ASSUME Inv, Inv', NEW gone \in SUBSET LiveVars, NEW x \in Var, NEW v \in Value,
         x \notin LiveVars \ gone, Becomes(gone, x, v)
  PROVE  Cells!Next
<1>0. LiveVars \subseteq Var
  BY LiveIs DEF Inv
<1>1. cells' = [y \in (LiveVars \ gone) \union {x} |-> IF y = x THEN v ELSE cells[y]]
  BY <1>0, BecomesMeans
<1>2. DOMAIN cells = LiveVars
  BY DEF cells
<1> QED
  BY <1>1, <1>2 DEF Cells!Next, Cells!Replace, Cells!Live, cells

LEMMA MapsToForget ==
  ASSUME Inv, Inv', NEW gone \in SUBSET LiveVars, Loses(gone)
  PROVE  Cells!Next
<1>0. LiveVars \subseteq Var
  BY LiveIs DEF Inv
<1>1. cells' = [y \in LiveVars \ gone |-> cells[y]]
  BY <1>0, LosesMeans
<1>2. DOMAIN cells = LiveVars
  BY DEF cells
<1> QED
  BY <1>1, <1>2 DEF Cells!Next, Cells!Forget, Cells!Live, cells

-----------------------------------------------------------------------------
(***************************************************************************)
(* Pushing a value.                                                        *)
(***************************************************************************)
\* What there is above the start of the running function.
LEMMA TopFrame ==
  ASSUME Inv, NEW t \in Thread, frames[t] # <<>>
  PROVE  /\ Len(frames[t]) \in Nat \ {0} /\ Top(t) = frames[t][Len(frames[t])]
         /\ Top(t) \in [start : Nat, need : Needs, closure : Nat]
         /\ Top(t).start \in Nat /\ Top(t).need \in Nat \ {0} /\ Top(t).closure \in Closures
         /\ stack[t].base <= Top(t).start /\ Top(t).start < stack[t].esp
         /\ Top(t).start + Top(t).need <= stack[t].base + stack[t].capacity
         /\ stack[t].capacity # 0 /\ stack[t].capacity > 0
         /\ stack[t].base \in Bases /\ stack[t].capacity <= REGION
<1>1. frames[t] \in Seq([start : Nat, need : Needs, closure : Nat])
  BY DEF Inv, Types
<1>2. /\ Len(frames[t]) \in Nat \ {0} /\ Top(t) = frames[t][Len(frames[t])]
      /\ Top(t) \in [start : Nat, need : Needs, closure : Nat]
  BY <1>1, FrontOf DEF Top
<1>3. Len(frames[t]) \in 1..Len(frames[t])
  BY <1>2
<1>4. /\ Top(t).closure \in Closures
      /\ stack[t].base <= Top(t).start /\ Top(t).start < stack[t].esp
      /\ Top(t).start + Top(t).need <= stack[t].base + stack[t].capacity
  BY <1>2, <1>3 DEF Inv, FramesFit
<1>5. Top(t).start \in Nat /\ Top(t).need \in Nat \ {0}
  BY <1>2, OpenUpvaluesAssumption
<1>6. stack[t].capacity # 0 /\ stack[t].base \in Bases /\ stack[t].capacity <= REGION
  BY DEF Inv, StackFits
<1>7. stack[t].capacity > 0
  BY <1>6, Numbers
<1> QED
  BY <1>2, <1>4, <1>5, <1>6, <1>7

LEMMA PushStep ==
  ASSUME Inv, NEW t \in Thread, NEW v \in Value, Push(t, v)
  PROVE  Inv' /\ Cells!Next
<1> DEFINE e == stack[t].esp
           b == stack[t].base
           n == Len(slots[t])
<1>1. PICK x \in Var : x = Fresh(LiveVars) /\ x \notin LiveVars
  BY FreshIsNew DEF Push, RoomForVar
<1>2. /\ mem' = [mem EXCEPT ![e] = v] /\ stack' = [stack EXCEPT ![t].esp = @ + 1]
      /\ slots' = [slots EXCEPT ![t] = Append(@, x)]
      /\ frames' = frames /\ openUpvalues' = openUpvalues /\ upvalue' = upvalue /\ captured' = captured
  BY <1>1 DEF Push
<1>3. /\ e \in Nat /\ b \in Nat /\ n \in Nat /\ n = e - b /\ b <= e
      /\ stack[t].capacity \in Nat /\ e + 1 <= b + stack[t].capacity /\ e \in Address
      /\ stack[t].capacity # 0
  <2>1. frames[t] # <<>> /\ e - Top(t).start < Top(t).need
    BY DEF Push
  <2>2. /\ e \in Nat /\ b \in Nat /\ n \in Nat /\ n = e - b /\ b <= e
        /\ stack[t].capacity \in Nat
        /\ \A a \in b..(b + stack[t].capacity - 1) : a \in Address
    BY Numbers
  <2>3. e + 1 <= b + stack[t].capacity /\ stack[t].capacity # 0
    <3>1. /\ Top(t).start \in Nat /\ Top(t).need \in Nat
          /\ Top(t).start + Top(t).need <= b + stack[t].capacity /\ stack[t].capacity # 0
      BY <2>1, TopFrame
    <3>2. PICK p, k : p = Top(t).start /\ k = Top(t).need
      OBVIOUS
    <3>3. /\ p \in Nat /\ k \in Nat /\ e \in Nat /\ b + stack[t].capacity \in Nat
          /\ e - p < k /\ p + k <= b + stack[t].capacity
      BY <2>1, <2>2, <3>1, <3>2
    <3> QED
      BY <3>1, <3>3
  <2> QED
    BY <2>2, <2>3
<1>t. Types /\ FramesFit(t) /\ OpenInOrder(t) /\ OwnVariables /\ OneUpvalueEach
  BY DEF Inv
<1>4. /\ stack'[t].base = b /\ stack'[t].capacity = stack[t].capacity /\ stack'[t].esp = e + 1
      /\ \A s \in Thread : s # t => stack'[s] = stack[s]
  BY <1>2, <1>t, <1>3 DEF Types
<1>5. /\ slots'[t] \in Seq(Var) /\ Len(slots'[t]) = n + 1 /\ slots'[t][n + 1] = x
      /\ \A i \in 1..n : slots'[t][i] = slots[t][i]
      /\ \A s \in Thread : s # t => slots'[s] = slots[s]
  BY <1>2, <1>t, <1>3 DEF Types
<1>6. mem'[e] = v /\ \A a \in Address : a # e => mem'[a] = mem[a]
  BY <1>2, <1>3, <1>t DEF Types
<1>e. e = stack[t].esp /\ b = stack[t].base /\ n = Len(slots[t])
  OBVIOUS
<1> HIDE DEF e, b, n
<1>7. Types'
  <2>1. stack' \in [Thread -> [base : Nat, capacity : Nat, esp : Nat]]
    <3>1. [stack[t] EXCEPT !.esp = @ + 1] \in [base : Nat, capacity : Nat, esp : Nat]
      <4>1. stack[t] \in [base : Nat, capacity : Nat, esp : Nat] /\ stack[t].esp + 1 \in Nat
        BY <1>e, <1>3, Shapes
      <4> QED
        BY <4>1
    <3> QED
      BY <1>2, <1>t, <3>1 DEF Types
  <2>2. slots' \in [Thread -> Seq(Var)]
    BY <1>2, <1>5, <1>t DEF Types
  <2> QED
    BY <1>2, <1>t, <2>1, <2>2 DEF Types
<1>8. ASSUME NEW s \in Thread, s # t
      PROVE  Untouched(s) /\ StackFits(s)' /\ Written(s)' /\ FramesFit(s)' /\ OpenInOrder(s)'
  <2>1. \A a \in stack[s].base..(stack[s].esp - 1) : a \in Address /\ a # e
    <3> SUFFICES ASSUME NEW a \in stack[s].base..(stack[s].esp - 1) PROVE a \in Address /\ a # e
      OBVIOUS
    <3>1. /\ stack[s].base \in Nat /\ stack[s].esp \in Nat /\ stack[s].capacity \in Nat
          /\ stack[s].esp <= stack[s].base + stack[s].capacity
          /\ stack[s].base..(stack[s].esp - 1) \subseteq Address
      BY <1>8, StackNumbers DEF Inv
    <3>2. ~(stack[s].base <= e /\ e < stack[s].base + stack[s].capacity)
      BY <1>e, <1>3, <1>8, NotShared
    <3> QED
      BY <3>1, <3>2
  <2>2. Untouched(s)
    BY <1>e, <1>2, <1>4, <1>5, <1>6, <1>8, <2>1 DEF Untouched
  <2> QED
    BY <1>2, <1>8, <2>2, Others

<1>9. StackFits(t)'
  <2>1. stack'[t].capacity # 0
    BY <1>e, <1>3, <1>4
  <2>2. stack[t].base \in Bases /\ stack[t].capacity <= REGION
    BY <1>e, <1>3 DEF Inv, StackFits
  <2> QED
    BY <1>e, <1>3, <1>4, <2>1, <2>2 DEF StackFits
<1>10. Written(t)'
  <2> SUFFICES ASSUME NEW a \in b..e PROVE mem'[a] \in Value
    BY <1>e, <1>3, <1>4 DEF Written
  <2>1. CASE a = e
    BY <1>6, <2>1
  <2>2. CASE a # e
    <3>1. a \in b..(e - 1)
      BY <1>e, <1>3, <2>2
    <3>2. a \in Address /\ mem[a] \in Value
      BY <1>e, <3>1, Numbers
    <3> QED
      BY <1>6, <2>2, <3>2
  <2> QED
    BY <2>1, <2>2
<1>11. FramesFit(t)'
  <2>1. Closures' = Closures
    BY <1>2 DEF Closures
  <2>2. frames'[t] = frames[t] /\ stack'[t].base = b /\ stack'[t].esp = e + 1
        /\ stack'[t].capacity = stack[t].capacity
    BY <1>e, <1>2, <1>4
  <2>3. \A i \in 1..Len(frames[t]) : frames[t][i].start \in Nat
    BY Shapes
  <2> QED
    BY <1>e, <1>3, <1>t, <2>1, <2>2, <2>3 DEF FramesFit
<1>12. OpenInOrder(t)'
  <2>1. \A k \in 1..(e - b) : slots'[t][k] = slots[t][k]
    BY <1>3, <1>5
  <2>2. InOrder(openUpvalues[t], upvalue, captured, slots[t], b, e)
    BY <1>e, <1>t DEF OpenInOrder
  <2>3. b \in Int /\ e \in Int /\ e + 1 \in Int
    BY <1>3
  <2>4. \A i \in 1..Len(openUpvalues[t]) : upvalue[openUpvalues[t][i]].localVarPtr < e + 1
    <3>1. \A i \in 1..Len(openUpvalues[t]) : upvalue[openUpvalues[t][i]].localVarPtr \in b..(e - 1)
      BY <2>2 DEF InOrder
    <3> QED
      BY <2>3, <3>1
  <2>5. InOrder(openUpvalues[t], upvalue, captured, slots'[t], b, e + 1)
    BY <2>1, <2>2, <2>3, <2>4, InOrderKept
  <2> QED
    BY <1>e, <1>2, <1>4, <2>5 DEF OpenInOrder
<1>13. Apart'
  BY <1>e, <1>2, <1>4 DEF Inv, Apart
<1>14. OwnVariables'
  <2>1. \A s \in Thread : Len(slots'[s]) = Size(s)'
    <3> SUFFICES ASSUME NEW s \in Thread PROVE Len(slots'[s]) = stack'[s].esp - stack'[s].base
      BY DEF Size
    <3>1. CASE s = t
      <4>1. stack'[t].esp - stack'[t].base = n + 1
        BY <1>3, <1>4
      <4> QED
        BY <1>5, <3>1, <4>1
    <3>2. CASE s # t
      BY <1>e, <1>4, <1>5, <3>2, Numbers
    <3> QED
      BY <3>1, <3>2
  <2>2. ASSUME NEW s \in Thread, NEW r \in Thread, NEW i \in 1..Len(slots'[s]), NEW j \in 1..Len(slots'[r]),
               slots'[s][i] = slots'[r][j]
        PROVE  s = r /\ i = j
    <3>1. \A q \in Thread : \A k \in 1..Len(slots'[q]) :
            \/ q = t /\ k = n + 1 /\ slots'[q][k] = x
            \/ k \in 1..Len(slots[q]) /\ slots'[q][k] = slots[q][k] /\ slots[q][k] # x
      <4> SUFFICES ASSUME NEW q \in Thread, NEW k \in 1..Len(slots'[q])
                   PROVE  \/ q = t /\ k = n + 1 /\ slots'[q][k] = x
                          \/ k \in 1..Len(slots[q]) /\ slots'[q][k] = slots[q][k] /\ slots[q][k] # x
        OBVIOUS
      <4>1. CASE q = t /\ k = n + 1
        BY <1>5, <4>1
      <4>2. CASE q # t \/ k # n + 1
        <5>1. k \in 1..Len(slots[q])
          <6>1. CASE q = t
            <7>1. k \in 1..(n + 1) /\ k # n + 1
              BY <1>5, <4>2, <6>1
            <7>2. k \in 1..n
              BY <1>3, <7>1
            <7> QED
              BY <1>e, <6>1, <7>2
          <6>2. CASE q # t
            BY <1>5, <6>2
          <6> QED
            BY <6>1, <6>2
        <5>2. slots'[q][k] = slots[q][k]
          BY <1>e, <1>5, <4>2, <5>1
        <5> QED
          BY <1>1, <1>t, <5>1, <5>2, LiveHas
      <4> QED
        BY <4>1, <4>2
    <3> QED
      BY <2>2, <3>1 DEF Inv, OwnVariables
  <2> QED
    BY <2>1, <2>2 DEF OwnVariables
<1>15. OneUpvalueEach'
  <2>1. \A s \in Thread : \A i \in 1..Len(slots'[s]), u \in DOMAIN upvalue :
          captured[u] = slots'[s][i] => u \in Open(s)
    <3> SUFFICES ASSUME NEW s \in Thread, NEW i \in 1..Len(slots'[s]), NEW u \in DOMAIN upvalue,
                        captured[u] = slots'[s][i]
                 PROVE  u \in Open(s)
      OBVIOUS
    <3>1. captured[u] # x
      BY <1>1, <1>t, LiveHas
    <3>2. i \in 1..Len(slots[s]) /\ slots'[s][i] = slots[s][i]
      <4>1. i \in 1..Len(slots[s])
        <5>1. CASE s = t
          <6>1. i \in 1..(n + 1) /\ i # n + 1
            BY <1>5, <3>1, <5>1
          <6>2. i \in 1..n
            BY <1>3, <6>1
          <6> QED
            BY <1>e, <5>1, <6>2
        <5>2. CASE s # t
          BY <1>5, <5>2
        <5> QED
          BY <5>1, <5>2
      <4> QED
        BY <1>e, <1>5, <4>1
    <3> QED
      BY <3>2 DEF Inv, OneUpvalueEach
  <2>2. \A s : Open(s)' = Open(s)
    BY <1>2 DEF Open
  <2>3. \A u : (IsOpen(u)' <=> IsOpen(u)) /\ Ptr(u)' = Ptr(u)
    BY <1>2 DEF Open, IsOpen, Ptr
  <2> QED
    BY <1>2, <2>1, <2>2, <2>3 DEF Inv, OneUpvalueEach
<1>16. Inv'
  <2>1. \A s \in Thread : StackFits(s)' /\ Written(s)' /\ FramesFit(s)' /\ OpenInOrder(s)'
    BY <1>8, <1>9, <1>10, <1>11, <1>12
  <2> QED
    BY <1>7, <1>13, <1>14, <1>15, <2>1 DEF Inv

<1>17. Becomes({}, x, v)
  <2>1. ASSUME NEW y \in Var, NEW w \in Value, Holds(y, w) PROVE Holds(y, w)'
    <3>1. ASSUME NEW s \in Thread, NEW i \in 1..Len(slots[s]),
                 y = slots[s][i], w = mem[stack[s].base + i - 1]
          PROVE  Holds(y, w)'
      <4>1. i \in 1..Len(slots'[s]) /\ y = slots'[s][i]
        <5>1. CASE s = t
          <6>1. i \in 1..n
            BY <1>e, <3>1, <5>1
          <6>2. i \in 1..(n + 1)
            BY <1>3, <6>1
          <6> QED
            BY <1>e, <1>5, <3>1, <5>1, <6>1, <6>2
        <5>2. CASE s # t
          BY <1>5, <3>1, <5>2
        <5> QED
          BY <5>1, <5>2
      <4>2. stack[s].base + i - 1 \in stack[s].base..(stack[s].esp - 1) /\ stack'[s].base = stack[s].base
        <5>1. stack'[s].base = stack[s].base
          BY <1>e, <1>4
        <5> QED
          BY <3>1, <5>1, Numbers
      <4>3. mem'[stack[s].base + i - 1] = mem[stack[s].base + i - 1]
        <5>1. CASE s = t
          <6>1. b + i - 1 \in b..(e - 1)
            BY <1>e, <4>2, <5>1
          <6>2. b + i - 1 \in Address /\ b + i - 1 # e
            BY <1>e, <1>3, <6>1, Numbers
          <6> QED
            BY <1>e, <1>6, <5>1, <6>2
        <5>2. CASE s # t
          BY <1>8, <4>2, <5>2 DEF Untouched
        <5> QED
          BY <5>1, <5>2
      <4> QED
        BY <3>1, <4>1, <4>2, <4>3 DEF Holds
    <3>2. ASSUME NEW u \in DOMAIN upvalue, ~IsOpen(u), y = captured[u], w = upvalue[u].closedUpvalue
          PROVE  Holds(y, w)'
      BY <1>2, <3>2 DEF Holds, IsOpen, Open
    <3> QED
      BY <2>1, <3>1, <3>2 DEF Holds
  <2>2. Holds(x, v)'
    <3>1. n + 1 \in 1..Len(slots'[t]) /\ x = slots'[t][n + 1]
      BY <1>e, <1>3, <1>5
    <3>2. v = mem'[stack'[t].base + (n + 1) - 1]
      BY <1>e, <1>3, <1>4, <1>6
    <3> QED
      BY <3>1, <3>2 DEF Holds
  <2>3. LiveVars' \subseteq LiveVars \union {x}
    <3> SUFFICES ASSUME NEW y, y \in LiveVars', y # x PROVE y \in LiveVars
      OBVIOUS
    <3>1. \/ \E s \in Thread : \E i \in 1..Len(slots'[s]) : y = slots'[s][i]
          \/ \E u \in DOMAIN upvalue' : y = captured'[u]
      BY <1>7, LiveInNext
    <3>2. \/ \E s \in Thread : \E i \in 1..Len(slots[s]) : y = slots[s][i]
          \/ \E u \in DOMAIN upvalue : y = captured[u]
      BY <1>e, <1>2, <1>3, <1>5, <3>1
    <3> QED
      BY <3>2, LiveIs DEF Inv, LiveMeans
  <2> QED
    BY <2>1, <2>2, <2>3 DEF Becomes
<1> QED
  BY <1>1, <1>16, <1>17, MapsToDeclare

-----------------------------------------------------------------------------
(***************************************************************************)
(* Assigning to a variable, in its slot or in the upvalue that outlived    *)
(* the slot.                                                               *)
(***************************************************************************)
LEMMA StoreSlot ==
  ASSUME Inv, NEW t \in Thread, NEW i \in 1..Len(slots[t]), NEW v \in Value,
         NEW p, p = stack[t].base + i - 1, mem' = [mem EXCEPT ![p] = v],
         UNCHANGED <<stack, frames, openUpvalues, upvalue, slots, captured>>
  PROVE  Inv' /\ Cells!Next
<1>1. /\ stack' = stack /\ frames' = frames /\ openUpvalues' = openUpvalues
      /\ upvalue' = upvalue /\ slots' = slots /\ captured' = captured
  OBVIOUS
<1>2. p \in stack[t].base..(stack[t].esp - 1) /\ p \in Nat /\ p \in Address
      /\ stack[t].base <= p /\ p < stack[t].base + stack[t].capacity
  <2>1. p \in stack[t].base..(stack[t].esp - 1) /\ p \in Nat
    BY Numbers
  <2> QED
    BY <2>1, Numbers
<1>t. Types /\ OwnVariables
  BY DEF Inv
<1>3. mem'[p] = v /\ \A a \in Address : a # p => mem'[a] = mem[a]
  BY <1>2, <1>t DEF Types
<1>4. Types'
  BY <1>1, <1>2, <1>t DEF Types
<1>5. \A s \in Thread : StackFits(s)' /\ FramesFit(s)' /\ OpenInOrder(s)'
  BY <1>1 DEF Inv, StackFits, FramesFit, OpenInOrder, Closures
<1>6. \A s \in Thread : Written(s)'
  <2> SUFFICES ASSUME NEW s \in Thread, NEW a \in stack[s].base..(stack[s].esp - 1)
               PROVE  mem'[a] \in Value
    BY <1>1 DEF Written
  <2>1. a \in Address /\ mem[a] \in Value
    BY Numbers
  <2> QED
    BY <1>3, <2>1
<1>7. Apart' /\ OwnVariables' /\ OneUpvalueEach'
  BY <1>1 DEF Inv, Apart, OwnVariables, Size, OneUpvalueEach, IsOpen, Open, Ptr
<1>8. Inv'
  BY <1>4, <1>5, <1>6, <1>7 DEF Inv
<1>9. PICK x \in Var : x = slots[t][i] /\ x \in LiveVars
  BY <1>t, Shapes, LiveHas
<1>10. Becomes({}, x, v)
  <2>1. ASSUME NEW y \in Var, NEW w \in Value, Holds(y, w), y # x PROVE Holds(y, w)'
    <3>1. ASSUME NEW s \in Thread, NEW j \in 1..Len(slots[s]),
                 y = slots[s][j], w = mem[stack[s].base + j - 1]
          PROVE  Holds(y, w)'
      <4> DEFINE a == stack[s].base + j - 1
      <4>1. a \in stack[s].base..(stack[s].esp - 1) /\ a \in Int
            /\ stack[s].base <= a /\ a < stack[s].base + stack[s].capacity
        <5>1. j \in 1..Len(slots[s]) /\ s \in Thread
          BY <3>1
        <5>2. /\ stack[s].base \in Nat /\ stack[s].esp \in Nat /\ stack[s].capacity \in Nat
              /\ Len(slots[s]) = stack[s].esp - stack[s].base
              /\ stack[s].esp <= stack[s].base + stack[s].capacity
          BY <5>1, Numbers
        <5>3. j \in Nat /\ 1 <= j /\ j <= Len(slots[s])
          BY <5>2
        <5>4. PICK lo, hi, cap : lo = stack[s].base /\ hi = stack[s].esp /\ cap = stack[s].capacity
          OBVIOUS
        <5>5. /\ lo \in Nat /\ hi \in Nat /\ cap \in Nat /\ hi <= lo + cap
              /\ 1 <= j /\ j <= hi - lo
          BY <5>2, <5>3, <5>4
        <5>6. lo + j - 1 \in lo..(hi - 1) /\ lo <= lo + j - 1 /\ lo + j - 1 < lo + cap
          BY <5>3, <5>5
        <5> QED
          BY <5>4, <5>5, <5>6
      <4>2. a # p
        <5>1. CASE s = t
          <6>1. j # i
            BY <1>9, <2>1, <3>1, <5>1
          <6> QED
            BY <5>1, <6>1, Numbers
        <5>2. CASE s # t
          BY <1>2, <4>1, <5>2, NotShared
        <5> QED
          BY <5>1, <5>2
      <4>3. a \in Address
        BY <4>1, Numbers
      <4> HIDE DEF a
      <4>4. mem'[a] = mem[a]
        BY <1>3, <4>2, <4>3
      <4> QED
        BY <1>1, <3>1, <4>4 DEF a, Holds
    <3>2. ASSUME NEW u \in DOMAIN upvalue, ~IsOpen(u), y = captured[u], w = upvalue[u].closedUpvalue
          PROVE  Holds(y, w)'
      BY <1>1, <3>2 DEF Holds, IsOpen, Open
    <3> QED
      BY <2>1, <3>1, <3>2 DEF Holds
  <2>2. Holds(x, v)'
    BY <1>1, <1>3, <1>9 DEF Holds
  <2>3. LiveVars' \subseteq LiveVars \union {x}
    BY <1>1 DEF LiveVars
  <2> QED
    BY <2>1, <2>2, <2>3 DEF Becomes
<1> QED
  BY <1>8, <1>9, <1>10, MapsToAssign

LEMMA StoreLocalVarStep ==
  ASSUME Inv, NEW t \in Thread, NEW i \in 0..(REGION - 1), NEW v \in Value, StoreLocalVar(t, i, v)
  PROVE  Inv' /\ Cells!Next
<1> DEFINE p == Top(t).start + i
           j == p - stack[t].base + 1
<1>1. /\ frames[t] # <<>> /\ p < stack[t].esp /\ mem' = [mem EXCEPT ![p] = v]
      /\ UNCHANGED <<stack, frames, openUpvalues, upvalue, slots, captured>>
  BY DEF StoreLocalVar, ghosts
<1>2. i \in Nat /\ Top(t).start \in Nat /\ stack[t].base <= Top(t).start
  BY <1>1, TopFrame, OpenUpvaluesAssumption
<1>3. j \in 1..Len(slots[t]) /\ p = stack[t].base + j - 1
  BY <1>1, <1>2, Numbers
<1> HIDE DEF j, p
<1> QED
  BY <1>1, <1>3, StoreSlot

\* What a closure finds.
LEMMA UpvalueIs ==
  ASSUME Inv, NEW u \in DOMAIN upvalue
  PROVE  /\ IsOpen(u) => Ptr(u) # Closed
         /\ ~IsOpen(u) => Ptr(u) = Closed /\ upvalue[u].closedUpvalue \in Value
         /\ Deref(u) \in Value
<1>1. ASSUME IsOpen(u) PROVE Ptr(u) # Closed /\ Deref(u) \in Value
  <2>1. PICK t \in Thread : u \in Open(t)
    BY <1>1 DEF IsOpen
  <2>2. Ptr(u) # Closed /\ Ptr(u) \in stack[t].base..(stack[t].esp - 1)
    BY <2>1, OpenIsThere
  <2>3. mem[Ptr(u)] \in Value
    BY <2>2, Numbers
  <2> QED
    BY <2>2, <2>3 DEF Deref, Ptr
<1>2. ASSUME ~IsOpen(u) PROVE Ptr(u) = Closed /\ upvalue[u].closedUpvalue \in Value
  BY <1>2 DEF Inv, OneUpvalueEach
<1> QED
  BY <1>1, <1>2 DEF Deref, Ptr

LEMMA LoadUpvalueStep ==
  ASSUME Inv, NEW t \in Thread, LoadUpvalue(t)
  PROVE  Inv' /\ Cells!Next
<1>1. frames[t] # <<>> /\ Top(t).closure # NoClosure /\ Push(t, Deref(Top(t).closure))
  BY DEF LoadUpvalue
<1>2. Top(t).closure \in DOMAIN upvalue
  BY <1>1, TopFrame DEF Closures
<1>3. PICK v \in Value : v = Deref(Top(t).closure)
  BY <1>2, UpvalueIs
<1>4. Push(t, v)
  BY <1>1, <1>3 DEF Push
<1> QED
  BY <1>4, PushStep

LEMMA StoreUpvalueStep ==
  ASSUME Inv, NEW t \in Thread, NEW v \in Value, StoreUpvalue(t, v)
  PROVE  Inv' /\ Cells!Next
<1> DEFINE u == Top(t).closure
<1>1. /\ frames[t] # <<>> /\ u # NoClosure
      /\ UNCHANGED <<stack, frames, openUpvalues, slots, captured>>
  BY DEF StoreUpvalue, ghosts
<1>2. u \in DOMAIN upvalue
  BY <1>1, TopFrame DEF Closures
<1>3. CASE upvalue[u].localVarPtr # Closed
  <2>1. mem' = [mem EXCEPT ![upvalue[u].localVarPtr] = v] /\ upvalue' = upvalue
    BY <1>3 DEF StoreUpvalue
  <2>2. PICK s \in Thread : u \in Open(s)
    BY <1>2, <1>3, UpvalueIs DEF IsOpen, Ptr
  <2> DEFINE p == Ptr(u)
             i == p - stack[s].base + 1
  <2>3. i \in 1..Len(slots[s]) /\ p \in Nat
    BY <2>2, OpenIsThere
  <2>4. p = stack[s].base + i - 1
    BY <2>3, Numbers
  <2>5. mem' = [mem EXCEPT ![p] = v]
    BY <2>1 DEF Ptr
  <2>6. UNCHANGED <<stack, frames, openUpvalues, upvalue, slots, captured>>
    BY <1>1, <2>1
  <2> HIDE DEF i, p
  <2> QED
    BY <2>2, <2>3, <2>4, <2>5, <2>6, StoreSlot
<1>4. CASE upvalue[u].localVarPtr = Closed
  <2>1. upvalue' = [upvalue EXCEPT ![u].closedUpvalue = v] /\ mem' = mem
    BY <1>4 DEF StoreUpvalue
  <2>2. /\ stack' = stack /\ frames' = frames /\ openUpvalues' = openUpvalues
        /\ slots' = slots /\ captured' = captured
    BY <1>1
  <2>3. PICK w \in DOMAIN upvalue : w = u
    BY <1>2
  <2> HIDE DEF u
  <2>4. ~IsOpen(w)
    BY <1>4, <2>3, UpvalueIs DEF Ptr
  <2>t. Types
    BY DEF Inv
  <2>5. /\ DOMAIN upvalue' = DOMAIN upvalue
        /\ upvalue'[w].closedUpvalue = v /\ upvalue'[w].localVarPtr = upvalue[w].localVarPtr
        /\ \A z \in DOMAIN upvalue : z # w => upvalue'[z] = upvalue[z]
        /\ upvalue' \in Seq([localVarPtr : Int, closedUpvalue : Value \union {Junk}])
    <3>1. /\ upvalue \in Seq([localVarPtr : Int, closedUpvalue : Value \union {Junk}])
          /\ upvalue' = [upvalue EXCEPT ![w].closedUpvalue = v]
      BY <2>t, <2>1, <2>3 DEF Types
    <3>2. upvalue[w] \in [localVarPtr : Int, closedUpvalue : Value \union {Junk}]
      <4>1. DOMAIN upvalue = 1..Len(upvalue)
        BY <3>1
      <4> QED
        BY <2>3, <3>1, <4>1, ElementOfSeq
    <3>3. [upvalue[w] EXCEPT !.closedUpvalue = v] \in [localVarPtr : Int, closedUpvalue : Value \union {Junk}]
      BY <3>2
    <3> QED
      BY <3>1, <3>2, <3>3
  <2>6. \A z \in DOMAIN upvalue : upvalue'[z].localVarPtr = upvalue[z].localVarPtr
    BY <2>5
  <2>7. Types'
    BY <2>t, <2>1, <2>2, <2>5 DEF Types
  <2>8. \A s \in Thread : StackFits(s)' /\ FramesFit(s)' /\ Written(s)'
    <3>1. Closures' = Closures
      BY <2>5 DEF Closures
    <3> QED
      BY <2>1, <2>2, <3>1 DEF Inv, StackFits, FramesFit, Written
  <2>9. ASSUME NEW s \in Thread PROVE OpenInOrder(s)'
    <3>1. InOrder(openUpvalues[s], upvalue, captured, slots[s], stack[s].base, stack[s].esp)
      BY DEF Inv, OpenInOrder
    <3>2. InOrder(openUpvalues[s], upvalue', captured, slots[s], stack[s].base, stack[s].esp)
      BY <2>5, <2>6, <3>1 DEF InOrder
    <3> QED
      BY <2>2, <3>2 DEF OpenInOrder
  <2>10. Apart' /\ OwnVariables'
    BY <2>2 DEF Inv, Apart, OwnVariables, Size
  <2>11. OneUpvalueEach'
    <3>1. \A z \in DOMAIN upvalue : (IsOpen(z)' <=> IsOpen(z)) /\ Ptr(z)' = Ptr(z)
      BY <2>2, <2>6 DEF IsOpen, Open, Ptr
    <3>2. \A z \in DOMAIN upvalue : ~IsOpen(z) => upvalue'[z].closedUpvalue \in Value
      BY <2>5 DEF Inv, OneUpvalueEach
    <3>3. \A s \in Thread : Open(s)' = Open(s)
      BY <2>2 DEF Open
    <3> QED
      BY <2>2, <2>5, <3>1, <3>2, <3>3 DEF Inv, OneUpvalueEach
  <2>12. Inv'
    BY <2>7, <2>8, <2>9, <2>10, <2>11 DEF Inv
  <2>13. PICK x \in Var : x = captured[w] /\ x \in LiveVars
    BY <2>3, <2>t, LiveHas, LiveIs
  <2>14. Becomes({}, x, v)
    <3>1. ASSUME NEW y \in Var, NEW z \in Value, Holds(y, z), y # x PROVE Holds(y, z)'
      <4>1. ASSUME NEW q \in DOMAIN upvalue, ~IsOpen(q), y = captured[q], z = upvalue[q].closedUpvalue
            PROVE  Holds(y, z)'
        <5>1. q # w
          BY <2>13, <3>1, <4>1
        <5> QED
          BY <2>2, <2>5, <4>1, <5>1 DEF Holds, IsOpen, Open
      <4>2. ASSUME NEW s \in Thread, NEW j \in 1..Len(slots[s]),
                   y = slots[s][j], z = mem[stack[s].base + j - 1]
            PROVE  Holds(y, z)'
        BY <2>1, <2>2, <4>2 DEF Holds
      <4> QED
        BY <3>1, <4>1, <4>2 DEF Holds
    <3>2. Holds(x, v)'
      BY <2>2, <2>4, <2>5, <2>13 DEF Holds, IsOpen, Open
    <3>3. LiveVars' \subseteq LiveVars \union {x}
      BY <2>2 DEF LiveVars
    <3> QED
      BY <3>1, <3>2, <3>3 DEF Becomes
  <2> QED
    BY <2>12, <2>13, <2>14, MapsToAssign
<1> QED
  BY <1>3, <1>4

-----------------------------------------------------------------------------
(***************************************************************************)
(* Closing.  Since the list is descending, the upvalues of a slot and of   *)
(* those above it are the first ones.                                      *)
(***************************************************************************)
LEMMA ToCloseIs ==
  ASSUME Inv, NEW t \in Thread, NEW slot \in Int
  PROVE  /\ ToClose(t, slot) \in 0..Len(openUpvalues[t])
         /\ \A i \in 1..ToClose(t, slot) : Ptr(openUpvalues[t][i]) >= slot
         /\ \A i \in (ToClose(t, slot) + 1)..Len(openUpvalues[t]) : Ptr(openUpvalues[t][i]) < slot
<1> DEFINE list == openUpvalues[t]
           L == Len(list)
           below == {i \in DOMAIN list : upvalue[list[i]].localVarPtr < slot}
           n == ToClose(t, slot)
<1>1. list \in Seq(Nat) /\ L \in Nat /\ DOMAIN list = 1..L
  BY Shapes
<1>2. /\ \A i \in 1..L : Ptr(list[i]) \in Int
      /\ \A i, j \in 1..L : i < j => Ptr(list[i]) > Ptr(list[j])
  <2>1. InOrder(list, upvalue, captured, slots[t], stack[t].base, stack[t].esp)
    BY DEF Inv, OpenInOrder
  <2> QED
    BY <2>1 DEF InOrder, Ptr
<1>3. n = IF below = {} THEN L ELSE Min(below) - 1
  BY DEF ToClose
<1>4. \A i \in 1..L : i \in below <=> Ptr(list[i]) < slot
  BY <1>1 DEF Ptr
<1>5. below \subseteq 1..L
  BY <1>1
<1> HIDE DEF list, L, below, n
<1>6. CASE below = {}
  <2>1. n = L
    BY <1>3, <1>6
  <2> QED
    BY <1>1, <1>2, <1>4, <1>6, <2>1 DEF n, L, list
<1>7. CASE below # {}
  <2>1. below \subseteq Nat
    BY <1>1, <1>5
  <2>2. PICK m \in below : \A k \in below : m <= k
    BY <1>7, <2>1, LeastNumber
  <2>3. Min(below) \in below /\ \A k \in below : Min(below) <= k
    BY <2>2 DEF Min
  <2> DEFINE q == Min(below)
  <2>4. q \in 1..L /\ n = q - 1 /\ Ptr(list[q]) < slot
    BY <1>3, <1>4, <1>5, <1>7, <2>3
  <2>5. \A k \in 1..(q - 1) : k \notin below
    BY <1>1, <2>1, <2>3, <2>4
  <2> HIDE DEF q
  <2>6. \A k \in 1..n : Ptr(list[k]) >= slot
    BY <1>1, <1>2, <1>4, <2>4, <2>5
  <2>7. ASSUME NEW k \in (n + 1)..L PROVE Ptr(list[k]) < slot
    <3>1. k \in 1..L /\ (k = q \/ q < k)
      BY <1>1, <2>4
    <3>2. CASE q < k
      <4>1. Ptr(list[q]) > Ptr(list[k]) /\ Ptr(list[q]) \in Int /\ Ptr(list[k]) \in Int
        BY <1>2, <2>4, <3>1, <3>2
      <4> QED
        BY <2>4, <4>1
    <3> QED
      BY <2>4, <3>1, <3>2
  <2>8. n \in 0..L
    BY <1>1, <2>4
  <2> QED
    BY <2>6, <2>7, <2>8 DEF n, L, list
<1> QED
  BY <1>6, <1>7

LEMMA Closing ==
  ASSUME Inv, NEW t \in Thread, NEW slot \in Int, CloseUpvalues(t, slot)
  PROVE  /\ openUpvalues' \in [Thread -> Seq(Nat)]
         /\ \A s \in Thread : s # t => openUpvalues'[s] = openUpvalues[s]
         /\ upvalue' \in Seq([localVarPtr : Int, closedUpvalue : Value \union {Junk}])
         /\ DOMAIN upvalue' = DOMAIN upvalue
         /\ \A u \in DOMAIN upvalue : u \in Open(t)' <=> u \in Open(t) /\ Ptr(u) < slot
         /\ \A u \in Open(t) : Ptr(u) >= slot =>
              upvalue'[u] = [localVarPtr |-> Closed, closedUpvalue |-> mem[Ptr(u)]]
         /\ \A u \in DOMAIN upvalue : u \notin Open(t) \/ Ptr(u) < slot => upvalue'[u] = upvalue[u]
         /\ InOrder(openUpvalues'[t], upvalue', captured, slots[t], stack[t].base, stack[t].esp)
         /\ \A i \in 1..Len(openUpvalues'[t]) : upvalue'[openUpvalues'[t][i]].localVarPtr < slot
<1> DEFINE list == openUpvalues[t]
           L == Len(list)
           n == ToClose(t, slot)
           rest == SubSeq(list, n + 1, L)
           closing == ToSet(SubSeq(list, 1, n))
<1>1. /\ openUpvalues' = [openUpvalues EXCEPT ![t] = SubSeq(@, n + 1, Len(@))]
      /\ upvalue' = [u \in DOMAIN upvalue |->
                       IF u \in closing
                       THEN [localVarPtr |-> Closed, closedUpvalue |-> mem[upvalue[u].localVarPtr]]
                       ELSE upvalue[u]]
  BY DEF CloseUpvalues
<1>t. Types
  BY DEF Inv
<1>2. list \in Seq(Nat) /\ L \in Nat
  BY Shapes
<1>3. /\ n \in 0..L
      /\ \A i \in 1..n : Ptr(list[i]) >= slot
      /\ \A i \in (n + 1)..L : Ptr(list[i]) < slot
  BY ToCloseIs
<1>4. /\ InOrder(list, upvalue, captured, slots[t], stack[t].base, stack[t].esp)
      /\ \A i \in 1..L : list[i] \in DOMAIN upvalue
  BY DEF Inv, OpenInOrder, InOrder
<1>o. \A u : u \in Open(t) <=> \E i \in 1..L : u = list[i]
  BY <1>t, OpenOf
<1>5. openUpvalues'[t] = rest /\ \A s \in Thread : s # t => openUpvalues'[s] = openUpvalues[s]
  BY <1>1, <1>t DEF Types
<1> HIDE DEF list, L, n
<1>6. rest \in Seq(Nat) /\ Len(rest) = L - n /\ \A i \in 1..(L - n) : rest[i] = list[n + i]
  <2>1. \A i \in (n + 1)..L : list[i] \in Nat
    BY <1>2, <1>3, ElementOfSeq DEF L
  <2>2. n + 1 \in Int /\ L \in Int /\ L - (n + 1) + 1 = L - n
    BY <1>2, <1>3
  <2>3. /\ rest \in Seq(Nat) /\ Len(rest) = IF n + 1 <= L THEN L - (n + 1) + 1 ELSE 0
        /\ \A i \in 1..(L - (n + 1) + 1) : rest[i] = list[(n + 1) + i - 1]
    BY <2>1, <2>2, SubSeqProperties
  <2> HIDE DEF rest
  <2>4. Len(rest) = L - n
    BY <1>2, <1>3, <2>3
  <2>5. \A i \in 1..(L - n) : (n + 1) + i - 1 = n + i
    BY <1>2, <1>3
  <2> QED
    BY <2>2, <2>3, <2>4, <2>5
<1>7. \A u : u \in closing <=> \E i \in 1..n : u = list[i]
  <2>1. \A i \in 1..n : list[i] \in Nat
    BY <1>2, <1>3, ElementOfSeq DEF L
  <2>2. /\ SubSeq(list, 1, n) \in Seq(Nat) /\ Len(SubSeq(list, 1, n)) = IF 1 <= n THEN n - 1 + 1 ELSE 0
        /\ \A i \in 1..(n - 1 + 1) : SubSeq(list, 1, n)[i] = list[1 + i - 1]
    <3>1. 1 \in Int /\ n \in Int
      BY <1>3
    <3> QED
      BY <2>1, <3>1, SubSeqProperties
  <2> DEFINE first == SubSeq(list, 1, n)
  <2>3. first \in Seq(Nat) /\ Len(first) = n /\ \A i \in 1..n : first[i] = list[i]
    <3> HIDE DEF first
    <3>1. n - 1 + 1 = n /\ \A i \in 1..n : 1 + i - 1 = i
      BY <1>3
    <3>2. Len(first) = IF 1 <= n THEN n - 1 + 1 ELSE 0
      BY <2>2 DEF first
    <3>3. Len(first) = n
      BY <1>3, <3>2
    <3> QED
      BY <2>2, <3>1, <3>3 DEF first
  <2>4. closing = ToSet(first)
    OBVIOUS
  <2> HIDE DEF first
  <2> QED
    BY <2>3, <2>4, ToSetOf
<1> HIDE DEF rest, closing
<1>8. \A u : u \in Open(t)' <=> \E i \in 1..(L - n) : u = rest[i]
  <2>1. Open(t)' = ToSet(rest)
    BY <1>5 DEF Open
  <2>2. \A u : u \in ToSet(rest) <=> \E i \in 1..Len(rest) : u = rest[i]
    BY <1>6, ToSetOf
  <2>3. Len(rest) = L - n
    BY <1>6
  <2> QED
    BY <2>1, <2>2, <2>3

<1>9. ASSUME NEW u \in DOMAIN upvalue
      PROVE  /\ u \in Open(t)' <=> u \in Open(t) /\ Ptr(u) < slot
             /\ u \in closing <=> u \in Open(t) /\ Ptr(u) >= slot
  <2>1. \A i \in 1..L : Ptr(list[i]) \in Int
    BY <1>4 DEF InOrder, Ptr, L
  <2>2. ASSUME NEW i \in 1..L, u = list[i] PROVE Ptr(u) < slot <=> i > n
    BY <1>2, <1>3, <2>1, <2>2
  <2>3. u \in Open(t)' <=> \E i \in (n + 1)..L : u = list[i]
    <3>1. ASSUME NEW i \in 1..(L - n), u = rest[i] PROVE \E j \in (n + 1)..L : u = list[j]
      <4>1. n + i \in (n + 1)..L /\ u = list[n + i]
        BY <1>2, <1>3, <1>6, <3>1
      <4> QED
        BY <4>1
    <3>2. ASSUME NEW j \in (n + 1)..L, u = list[j] PROVE \E i \in 1..(L - n) : u = rest[i]
      <4>1. j - n \in 1..(L - n) /\ n + (j - n) = j
        BY <1>2, <1>3, <3>2
      <4>2. rest[j - n] = list[n + (j - n)]
        BY <1>6, <4>1
      <4> QED
        BY <3>2, <4>1, <4>2
    <3> QED
      BY <1>8, <3>1, <3>2
  <2>4. \A i \in 1..L : i > n <=> i \in (n + 1)..L
    BY <1>2, <1>3
  <2>5. \A i \in 1..L : ~(i > n) <=> i \in 1..n
    BY <1>2, <1>3
  <2>6. (n + 1)..L \subseteq 1..L /\ 1..n \subseteq 1..L
    BY <1>2, <1>3
  <2>7. u \in Open(t) => (Ptr(u) >= slot <=> ~(Ptr(u) < slot))
    BY <1>o, <2>1
  <2>8. u \in Open(t)' <=> u \in Open(t) /\ Ptr(u) < slot
    BY <1>o, <2>2, <2>3, <2>4, <2>6
  <2>9. u \in closing <=> u \in Open(t) /\ ~(Ptr(u) < slot)
    BY <1>o, <1>7, <2>2, <2>5, <2>6
  <2> QED
    BY <2>7, <2>8, <2>9
<1>10. ASSUME NEW u \in Open(t)
       PROVE  u \in DOMAIN upvalue /\ Ptr(u) \in Int /\ mem[Ptr(u)] \in Value
  BY OpenIsThere, Numbers
<1>11. /\ \A u \in Open(t) : Ptr(u) >= slot =>
            upvalue'[u] = [localVarPtr |-> Closed, closedUpvalue |-> mem[Ptr(u)]]
       /\ \A u \in DOMAIN upvalue : u \notin Open(t) \/ Ptr(u) < slot => upvalue'[u] = upvalue[u]
  <2>1. ASSUME NEW u \in Open(t), Ptr(u) >= slot
        PROVE  upvalue'[u] = [localVarPtr |-> Closed, closedUpvalue |-> mem[Ptr(u)]]
    <3>1. u \in closing /\ u \in DOMAIN upvalue
      BY <1>9, <1>10, <2>1
    <3> QED
      BY <1>1, <3>1 DEF Ptr
  <2>2. ASSUME NEW u \in DOMAIN upvalue, u \notin Open(t) \/ Ptr(u) < slot
        PROVE  upvalue'[u] = upvalue[u]
    <3>1. u \notin closing
      BY <1>9, <1>10, <2>2
    <3> QED
      BY <1>1, <3>1
  <2> QED
    BY <2>1, <2>2
<1>12. DOMAIN upvalue' = DOMAIN upvalue
  BY <1>1
<1>13. upvalue' \in Seq([localVarPtr : Int, closedUpvalue : Value \union {Junk}])
  <2> DEFINE R == [localVarPtr : Int, closedUpvalue : Value \union {Junk}]
  <2>1. upvalue \in Seq(R) /\ Len(upvalue) \in Nat /\ DOMAIN upvalue = 1..Len(upvalue)
    BY <1>t DEF Types
  <2>2. ASSUME NEW u \in 1..Len(upvalue) PROVE upvalue'[u] \in R
    <3>1. CASE u \in Open(t) /\ Ptr(u) >= slot
      <4>1. upvalue'[u] = [localVarPtr |-> Closed, closedUpvalue |-> mem[Ptr(u)]]
        BY <1>11, <3>1
      <4>2. mem[Ptr(u)] \in Value /\ Closed \in Int
        BY <1>10, <3>1 DEF Closed
      <4> QED
        BY <4>1, <4>2
    <3>2. CASE ~(u \in Open(t) /\ Ptr(u) >= slot)
      <4>1. u \in DOMAIN upvalue /\ upvalue[u] \in R
        BY <2>1, ElementOfSeq
      <4>2. u \notin Open(t) \/ Ptr(u) < slot
        BY <1>10, <3>2
      <4> QED
        BY <1>11, <4>1, <4>2
    <3> QED
      BY <3>1, <3>2
  <2>3. upvalue' = [u \in 1..Len(upvalue) |-> upvalue'[u]]
    BY <1>1, <2>1
  <2> HIDE DEF R
  <2>4. [u \in 1..Len(upvalue) |-> upvalue'[u]] \in Seq(R)
    BY <2>1, <2>2
  <2> QED
    BY <2>3, <2>4 DEF R
<1>14. \A i \in 1..Len(rest) : upvalue'[rest[i]].localVarPtr < slot /\ upvalue'[rest[i]] = upvalue[rest[i]]
  <2> SUFFICES ASSUME NEW i \in 1..(L - n)
               PROVE  upvalue'[rest[i]].localVarPtr < slot /\ upvalue'[rest[i]] = upvalue[rest[i]]
    BY <1>6
  <2>1. n + i \in (n + 1)..L /\ n + i \in 1..L /\ rest[i] = list[n + i]
    BY <1>2, <1>3, <1>6
  <2>2. Ptr(rest[i]) < slot /\ rest[i] \in DOMAIN upvalue
    BY <1>3, <1>4, <2>1
  <2>3. upvalue'[rest[i]] = upvalue[rest[i]]
    BY <1>11, <2>2
  <2> QED
    BY <2>2, <2>3 DEF Ptr
<1>15. InOrder(rest, upvalue', captured, slots[t], stack[t].base, stack[t].esp)
  <2>1. \A i \in 1..Len(rest) : n + i \in 1..L /\ rest[i] = list[n + i]
    BY <1>2, <1>3, <1>6
  <2>2. \A i, j \in 1..Len(rest) : i < j => n + i < n + j
    BY <1>2, <1>3, <1>6
  <2>3. ASSUME NEW i \in 1..Len(rest)
        PROVE  /\ rest[i] \in DOMAIN upvalue'
               /\ upvalue'[rest[i]].localVarPtr \in stack[t].base..(stack[t].esp - 1)
               /\ slots[t][upvalue'[rest[i]].localVarPtr - stack[t].base + 1] = captured[rest[i]]
    <3>1. /\ list[n + i] \in DOMAIN upvalue
          /\ upvalue[list[n + i]].localVarPtr \in stack[t].base..(stack[t].esp - 1)
          /\ slots[t][upvalue[list[n + i]].localVarPtr - stack[t].base + 1] = captured[list[n + i]]
      BY <1>4, <2>1 DEF InOrder, L
    <3> QED
      BY <1>12, <1>14, <2>1, <3>1
  <2>4. ASSUME NEW i \in 1..Len(rest), NEW j \in 1..Len(rest), i < j
        PROVE  upvalue'[rest[i]].localVarPtr > upvalue'[rest[j]].localVarPtr
    <3>1. upvalue[list[n + i]].localVarPtr > upvalue[list[n + j]].localVarPtr
      BY <1>4, <2>1, <2>2, <2>4 DEF InOrder, L
    <3> QED
      BY <1>14, <2>1, <3>1
  <2> QED
    BY <2>3, <2>4 DEF InOrder
<1>16. openUpvalues' \in [Thread -> Seq(Nat)]
  BY <1>1, <1>5, <1>6, <1>t DEF Types
<1> QED
  BY <1>5, <1>9, <1>11, <1>12, <1>13, <1>14, <1>15, <1>16

\* An upvalue is open in one list only, and points at the one slot of its variable.
LEMMA SlotOfUpvalue ==
  ASSUME Inv, NEW u \in DOMAIN upvalue
  PROVE  /\ \A t \in Thread : \A i \in 1..Len(slots[t]) :
              captured[u] = slots[t][i] => u \in Open(t) /\ Ptr(u) = stack[t].base + i - 1
         /\ \A s, t \in Thread : u \in Open(s) /\ u \in Open(t) => s = t
<1>o. OwnVariables /\ OneUpvalueEach
  BY DEF Inv
<1>1. ASSUME NEW t \in Thread, NEW i \in 1..Len(slots[t]), captured[u] = slots[t][i]
      PROVE  u \in Open(t) /\ Ptr(u) = stack[t].base + i - 1
  <2>1. u \in Open(t)
    BY <1>1, <1>o DEF OneUpvalueEach
  <2> DEFINE k == Ptr(u) - stack[t].base + 1
  <2>2. Ptr(u) \in Nat /\ k \in 1..Len(slots[t]) /\ slots[t][k] = captured[u]
    BY <2>1, OpenIsThere
  <2>3. stack[t].base \in Nat
    BY Numbers
  <2> HIDE DEF k
  <2>4. k = i
    BY <1>1, <1>o, <2>2 DEF OwnVariables
  <2>5. i \in Nat
    OBVIOUS
  <2> QED
    BY <2>1, <2>2, <2>3, <2>4, <2>5 DEF k
<1>2. ASSUME NEW s \in Thread, NEW t \in Thread, u \in Open(s), u \in Open(t) PROVE s = t
  <2> DEFINE k == Ptr(u) - stack[t].base + 1
             j == Ptr(u) - stack[s].base + 1
  <2>1. /\ k \in 1..Len(slots[t]) /\ slots[t][k] = captured[u]
        /\ j \in 1..Len(slots[s]) /\ slots[s][j] = captured[u]
    BY <1>2, OpenIsThere
  <2> HIDE DEF k, j
  <2> QED
    BY <1>o, <2>1 DEF OwnVariables
<1> QED
  BY <1>1, <1>2

\* Which upvalues are open after a closing.
LEMMA ClosingOpen ==
  ASSUME Inv, NEW t \in Thread, NEW slot \in Int, CloseUpvalues(t, slot)
  PROVE  /\ \A u \in DOMAIN upvalue :
              /\ IsOpen(u)' <=> IsOpen(u) /\ ~(u \in Open(t) /\ Ptr(u) >= slot)
              /\ ~IsOpen(u)' => Ptr(u)' = Closed /\ upvalue'[u].closedUpvalue \in Value
              /\ ~IsOpen(u) => upvalue'[u] = upvalue[u]
         /\ \A s \in Thread : s # t =>
              \A u \in Open(s) : u \in DOMAIN upvalue /\ u \in Open(s)' /\ upvalue'[u] = upvalue[u]
<1>c. /\ \A s \in Thread : s # t => openUpvalues'[s] = openUpvalues[s]
      /\ \A u \in DOMAIN upvalue : u \in Open(t)' <=> u \in Open(t) /\ Ptr(u) < slot
      /\ \A u \in Open(t) : Ptr(u) >= slot =>
              upvalue'[u] = [localVarPtr |-> Closed, closedUpvalue |-> mem[Ptr(u)]]
      /\ \A u \in DOMAIN upvalue : u \notin Open(t) \/ Ptr(u) < slot => upvalue'[u] = upvalue[u]
  BY Closing
<1>1. \A s \in Thread : s # t => \A u : u \in Open(s)' <=> u \in Open(s)
  BY <1>c DEF Open
<1>2. ASSUME NEW u \in Open(t)
      PROVE  u \in DOMAIN upvalue /\ Ptr(u) \in Int /\ mem[Ptr(u)] \in Value
  BY OpenIsThere, Numbers
<1>3. ASSUME NEW u \in DOMAIN upvalue
      PROVE  IsOpen(u)' <=> IsOpen(u) /\ ~(u \in Open(t) /\ Ptr(u) >= slot)
  <2>1. CASE u \in Open(t)
    <3>1. \A s \in Thread : s # t => u \notin Open(s)
      BY <2>1, SlotOfUpvalue
    <3>2. IsOpen(u)' <=> u \in Open(t)'
      BY <1>1, <3>1 DEF IsOpen
    <3>3. IsOpen(u)
      BY <2>1 DEF IsOpen
    <3>4. Ptr(u) < slot <=> ~(Ptr(u) >= slot)
      BY <1>2, <2>1
    <3> QED
      BY <1>c, <2>1, <3>2, <3>3, <3>4
  <2>2. CASE u \notin Open(t)
    <3>1. u \notin Open(t)'
      BY <1>c, <2>2
    <3>2. IsOpen(u)' <=> IsOpen(u)
      BY <1>1, <2>2, <3>1 DEF IsOpen
    <3> QED
      BY <2>2, <3>2
  <2> QED
    BY <2>1, <2>2
<1>4. ASSUME NEW u \in DOMAIN upvalue, ~IsOpen(u) PROVE upvalue'[u] = upvalue[u]
  BY <1>c, <1>4 DEF IsOpen
<1>5. ASSUME NEW u \in DOMAIN upvalue, ~IsOpen(u)'
      PROVE  Ptr(u)' = Closed /\ upvalue'[u].closedUpvalue \in Value
  <2>1. CASE u \in Open(t) /\ Ptr(u) >= slot
    <3>1. upvalue'[u] = [localVarPtr |-> Closed, closedUpvalue |-> mem[Ptr(u)]] /\ mem[Ptr(u)] \in Value
      BY <1>c, <1>2, <2>1
    <3> QED
      BY <3>1 DEF Ptr
  <2>2. CASE ~(u \in Open(t) /\ Ptr(u) >= slot)
    <3>1. ~IsOpen(u)
      BY <1>3, <1>5, <2>2
    <3>2. upvalue'[u] = upvalue[u]
      BY <1>4, <3>1
    <3> QED
      BY <3>1, <3>2, UpvalueIs DEF Ptr
  <2> QED
    BY <2>1, <2>2
<1>6. ASSUME NEW s \in Thread, s # t, NEW u \in Open(s)
      PROVE  u \in DOMAIN upvalue /\ u \in Open(s)' /\ upvalue'[u] = upvalue[u]
  <2>1. u \in DOMAIN upvalue
    BY <1>6, OpenIsThere
  <2>2. u \notin Open(t)
    BY <1>6, <2>1, SlotOfUpvalue
  <2> QED
    BY <1>1, <1>c, <1>6, <2>1, <2>2
<1> QED
  BY <1>3, <1>4, <1>5, <1>6

\* The running function's frame is the highest one.
LEMMA TopIsHighest ==
  ASSUME Inv, NEW t \in Thread, NEW i \in 1..Len(frames[t])
  PROVE  frames[t] # <<>> /\ frames[t][i].start <= Top(t).start
<1>1. frames[t] # <<>>
  BY Shapes
<1>2. Len(frames[t]) \in Nat \ {0} /\ Top(t) = frames[t][Len(frames[t])]
  BY <1>1, TopFrame
<1>3. FramesFit(t)
  BY DEF Inv
<1>4. CASE i = Len(frames[t])
  BY <1>1, <1>2, <1>4, Shapes
<1>5. CASE i # Len(frames[t])
  <2>1. i < Len(frames[t]) /\ Len(frames[t]) \in 1..Len(frames[t])
    BY <1>2, <1>5
  <2>2. frames[t][i].start < frames[t][Len(frames[t])].start
    BY <1>3, <2>1 DEF FramesFit
  <2>3. frames[t][i].start \in Nat /\ frames[t][Len(frames[t])].start \in Nat
    BY <2>1, Shapes
  <2> QED
    BY <1>1, <1>2, <2>2, <2>3
<1> QED
  BY <1>4, <1>5

\* A step of t that writes to its own stack only leaves the other threads as they are.
LEMMA OthersKept ==
  ASSUME Inv, NEW t \in Thread,
         \A s \in Thread : s # t =>
           /\ stack'[s] = stack[s] /\ frames'[s] = frames[s]
           /\ openUpvalues'[s] = openUpvalues[s] /\ slots'[s] = slots[s],
         DOMAIN upvalue \subseteq DOMAIN upvalue',
         \A s \in Thread : s # t => \A u \in Open(s) : upvalue'[u] = upvalue[u] /\ captured'[u] = captured[u],
         \A a \in Address : a < stack[t].base \/ stack[t].base + stack[t].capacity <= a => mem'[a] = mem[a]
  PROVE  \A s \in Thread : s # t =>
           /\ Untouched(s)
           /\ StackFits(s)' /\ Written(s)' /\ FramesFit(s)' /\ OpenInOrder(s)'
<1> SUFFICES ASSUME NEW s \in Thread, s # t
             PROVE  Untouched(s) /\ StackFits(s)' /\ Written(s)' /\ FramesFit(s)' /\ OpenInOrder(s)'
  OBVIOUS
<1>1. ASSUME NEW a \in stack[s].base..(stack[s].esp - 1) PROVE mem'[a] = mem[a]
  <2>1. /\ a \in Address /\ a \in Int /\ stack[s].base <= a
        /\ a < stack[s].base + stack[s].capacity
    BY Numbers
  <2>2. ~(stack[t].base <= a /\ a < stack[t].base + stack[t].capacity)
    BY <2>1, NotShared
  <2>3. stack[t].base \in Nat /\ stack[t].capacity \in Nat
    BY Numbers
  <2>4. a < stack[t].base \/ stack[t].base + stack[t].capacity <= a
    BY <2>1, <2>2, <2>3
  <2> QED
    BY <2>1, <2>4
<1>2. Untouched(s)
  BY <1>1 DEF Untouched
<1> QED
  BY <1>2, Others

-----------------------------------------------------------------------------
(***************************************************************************)
(* The top of the stack goes: Pop and CloseUpvalue.                        *)
(***************************************************************************)
LEMMA DropStep ==
  ASSUME Inv, NEW t \in Thread, frames[t] # <<>>, Top(t).start < stack[t].esp - 1,
         CloseUpvalues(t, stack[t].esp - 1),
         stack' = [stack EXCEPT ![t].esp = @ - 1], slots' = [slots EXCEPT ![t] = Front(@)],
         mem' = [mem EXCEPT ![stack[t].esp - 1] = Junk], frames' = frames, captured' = captured
  PROVE  Inv' /\ Cells!Next
<1> DEFINE e == stack[t].esp - 1
           b == stack[t].base
           n == e - b
           x == slots[t][n + 1]
<1>t. Types /\ FramesFit(t) /\ OwnVariables /\ OneUpvalueEach
  BY DEF Inv
<1>1. /\ e \in Nat /\ b \in Nat /\ n \in Nat /\ n = e - b /\ b < e /\ e \in Address
      /\ stack[t].esp = e + 1 /\ Len(slots[t]) = n + 1 /\ b = stack[t].base
      /\ stack[t].capacity \in Nat /\ stack[t].capacity # 0 /\ e < b + stack[t].capacity
      /\ Top(t).start < e /\ stack[t].base \in Bases /\ stack[t].capacity <= REGION
  <2>1. /\ Top(t).start \in Nat /\ b <= Top(t).start /\ stack[t].capacity # 0
        /\ stack[t].base \in Bases /\ stack[t].capacity <= REGION
    BY TopFrame
  <2>2. /\ b \in Nat /\ stack[t].esp \in Nat /\ stack[t].capacity \in Nat
        /\ stack[t].esp <= b + stack[t].capacity /\ Len(slots[t]) = stack[t].esp - b
    BY Numbers
  <2>3. e \in Nat /\ b < e /\ e < b + stack[t].capacity
    BY <2>1, <2>2
  <2>4. e \in Address
    BY <2>2, <2>3, Numbers
  <2> QED
    BY <2>1, <2>2, <2>3, <2>4
<1>2. x \in Var /\ x \in LiveVars
  <2>1. n + 1 \in 1..Len(slots[t])
    BY <1>1
  <2> QED
    BY <1>t, <2>1, Shapes, LiveHas
<1>3. /\ \A s \in Thread : s # t => stack'[s] = stack[s] /\ slots'[s] = slots[s]
      /\ stack'[t].base = b /\ stack'[t].capacity = stack[t].capacity /\ stack'[t].esp = e
      /\ slots'[t] \in Seq(Var) /\ Len(slots'[t]) = n /\ \A i \in 1..n : slots'[t][i] = slots[t][i]
  <2>1. /\ \A s \in Thread : s # t => stack'[s] = stack[s] /\ slots'[s] = slots[s]
        /\ stack'[t] = [stack[t] EXCEPT !.esp = @ - 1] /\ slots'[t] = Front(slots[t])
    BY <1>t DEF Types
  <2>2. slots[t] \in Seq(Var) /\ slots[t] # <<>>
    BY <1>1, Shapes
  <2>3. /\ Front(slots[t]) \in Seq(Var) /\ Len(Front(slots[t])) = n
        /\ \A i \in 1..n : Front(slots[t])[i] = slots[t][i]
    <3>1. Len(slots[t]) - 1 = n
      BY <1>1
    <3>2. /\ Front(slots[t]) \in Seq(Var) /\ Len(Front(slots[t])) = Len(slots[t]) - 1
          /\ \A i \in 1..(Len(slots[t]) - 1) : Front(slots[t])[i] = slots[t][i]
      BY <2>2, FrontOf
    <3> HIDE DEF n
    <3> QED
      BY <3>1, <3>2
  <2>4. stack'[t].base = b /\ stack'[t].capacity = stack[t].capacity /\ stack'[t].esp = e
    BY <2>1, Shapes
  <2> QED
    BY <2>1, <2>3, <2>4
<1>4. mem'[e] = Junk /\ \A a \in Address : a # e => mem'[a] = mem[a]
  BY <1>1, <1>t DEF Types
<1>c. /\ openUpvalues' \in [Thread -> Seq(Nat)]
      /\ \A s \in Thread : s # t => openUpvalues'[s] = openUpvalues[s]
      /\ upvalue' \in Seq([localVarPtr : Int, closedUpvalue : Value \union {Junk}])
      /\ DOMAIN upvalue' = DOMAIN upvalue
      /\ \A u \in DOMAIN upvalue : u \in Open(t)' <=> u \in Open(t) /\ Ptr(u) < e
      /\ \A u \in Open(t) : Ptr(u) >= e =>
           upvalue'[u] = [localVarPtr |-> Closed, closedUpvalue |-> mem[Ptr(u)]]
      /\ InOrder(openUpvalues'[t], upvalue', captured, slots[t], stack[t].base, stack[t].esp)
      /\ \A i \in 1..Len(openUpvalues'[t]) : upvalue'[openUpvalues'[t][i]].localVarPtr < e
  <2>1. e \in Int /\ CloseUpvalues(t, e)
    BY <1>1
  <2> HIDE DEF e, b, n, x
  <2> QED
    BY <2>1, Closing
<1>o. /\ \A u \in DOMAIN upvalue :
           /\ IsOpen(u)' <=> IsOpen(u) /\ ~(u \in Open(t) /\ Ptr(u) >= e)
           /\ ~IsOpen(u)' => Ptr(u)' = Closed /\ upvalue'[u].closedUpvalue \in Value
           /\ ~IsOpen(u) => upvalue'[u] = upvalue[u]
      /\ \A s \in Thread : s # t =>
           \A u \in Open(s) : u \in DOMAIN upvalue /\ u \in Open(s)' /\ upvalue'[u] = upvalue[u]
  BY <1>1, ClosingOpen
<1>j. mem' \in [Address -> Value \union {Junk}] /\ stack' \in [Thread -> [base : Nat, capacity : Nat, esp : Nat]]
  <2>1. [stack[t] EXCEPT !.esp = @ - 1] \in [base : Nat, capacity : Nat, esp : Nat]
    <3>1. stack[t] \in [base : Nat, capacity : Nat, esp : Nat] /\ stack[t].esp - 1 \in Nat
      BY <1>1, Shapes
    <3> QED
      BY <3>1
  <2> QED
    BY <1>t, <2>1 DEF Types
<1>s. slots' \in [Thread -> Seq(Var)]
  BY <1>3, <1>t DEF Types
<1> HIDE DEF e, b, n, x
<1>5. Types'
  BY <1>t, <1>c, <1>j, <1>s DEF Types
<1>6. \A s \in Thread : s # t =>
        /\ Untouched(s)
        /\ StackFits(s)' /\ Written(s)' /\ FramesFit(s)' /\ OpenInOrder(s)'
  <2>1. \A a \in Address : a < stack[t].base \/ stack[t].base + stack[t].capacity <= a => mem'[a] = mem[a]
    BY <1>1, <1>4
  <2>2. \A s \in Thread : s # t => \A u \in Open(s) : upvalue'[u] = upvalue[u] /\ captured'[u] = captured[u]
    BY <1>o
  <2>3. \A s \in Thread : s # t =>
           /\ stack'[s] = stack[s] /\ frames'[s] = frames[s]
           /\ openUpvalues'[s] = openUpvalues[s] /\ slots'[s] = slots[s]
    BY <1>3, <1>c
  <2>4. DOMAIN upvalue \subseteq DOMAIN upvalue'
    BY <1>c
  <2> QED
    BY <2>1, <2>2, <2>3, <2>4, OthersKept
<1>7. StackFits(t)'
  BY <1>1, <1>3 DEF StackFits
<1>8. Written(t)'
  <2> SUFFICES ASSUME NEW a \in b..(e - 1) PROVE mem'[a] \in Value
    BY <1>3 DEF Written
  <2>1. a \in stack[t].base..(stack[t].esp - 1) /\ a # e
    BY <1>1
  <2>2. a \in Address /\ mem[a] \in Value
    BY <2>1, Numbers
  <2> QED
    BY <1>4, <2>1, <2>2
<1>9. FramesFit(t)'
  <2>1. Closures' = Closures
    BY <1>c DEF Closures
  <2>2. \A i \in 1..Len(frames[t]) : frames[t][i].start < e
    <3> SUFFICES ASSUME NEW i \in 1..Len(frames[t]) PROVE frames[t][i].start < e
      OBVIOUS
    <3>1. frames[t][i].start <= Top(t).start /\ frames[t][i].start \in Nat /\ Top(t).start \in Nat
      BY TopIsHighest, TopFrame, Shapes
    <3> QED
      BY <1>1, <3>1
  <2>3. stack'[t].base = stack[t].base /\ stack'[t].capacity = stack[t].capacity
    BY <1>1, <1>3
  <2>4. \A i \in 1..Len(frames[t]) :
          /\ frames[t][i].closure \in Closures
          /\ stack[t].base <= frames[t][i].start
          /\ frames[t][i].start + frames[t][i].need <= stack[t].base + stack[t].capacity
    BY <1>t DEF FramesFit
  <2>5. /\ \A i, j \in 1..Len(frames[t]) : i < j => frames[t][i].start < frames[t][j].start
        /\ frames[t][1].start = stack[t].base
    BY <1>t DEF FramesFit
  <2> QED
    BY <1>3, <2>1, <2>2, <2>3, <2>4, <2>5 DEF FramesFit
<1>10. OpenInOrder(t)'
  <2>1. \A k \in 1..(stack[t].esp - b) : k <= e - b => slots'[t][k] = slots[t][k]
    BY <1>1, <1>3
  <2>2. b \in Int /\ e \in Int /\ stack[t].esp \in Int
    BY <1>1
  <2>3. InOrder(openUpvalues'[t], upvalue', captured, slots[t], b, stack[t].esp)
    BY <1>1, <1>c
  <2>4. InOrder(openUpvalues'[t], upvalue', captured, slots'[t], b, e)
    <3>1. \A i \in 1..Len(openUpvalues'[t]) : upvalue'[openUpvalues'[t][i]].localVarPtr < e
      BY <1>c
    <3> QED
      BY <2>1, <2>2, <2>3, <3>1, InOrderKept
  <2> QED
    BY <1>3, <2>4 DEF OpenInOrder
<1>11. Apart'
  <2>1. \A s \in Thread : stack'[s].base = stack[s].base /\ stack'[s].capacity = stack[s].capacity
    BY <1>1, <1>3
  <2> QED
    BY <2>1 DEF Inv, Apart
<1>k. ASSUME NEW s \in Thread, NEW i \in 1..Len(slots'[s])
      PROVE  i \in 1..Len(slots[s]) /\ slots'[s][i] = slots[s][i] /\ (s = t => i # n + 1)
  <2>1. CASE s = t
    <3>1. i \in 1..n
      BY <1>3, <2>1
    <3>2. i \in 1..(n + 1) /\ i # n + 1
      BY <1>1, <3>1
    <3> QED
      BY <1>1, <1>3, <2>1, <3>1, <3>2
  <2>2. CASE s # t
    BY <1>3, <2>2
  <2> QED
    BY <2>1, <2>2
<1>12. OwnVariables'
  <2>1. ASSUME NEW s \in Thread PROVE Len(slots'[s]) = stack'[s].esp - stack'[s].base
    <3>1. CASE s = t
      BY <1>1, <1>3, <3>1
    <3>2. CASE s # t
      BY <1>3, <3>2, Numbers
    <3> QED
      BY <3>1, <3>2
  <2>2. \A s, r \in Thread : \A i \in 1..Len(slots'[s]), j \in 1..Len(slots'[r]) :
          slots'[s][i] = slots'[r][j] => s = r /\ i = j
    BY <1>k, <1>t DEF OwnVariables
  <2>3. \A s \in Thread : Len(slots'[s]) = Size(s)'
    BY <2>1 DEF Size
  <2> QED
    BY <2>2, <2>3 DEF OwnVariables

<1>13. OneUpvalueEach'
  <2>1. ASSUME NEW s \in Thread, NEW i \in 1..Len(slots'[s]), NEW u \in DOMAIN upvalue,
               captured[u] = slots'[s][i]
        PROVE  u \in Open(s)'
    <3>1. i \in 1..Len(slots[s]) /\ captured[u] = slots[s][i]
      BY <1>k, <2>1
    <3>2. u \in Open(s) /\ Ptr(u) = stack[s].base + i - 1
      BY <2>1, <3>1, SlotOfUpvalue
    <3>3. CASE s = t
      <4>1. i \in 1..n
        BY <1>3, <2>1, <3>3
      <4>2. Ptr(u) < e
        BY <1>1, <3>2, <3>3, <4>1
      <4> QED
        BY <1>c, <3>2, <3>3, <4>2
    <3>4. CASE s # t
      BY <1>o, <3>2, <3>4
    <3> QED
      BY <3>3, <3>4
  <2>2. \A u, w \in DOMAIN upvalue : captured[u] = captured[w] => u = w
    BY <1>t DEF OneUpvalueEach
  <2> QED
    BY <1>c, <1>o, <2>1, <2>2 DEF OneUpvalueEach
<1>14. Inv'
  <2>1. \A s \in Thread : StackFits(s)' /\ Written(s)' /\ FramesFit(s)' /\ OpenInOrder(s)'
    BY <1>6, <1>7, <1>8, <1>9, <1>10
  <2> QED
    BY <1>5, <1>11, <1>12, <1>13, <2>1 DEF Inv
<1>15. PICK gone \in SUBSET LiveVars :
         \A y \in LiveVars : y \in gone <=> y = x /\ \A u \in DOMAIN upvalue : captured[u] # y
  <2> DEFINE g == {y \in LiveVars : y = x /\ \A u \in DOMAIN upvalue : captured[u] # y}
  <2>1. g \in SUBSET LiveVars
          /\ \A y \in LiveVars : y \in g <=> y = x /\ \A u \in DOMAIN upvalue : captured[u] # y
    OBVIOUS
  <2> QED
    BY <2>1
<1>16. Loses(gone)
  <2>1. ASSUME NEW y \in Var, NEW w \in Value, Holds(y, w), y \notin gone PROVE Holds(y, w)'
    <3>1. ASSUME NEW s \in Thread, NEW i \in 1..Len(slots[s]),
                 y = slots[s][i], w = mem[stack[s].base + i - 1]
          PROVE  Holds(y, w)'
      <4>1. CASE s = t /\ i = n + 1
        <5>1. y = x /\ y \in LiveVars
          BY <1>2, <3>1, <4>1 DEF x
        <5>2. PICK u \in DOMAIN upvalue : captured[u] = y
          BY <1>15, <2>1, <5>1
        <5>3. u \in Open(t) /\ Ptr(u) = stack[t].base + (n + 1) - 1
          BY <3>1, <4>1, <5>2, SlotOfUpvalue
        <5>4. Ptr(u) = e /\ Ptr(u) >= e
          BY <1>1, <5>3
        <5>5. ~IsOpen(u)' /\ upvalue'[u] = [localVarPtr |-> Closed, closedUpvalue |-> mem[e]]
          BY <1>c, <1>o, <5>3, <5>4
        <5>6. w = mem[e]
          BY <3>1, <4>1, <5>3, <5>4
        <5> QED
          BY <1>c, <5>2, <5>5, <5>6 DEF Holds
      <4>2. CASE ~(s = t /\ i = n + 1)
        <5>1. i \in 1..Len(slots'[s]) /\ slots'[s][i] = slots[s][i]
          <6>1. CASE s = t
            <7>1. i \in 1..(n + 1) /\ i # n + 1
              BY <1>1, <3>1, <4>2, <6>1
            <7>2. i \in 1..n
              BY <1>1, <7>1
            <7> QED
              BY <1>3, <6>1, <7>2
          <6>2. CASE s # t
            BY <1>3, <3>1, <6>2
          <6> QED
            BY <6>1, <6>2
        <5>2. stack[s].base + i - 1 \in stack[s].base..(stack[s].esp - 1)
              /\ stack'[s].base = stack[s].base
          <6>1. stack'[s].base = stack[s].base
            BY <1>1, <1>3
          <6>2. /\ stack[s].base \in Nat /\ stack[s].esp \in Nat
                /\ Len(slots[s]) = stack[s].esp - stack[s].base
            BY Numbers
          <6>3. i \in Nat /\ 1 <= i /\ i <= Len(slots[s])
            BY <6>2
          <6> QED
            BY <6>1, <6>2, <6>3
        <5>3. mem'[stack[s].base + i - 1] = mem[stack[s].base + i - 1]
          <6>1. CASE s = t
            <7>1. b + i - 1 \in Address
              BY <1>1, <5>2, <6>1, Numbers
            <7>2. b + i - 1 # e
              BY <1>1, <4>2, <5>2, <6>1
            <7> QED
              BY <1>1, <1>4, <6>1, <7>1, <7>2
          <6>2. CASE s # t
            BY <1>6, <5>2, <6>2 DEF Untouched
          <6> QED
            BY <6>1, <6>2
        <5> QED
          BY <3>1, <5>1, <5>2, <5>3 DEF Holds
      <4> QED
        BY <4>1, <4>2
    <3>2. ASSUME NEW u \in DOMAIN upvalue, ~IsOpen(u), y = captured[u], w = upvalue[u].closedUpvalue
          PROVE  Holds(y, w)'
      <4>1. ~IsOpen(u)' /\ upvalue'[u] = upvalue[u] /\ u \in DOMAIN upvalue'
        BY <1>c, <1>o, <3>2
      <4> QED
        BY <3>2, <4>1 DEF Holds
    <3> QED
      BY <2>1, <3>1, <3>2 DEF Holds
  <2>2. ASSUME NEW y, y \in LiveVars' PROVE y \in LiveVars \ gone
    <3>1. \/ \E s \in Thread : \E i \in 1..Len(slots'[s]) : y = slots'[s][i]
          \/ \E u \in DOMAIN upvalue' : y = captured'[u]
      BY <1>5, <2>2, LiveInNext
    <3>2. CASE \E u \in DOMAIN upvalue' : y = captured'[u]
      <4>1. PICK u \in DOMAIN upvalue : y = captured[u]
        BY <1>c, <3>2
      <4>2. y \in LiveVars
        BY <1>t, <4>1, LiveHas
      <4> QED
        BY <1>15, <4>1, <4>2
    <3>3. CASE \E s \in Thread : \E i \in 1..Len(slots'[s]) : y = slots'[s][i]
      <4>1. PICK s \in Thread : \E i \in 1..Len(slots'[s]) : y = slots'[s][i]
        BY <3>3
      <4>2. PICK i \in 1..Len(slots'[s]) : y = slots'[s][i]
        BY <4>1
      <4>3. i \in 1..Len(slots[s]) /\ y = slots[s][i] /\ (s = t => i # n + 1)
        BY <1>k, <4>2
      <4>4. y \in LiveVars
        BY <1>t, <4>3, LiveHas
      <4>5. n + 1 \in 1..Len(slots[t]) /\ x = slots[t][n + 1]
        BY <1>1 DEF x
      <4>6. y # x
        BY <1>t, <4>3, <4>5 DEF OwnVariables
      <4> QED
        BY <1>15, <4>4, <4>6
    <3> QED
      BY <3>1, <3>2, <3>3
  <2> QED
    BY <2>1, <2>2 DEF Loses
<1> QED
  BY <1>14, <1>15, <1>16, MapsToForget

LEMMA CloseUpvalueStep ==
  ASSUME Inv, NEW t \in Thread, CloseUpvalue(t)
  PROVE  Inv' /\ Cells!Next
<1>1. /\ frames[t] # <<>> /\ Top(t).start < stack[t].esp - 1
      /\ CloseUpvalues(t, stack[t].esp - 1)
      /\ stack' = [stack EXCEPT ![t].esp = @ - 1] /\ slots' = [slots EXCEPT ![t] = Front(@)]
      /\ mem' = [mem EXCEPT ![stack[t].esp - 1] = Junk] /\ frames' = frames /\ captured' = captured
  BY DEF CloseUpvalue
<1> QED
  BY <1>1, DropStep

\* Nothing is open at the top of the stack: popping it closes nothing.
LEMMA PlainClosesNothing ==
  ASSUME Inv, NEW t \in Thread, TopIsPlain(t), openUpvalues' = openUpvalues, upvalue' = upvalue
  PROVE  CloseUpvalues(t, stack[t].esp - 1)
<1> DEFINE e == stack[t].esp - 1
           list == openUpvalues[t]
           n == ToClose(t, e)
<1>1. e \in Int /\ stack[t].esp \in Nat
  BY Numbers
<1>2. list \in Seq(Nat) /\ Len(list) \in Nat
  BY Shapes
<1>3. n = 0
  <2>1. n \in 0..Len(list) /\ \A i \in 1..n : Ptr(list[i]) >= e
    BY <1>1, ToCloseIs
  <2>2. ASSUME 1 \in 1..n PROVE FALSE
    <3>1. 1 \in 1..Len(list) /\ Ptr(list[1]) >= e
      BY <1>2, <2>1, <2>2
    <3>2. list[1] \in Open(t)
      BY <3>1, OpenOf DEF Inv
    <3>3. Ptr(list[1]) \in stack[t].base..(stack[t].esp - 1)
      BY <3>2, OpenIsThere
    <3>4. Ptr(list[1]) = stack[t].esp - 1
      BY <1>1, <3>1, <3>3
    <3> QED
      BY <3>2, <3>4 DEF TopIsPlain, Open, Ptr
  <2> QED
    BY <1>2, <2>1, <2>2
<1>4. SubSeq(list, 1, 0) = <<>> /\ SubSeq(list, 1, Len(list)) = list
  BY <1>2
<1>5. ToSet(SubSeq(list, 1, 0)) = {}
  BY <1>4 DEF ToSet
<1> HIDE DEF n, e
<1>6. openUpvalues' = [openUpvalues EXCEPT ![t] = SubSeq(@, n + 1, Len(@))]
  <2>1. openUpvalues \in [Thread -> Seq(Nat)]
    BY DEF Inv, Types
  <2> QED
    BY <1>3, <1>4, <2>1
<1>7. upvalue' = [u \in DOMAIN upvalue |->
                    IF u \in ToSet(SubSeq(list, 1, n))
                    THEN [localVarPtr |-> Closed, closedUpvalue |-> mem[upvalue[u].localVarPtr]]
                    ELSE upvalue[u]]
  <2>1. upvalue = [u \in DOMAIN upvalue |-> upvalue[u]]
    BY DEF Inv, Types
  <2> QED
    BY <1>3, <1>5, <2>1
<1> QED
  BY <1>6, <1>7 DEF CloseUpvalues, n, e

LEMMA PopStep ==
  ASSUME Inv, NEW t \in Thread, Pop(t)
  PROVE  Inv' /\ Cells!Next
<1>1. /\ TopIsPlain(t)
      /\ stack' = [stack EXCEPT ![t].esp = @ - 1] /\ slots' = [slots EXCEPT ![t] = Front(@)]
      /\ mem' = [mem EXCEPT ![stack[t].esp - 1] = Junk] /\ frames' = frames /\ captured' = captured
      /\ openUpvalues' = openUpvalues /\ upvalue' = upvalue
  BY DEF Pop
<1>2. frames[t] # <<>> /\ Top(t).start < stack[t].esp - 1
  BY <1>1 DEF TopIsPlain
<1>3. CloseUpvalues(t, stack[t].esp - 1)
  BY <1>1, PlainClosesNothing
<1> QED
  BY <1>1, <1>2, <1>3, DropStep

-----------------------------------------------------------------------------
(***************************************************************************)
(* Returning.  The variables of the function that nothing captured go, and *)
(* the result is a new one.                                                *)
(***************************************************************************)
LEMMA ReturnStep ==
  ASSUME Inv, NEW t \in Thread, Return(t)
  PROVE  Inv' /\ Cells!Next
<1> DEFINE b == stack[t].base
           e == stack[t].esp
           p == Top(t).start
           m == p - b
           list == slots[t]
           below == SubSeq(list, 1, m)
           gone == (ToSet(list) \ ToSet(below)) \ ToSet(captured)
           x == Fresh(LiveVars \ gone)
           v == mem[e - 1]
<1>t. Types /\ OwnVariables /\ OneUpvalueEach /\ FramesFit(t)
  BY DEF Inv
<1>0. TopIsPlain(t) /\ frames[t] # <<>> /\ p < e - 1
  BY DEF Return, TopIsPlain
<1>1. /\ b \in Nat /\ e \in Nat /\ p \in Nat /\ m \in Nat /\ b <= p /\ p + 1 < e
      /\ m + 1 < Len(list) /\ Len(list) = e - b /\ Len(list) \in Nat
      /\ stack[t].capacity \in Nat /\ stack[t].capacity # 0 /\ e <= b + stack[t].capacity
      /\ b \in Bases /\ stack[t].capacity <= REGION /\ p \in Address /\ e - 1 \in Address
      /\ v \in Value
  <2>1. /\ p \in Nat /\ b <= p /\ stack[t].capacity # 0
        /\ b \in Bases /\ stack[t].capacity <= REGION
    BY <1>0, TopFrame
  <2>2. /\ b \in Nat /\ e \in Nat /\ stack[t].capacity \in Nat
        /\ e <= b + stack[t].capacity /\ Len(list) = e - b /\ Len(list) \in Nat
    BY Numbers
  <2>3. p \in b..(e - 1) /\ e - 1 \in b..(e - 1)
    BY <1>0, <2>1, <2>2
  <2>4. p \in Address /\ e - 1 \in Address /\ v \in Value
    BY <2>3, Numbers
  <2> QED
    BY <1>0, <2>1, <2>2, <2>4
<1>2. (IF Len(frames[t]) = 1 THEN b ELSE p) = p
  BY <1>0, <1>t, TopFrame DEF FramesFit
<1>3. /\ CloseUpvalues(t, p) /\ frames' = [frames EXCEPT ![t] = Front(@)]
      /\ mem' = [a \in Address |-> IF a = p THEN v ELSE IF p < a /\ a < e THEN Junk ELSE mem[a]]
      /\ stack' = [stack EXCEPT ![t].esp = p + 1]
      /\ slots' = [slots EXCEPT ![t] = Append(below, x)]
      /\ captured' = captured
  BY <1>2 DEF Return
<1>4. /\ list \in Seq(Var) /\ below \in Seq(Var) /\ Len(below) = m
      /\ \A i \in 1..m : below[i] = list[i]
  BY <1>1, Shapes
<1>5. /\ \A y : y \in ToSet(list) <=> \E i \in 1..Len(list) : y = list[i]
      /\ \A y : y \in ToSet(below) <=> \E i \in 1..m : y = list[i]
      /\ \A y : y \in ToSet(captured) <=> \E u \in DOMAIN upvalue : y = captured[u]
  <2>1. \A y : y \in ToSet(list) <=> \E i \in 1..Len(list) : y = list[i]
    BY <1>4, ToSetOf
  <2> HIDE DEF below, m
  <2>2. \A y : y \in ToSet(below) <=> \E i \in 1..m : y = below[i]
    <3>1. \A y : y \in ToSet(below) <=> \E i \in 1..Len(below) : y = below[i]
      BY <1>4, ToSetOf
    <3> QED
      BY <1>4, <3>1
  <2>3. \A y : y \in ToSet(captured) <=> \E u \in DOMAIN captured : y = captured[u]
    BY <1>t DEF Types, ToSet
  <2>4. DOMAIN captured = DOMAIN upvalue
    BY <1>t DEF Types
  <2> QED
    BY <1>4, <2>1, <2>2, <2>3, <2>4
<1>6. \A y : y \in gone <=> /\ \E i \in 1..Len(list) : y = list[i]
                            /\ ~\E i \in 1..m : y = list[i]
                            /\ ~\E u \in DOMAIN upvalue : y = captured[u]
  <2> HIDE DEF below, m, list
  <2> QED
    BY <1>5
<1> HIDE DEF b, e, p, m, below, gone, x, v
<1>7. gone \subseteq LiveVars
  BY <1>6, <1>t, LiveHas DEF list
<1>8. ASSUME NEW i \in 1..Len(list), NEW u \in DOMAIN upvalue, captured[u] = list[i]
      PROVE  u \in Open(t) /\ Ptr(u) = b + i - 1
  BY <1>8, SlotOfUpvalue DEF b, list
<1> DEFINE top == list[Len(list)]
<1>9. top \in gone /\ top \in Var
  <2>1. Len(list) \in 1..Len(list)
    BY <1>1
  <2>2. ASSUME NEW i \in 1..m PROVE top # list[i]
    <3>1. i \in 1..Len(list) /\ i # Len(list)
      BY <1>1
    <3> QED
      BY <1>t, <2>1, <3>1 DEF OwnVariables
  <2>3. ASSUME NEW u \in DOMAIN upvalue, top = captured[u] PROVE FALSE
    <3>1. u \in Open(t) /\ Ptr(u) = b + Len(list) - 1
      BY <1>8, <2>1, <2>3
    <3>2. Ptr(u) = e - 1
      BY <1>1, <3>1
    <3> QED
      BY <1>0, <3>1, <3>2 DEF TopIsPlain, Open, Ptr, e
  <2>4. top \in Var
    BY <2>1, Shapes
  <2> QED
    BY <1>6, <2>1, <2>2, <2>3, <2>4
<1>10. x \in Var /\ x \notin LiveVars \ gone
  <2>1. Var \ (LiveVars \ gone) # {}
    BY <1>9
  <2> QED
    BY <2>1, FreshIsNew DEF x
<1>11. /\ \A s \in Thread : s # t => stack'[s] = stack[s] /\ slots'[s] = slots[s] /\ frames'[s] = frames[s]
       /\ stack'[t].base = b /\ stack'[t].capacity = stack[t].capacity /\ stack'[t].esp = p + 1
       /\ slots'[t] \in Seq(Var) /\ Len(slots'[t]) = m + 1
       /\ \A i \in 1..m : slots'[t][i] = list[i]
       /\ slots'[t][m + 1] = x
  <2>1. /\ \A s \in Thread : s # t => stack'[s] = stack[s] /\ slots'[s] = slots[s] /\ frames'[s] = frames[s]
        /\ stack'[t] = [stack[t] EXCEPT !.esp = p + 1] /\ slots'[t] = Append(below, x)
    BY <1>3, <1>t DEF Types
  <2>2. below \in Seq(Var) /\ Len(below) = m /\ \A i \in 1..m : below[i] = list[i]
    BY <1>4 DEF below
  <2>3. /\ Append(below, x) \in Seq(Var) /\ Len(Append(below, x)) = m + 1
        /\ \A i \in 1..m : Append(below, x)[i] = list[i]
        /\ Append(below, x)[m + 1] = x
    BY <1>1, <1>10, <2>2
  <2>4. stack'[t].base = b /\ stack'[t].capacity = stack[t].capacity /\ stack'[t].esp = p + 1
    BY <2>1, Shapes DEF b
  <2> QED
    BY <2>1, <2>3, <2>4
<1>12. /\ mem'[p] = v
       /\ \A a \in Address : a < p \/ e <= a => mem'[a] = mem[a]
       /\ mem' \in [Address -> Value \union {Junk}]
  <2>1. mem'[p] = v
    BY <1>1, <1>3
  <2>2. \A a \in Address : a < p \/ e <= a => mem'[a] = mem[a]
    <3> SUFFICES ASSUME NEW a \in Address, a < p \/ e <= a PROVE mem'[a] = mem[a]
      OBVIOUS
    <3>1. a \in Int
      BY DEF Address
    <3>2. a # p /\ ~(p < a /\ a < e)
      BY <1>1, <3>1
    <3> QED
      BY <1>3, <3>2
  <2>3. mem' \in [Address -> Value \union {Junk}]
    <3>1. mem \in [Address -> Value \union {Junk}]
      BY <1>t DEF Types
    <3> QED
      BY <1>1, <1>3, <3>1
  <2> QED
    BY <2>1, <2>2, <2>3

<1>c. /\ openUpvalues' \in [Thread -> Seq(Nat)]
      /\ \A s \in Thread : s # t => openUpvalues'[s] = openUpvalues[s]
      /\ upvalue' \in Seq([localVarPtr : Int, closedUpvalue : Value \union {Junk}])
      /\ DOMAIN upvalue' = DOMAIN upvalue
      /\ \A u \in DOMAIN upvalue : u \in Open(t)' <=> u \in Open(t) /\ Ptr(u) < p
      /\ \A u \in Open(t) : Ptr(u) >= p =>
           upvalue'[u] = [localVarPtr |-> Closed, closedUpvalue |-> mem[Ptr(u)]]
      /\ InOrder(openUpvalues'[t], upvalue', captured, list, b, e)
      /\ \A i \in 1..Len(openUpvalues'[t]) : upvalue'[openUpvalues'[t][i]].localVarPtr < p
  <2>1. p \in Int /\ CloseUpvalues(t, p)
    BY <1>1, <1>3
  <2> QED
    BY <2>1, Closing DEF b, e
<1>o. /\ \A u \in DOMAIN upvalue :
           /\ IsOpen(u)' <=> IsOpen(u) /\ ~(u \in Open(t) /\ Ptr(u) >= p)
           /\ ~IsOpen(u)' => Ptr(u)' = Closed /\ upvalue'[u].closedUpvalue \in Value
           /\ ~IsOpen(u) => upvalue'[u] = upvalue[u]
      /\ \A s \in Thread : s # t =>
           \A u \in Open(s) : u \in DOMAIN upvalue /\ u \in Open(s)' /\ upvalue'[u] = upvalue[u]
  <2>1. p \in Int /\ CloseUpvalues(t, p)
    BY <1>1, <1>3
  <2> QED
    BY <2>1, ClosingOpen
<1>13. stack' \in [Thread -> [base : Nat, capacity : Nat, esp : Nat]]
  <2>1. stack[t] \in [base : Nat, capacity : Nat, esp : Nat] /\ p + 1 \in Nat
    BY <1>1, Shapes
  <2>2. [stack[t] EXCEPT !.esp = p + 1] \in [base : Nat, capacity : Nat, esp : Nat]
    BY <2>1
  <2> QED
    BY <1>3, <1>t, <2>2 DEF Types
<1>14. slots' \in [Thread -> Seq(Var)]
  BY <1>3, <1>11, <1>t DEF Types
<1>15. /\ frames'[t] \in Seq([start : Nat, need : Needs, closure : Nat])
       /\ frames' \in [Thread -> Seq([start : Nat, need : Needs, closure : Nat])]
       /\ Len(frames'[t]) = Len(frames[t]) - 1 /\ Len(frames[t]) \in Nat \ {0}
       /\ \A i \in 1..Len(frames'[t]) : frames'[t][i] = frames[t][i] /\ frames[t][i].start < p
  <2>1. frames[t] \in Seq([start : Nat, need : Needs, closure : Nat])
    BY Shapes
  <2>2. /\ Front(frames[t]) \in Seq([start : Nat, need : Needs, closure : Nat])
        /\ Len(Front(frames[t])) = Len(frames[t]) - 1 /\ Len(frames[t]) \in Nat \ {0}
        /\ \A i \in 1..(Len(frames[t]) - 1) : Front(frames[t])[i] = frames[t][i]
    BY <1>0, <2>1, FrontOf
  <2>3. frames'[t] = Front(frames[t])
    BY <1>3, <1>t DEF Types
  <2>4. Top(t) = frames[t][Len(frames[t])]
    BY <1>0, TopFrame
  <2>5. ASSUME NEW i \in 1..(Len(frames[t]) - 1) PROVE frames[t][i].start < p
    <3>1. i \in 1..Len(frames[t]) /\ Len(frames[t]) \in 1..Len(frames[t]) /\ i < Len(frames[t])
      BY <2>2
    <3> QED
      BY <1>t, <2>4, <3>1 DEF FramesFit, p
  <2>6. frames' \in [Thread -> Seq([start : Nat, need : Needs, closure : Nat])]
    BY <1>3, <1>t, <2>2 DEF Types
  <2> QED
    BY <2>2, <2>3, <2>5, <2>6
<1>16. Types'
  BY <1>t, <1>3, <1>c, <1>12, <1>13, <1>14, <1>15 DEF Types
<1>17. \A s \in Thread : s # t =>
         /\ Untouched(s)
         /\ StackFits(s)' /\ Written(s)' /\ FramesFit(s)' /\ OpenInOrder(s)'
  <2>1. \A a \in Address : a < stack[t].base \/ stack[t].base + stack[t].capacity <= a => mem'[a] = mem[a]
    <3> SUFFICES ASSUME NEW a \in Address, a < b \/ b + stack[t].capacity <= a PROVE mem'[a] = mem[a]
      BY DEF b
    <3>1. a \in Int
      BY DEF Address
    <3>2. a < p \/ e <= a
      BY <1>1, <3>1
    <3> QED
      BY <1>12, <3>2
  <2>2. \A s \in Thread : s # t => \A u \in Open(s) : upvalue'[u] = upvalue[u] /\ captured'[u] = captured[u]
    BY <1>3, <1>o
  <2>3. \A s \in Thread : s # t =>
           /\ stack'[s] = stack[s] /\ frames'[s] = frames[s]
           /\ openUpvalues'[s] = openUpvalues[s] /\ slots'[s] = slots[s]
    BY <1>11, <1>c
  <2>4. DOMAIN upvalue \subseteq DOMAIN upvalue'
    BY <1>c
  <2> QED
    BY <2>1, <2>2, <2>3, <2>4, OthersKept
<1>18. StackFits(t)'
  BY <1>1, <1>11 DEF StackFits
<1>19. Written(t)'
  <2> SUFFICES ASSUME NEW a \in b..p PROVE mem'[a] \in Value
    <3>1. stack'[t].esp - 1 = p
      BY <1>1, <1>11
    <3> QED
      BY <1>11, <3>1 DEF Written
  <2>1. CASE a = p
    BY <1>1, <1>12, <2>1
  <2>2. CASE a # p
    <3>1. a \in b..(e - 1) /\ a < p
      BY <1>1, <2>2
    <3>2. a \in Address /\ mem[a] \in Value
      BY <3>1, Numbers DEF b, e
    <3> QED
      BY <1>12, <3>1, <3>2
  <2> QED
    BY <2>1, <2>2
<1>20. FramesFit(t)'
  <2>1. Closures' = Closures
    BY <1>c DEF Closures
  <2>2. \A i \in 1..Len(frames'[t]) :
          /\ i \in 1..Len(frames[t]) /\ frames'[t][i] = frames[t][i]
          /\ frames[t][i].start \in Nat /\ frames[t][i].start < p + 1
    <3> SUFFICES ASSUME NEW i \in 1..Len(frames'[t])
                 PROVE  /\ i \in 1..Len(frames[t]) /\ frames'[t][i] = frames[t][i]
                        /\ frames[t][i].start \in Nat /\ frames[t][i].start < p + 1
      OBVIOUS
    <3>1. i \in 1..Len(frames[t])
      BY <1>15
    <3>2. frames[t][i].start \in Nat
      BY <3>1, Shapes
    <3>3. frames'[t][i] = frames[t][i] /\ frames[t][i].start < p
      BY <1>15
    <3>4. frames[t][i].start < p + 1
      BY <1>1, <3>2, <3>3
    <3> QED
      BY <3>1, <3>2, <3>3, <3>4
  <2>3. \A i \in 1..Len(frames[t]) :
          /\ frames[t][i].closure \in Closures
          /\ b <= frames[t][i].start
          /\ frames[t][i].start + frames[t][i].need <= b + stack[t].capacity
    BY <1>t DEF FramesFit, b
  <2>4. /\ \A i, j \in 1..Len(frames[t]) : i < j => frames[t][i].start < frames[t][j].start
        /\ frames[t][1].start = b
    BY <1>0, <1>t DEF FramesFit, b
  <2>5. frames'[t] # <<>> => 1 \in 1..Len(frames'[t])
    BY <1>15
  <2> QED
    BY <1>11, <2>1, <2>2, <2>3, <2>4, <2>5 DEF FramesFit
<1>21. OpenInOrder(t)'
  <2>1. \A k \in 1..(e - b) : k <= p - b => slots'[t][k] = list[k]
    BY <1>1, <1>11 DEF m
  <2>2. b \in Int /\ e \in Int /\ p \in Int /\ p + 1 \in Int
    BY <1>1
  <2>3. InOrder(openUpvalues'[t], upvalue', captured, slots'[t], b, p)
    BY <1>c, <2>1, <2>2, InOrderKept
  <2>4. b..(p - 1) \subseteq b..(p + 1 - 1)
    BY <2>2
  <2>5. InOrder(openUpvalues'[t], upvalue', captured, slots'[t], b, p + 1)
    BY <2>2, <2>3, <2>4, InOrderWidens
  <2> QED
    BY <1>3, <1>11, <2>5 DEF OpenInOrder
<1>22. Apart'
  <2>1. \A s \in Thread : stack'[s].base = stack[s].base /\ stack'[s].capacity = stack[s].capacity
    BY <1>11 DEF b
  <2> QED
    BY <2>1 DEF Inv, Apart

<1>k. ASSUME NEW s \in Thread, NEW i \in 1..Len(slots'[s]), ~(s = t /\ i = m + 1)
      PROVE  /\ i \in 1..Len(slots[s]) /\ slots'[s][i] = slots[s][i] /\ (s = t => i \in 1..m)
             /\ slots[s][i] \in LiveVars \ gone
  <2>1. CASE s = t
    <3>1. i \in 1..m /\ i \in 1..Len(list)
      BY <1>1, <1>11, <1>k, <2>1
    <3>2. list[i] \notin gone
      BY <1>6, <3>1
    <3>3. list[i] \in LiveVars
      BY <1>t, <3>1, LiveHas DEF list
    <3> QED
      BY <1>11, <2>1, <3>1, <3>2, <3>3 DEF list
  <2>2. CASE s # t
    <3>1. i \in 1..Len(slots[s]) /\ slots'[s][i] = slots[s][i]
      BY <1>11, <2>2
    <3>2. slots[s][i] \in LiveVars
      BY <1>t, <3>1, LiveHas
    <3>3. slots[s][i] \notin gone
      <4> SUFFICES ASSUME slots[s][i] \in gone PROVE FALSE
        OBVIOUS
      <4>1. PICK j \in 1..Len(list) : slots[s][i] = list[j]
        BY <1>6
      <4> QED
        BY <1>t, <2>2, <3>1, <4>1 DEF OwnVariables, list
    <3> QED
      BY <2>2, <3>1, <3>2, <3>3
  <2> QED
    BY <2>1, <2>2
<1>23. OwnVariables'
  <2>1. ASSUME NEW s \in Thread PROVE Len(slots'[s]) = stack'[s].esp - stack'[s].base
    <3>1. CASE s = t
      BY <1>1, <1>11, <3>1 DEF m
    <3>2. CASE s # t
      BY <1>11, <3>2, Numbers
    <3> QED
      BY <3>1, <3>2
  <2>2. ASSUME NEW s \in Thread, NEW r \in Thread,
               NEW i \in 1..Len(slots'[s]), NEW j \in 1..Len(slots'[r]),
               slots'[s][i] = slots'[r][j]
        PROVE  s = r /\ i = j
    <3>1. CASE s = t /\ i = m + 1
      <4>1. slots'[s][i] = x
        BY <1>11, <3>1
      <4>2. r = t /\ j = m + 1
        <5> SUFFICES ASSUME ~(r = t /\ j = m + 1) PROVE FALSE
          OBVIOUS
        <5>1. slots'[r][j] \in LiveVars \ gone
          BY <1>k
        <5> QED
          BY <1>10, <2>2, <4>1, <5>1
      <4> QED
        BY <3>1, <4>2
    <3>2. CASE r = t /\ j = m + 1
      <4>1. slots'[r][j] = x
        BY <1>11, <3>2
      <4>2. s = t /\ i = m + 1
        <5> SUFFICES ASSUME ~(s = t /\ i = m + 1) PROVE FALSE
          OBVIOUS
        <5>1. slots'[s][i] \in LiveVars \ gone
          BY <1>k
        <5> QED
          BY <1>10, <2>2, <4>1, <5>1
      <4> QED
        BY <3>2, <4>2
    <3>3. CASE ~(s = t /\ i = m + 1) /\ ~(r = t /\ j = m + 1)
      <4>1. i \in 1..Len(slots[s]) /\ slots'[s][i] = slots[s][i]
        BY <1>k, <3>3
      <4>2. j \in 1..Len(slots[r]) /\ slots'[r][j] = slots[r][j]
        BY <1>k, <3>3
      <4>3. slots[s][i] = slots[r][j]
        BY <2>2, <4>1, <4>2
      <4> QED
        BY <1>t, <4>1, <4>2, <4>3 DEF OwnVariables
    <3> QED
      BY <3>1, <3>2, <3>3
  <2>3. \A s \in Thread : Len(slots'[s]) = Size(s)'
    BY <2>1 DEF Size
  <2> QED
    BY <2>2, <2>3 DEF OwnVariables
<1>24. OneUpvalueEach'
  <2>1. ASSUME NEW s \in Thread, NEW i \in 1..Len(slots'[s]), NEW u \in DOMAIN upvalue,
               captured[u] = slots'[s][i]
        PROVE  u \in Open(s)'
    <3>0. ~(s = t /\ i = m + 1)
      <4>1. captured[u] \in LiveVars /\ captured[u] \notin gone
        BY <1>6, <1>t, LiveHas
      <4> QED
        BY <1>10, <1>11, <2>1, <4>1
    <3>1. i \in 1..Len(slots[s]) /\ captured[u] = slots[s][i] /\ (s = t => i \in 1..m)
      BY <1>k, <2>1, <3>0
    <3>2. u \in Open(s) /\ Ptr(u) = stack[s].base + i - 1
      BY <2>1, <3>1, SlotOfUpvalue
    <3>3. CASE s = t
      <4>1. i \in 1..m /\ Ptr(u) = b + i - 1
        BY <3>1, <3>2, <3>3 DEF b
      <4>2. Ptr(u) < p
        BY <1>1, <4>1 DEF m
      <4> QED
        BY <1>c, <3>2, <3>3, <4>2
    <3>4. CASE s # t
      BY <1>o, <3>2, <3>4
    <3> QED
      BY <3>3, <3>4
  <2>2. \A u, w \in DOMAIN upvalue : captured[u] = captured[w] => u = w
    BY <1>t DEF OneUpvalueEach
  <2> QED
    BY <1>3, <1>c, <1>o, <2>1, <2>2 DEF OneUpvalueEach
<1>25. Inv'
  <2>1. \A s \in Thread : StackFits(s)' /\ Written(s)' /\ FramesFit(s)' /\ OpenInOrder(s)'
    BY <1>17, <1>18, <1>19, <1>20, <1>21
  <2> QED
    BY <1>16, <1>22, <1>23, <1>24, <2>1 DEF Inv
<1>v. PICK lost \in SUBSET LiveVars, res \in Var, val \in Value : lost = gone /\ res = x /\ val = v
  BY <1>1, <1>7, <1>10
<1>26. Becomes(lost, res, val)
  <2>1. ASSUME NEW y \in Var, NEW w \in Value, Holds(y, w), y \notin gone, y # x PROVE Holds(y, w)'
    <3>1. ASSUME NEW s \in Thread, NEW i \in 1..Len(slots[s]),
                 y = slots[s][i], w = mem[stack[s].base + i - 1]
          PROVE  Holds(y, w)'
      <4>0. /\ stack[s].base \in Nat /\ stack[s].esp \in Nat
            /\ Len(slots[s]) = stack[s].esp - stack[s].base
        BY Numbers
      <4>1. stack[s].base + i - 1 \in stack[s].base..(stack[s].esp - 1)
            /\ stack'[s].base = stack[s].base
        <5>1. stack'[s].base = stack[s].base
          BY <1>11 DEF b
        <5>2. i \in Nat /\ 1 <= i /\ i <= Len(slots[s])
          BY <4>0
        <5> QED
          BY <4>0, <5>1, <5>2
      <4>2. CASE s # t
        <5>1. i \in 1..Len(slots'[s]) /\ slots'[s][i] = slots[s][i]
          BY <1>11, <4>2
        <5>2. mem'[stack[s].base + i - 1] = mem[stack[s].base + i - 1]
          BY <1>17, <4>1, <4>2 DEF Untouched
        <5> QED
          BY <3>1, <4>1, <5>1, <5>2 DEF Holds
      <4>3. CASE s = t /\ i <= m
        <5>1. i \in 1..m /\ i \in 1..Len(slots'[t]) /\ slots'[t][i] = list[i]
          BY <1>1, <1>11, <4>3
        <5>2. b + i - 1 \in Address /\ b + i - 1 < p
          <6>1. b + i - 1 \in Address
            BY <4>1, <4>3, Numbers DEF b
          <6> QED
            BY <1>1, <5>1, <6>1 DEF m
        <5>3. mem'[b + i - 1] = mem[b + i - 1]
          BY <1>12, <5>2
        <5> QED
          BY <1>11, <3>1, <4>3, <5>1, <5>3 DEF Holds, b, list
      <4>4. CASE s = t /\ m < i
        <5>1. i \in 1..Len(list) /\ y = list[i] /\ w = mem[b + i - 1]
          BY <3>1, <4>4 DEF list, b
        <5>2. ~\E j \in 1..m : y = list[j]
          <6> SUFFICES ASSUME NEW j \in 1..m, y = list[j] PROVE FALSE
            OBVIOUS
          <6>1. j \in 1..Len(list) /\ j # i
            BY <1>1, <4>4
          <6>2. list[i] = list[j]
            BY <5>1
          <6> QED
            BY <1>t, <5>1, <6>1, <6>2 DEF OwnVariables
        <5>3. PICK u \in DOMAIN upvalue : y = captured[u]
          BY <1>6, <2>1, <5>1, <5>2
        <5>4. u \in Open(t) /\ Ptr(u) = b + i - 1
          BY <1>8, <5>1, <5>3
        <5>5. Ptr(u) >= p
          BY <1>1, <4>4, <5>1, <5>4 DEF m
        <5>6. ~IsOpen(u)' /\ upvalue'[u] = [localVarPtr |-> Closed, closedUpvalue |-> mem[Ptr(u)]]
          BY <1>c, <1>o, <5>3, <5>4, <5>5
        <5>7. w = mem[Ptr(u)]
          BY <5>1, <5>4
        <5> QED
          BY <1>3, <1>c, <5>3, <5>6, <5>7 DEF Holds
      <4> QED
        BY <1>1, <4>2, <4>3, <4>4
    <3>2. ASSUME NEW u \in DOMAIN upvalue, ~IsOpen(u), y = captured[u], w = upvalue[u].closedUpvalue
          PROVE  Holds(y, w)'
      <4>1. ~IsOpen(u)' /\ upvalue'[u] = upvalue[u] /\ u \in DOMAIN upvalue'
        BY <1>c, <1>o, <3>2
      <4> QED
        BY <1>3, <3>2, <4>1 DEF Holds
    <3> QED
      BY <2>1, <3>1, <3>2 DEF Holds
  <2>2. Holds(res, val)'
    <3>1. m + 1 \in 1..Len(slots'[t]) /\ slots'[t][m + 1] = x
      BY <1>1, <1>11
    <3>2. stack'[t].base + (m + 1) - 1 = p
      BY <1>1, <1>11 DEF m
    <3>3. mem'[stack'[t].base + (m + 1) - 1] = v
      BY <1>12, <3>2
    <3> QED
      BY <1>v, <3>1, <3>3 DEF Holds
  <2>3. ASSUME NEW y, y \in LiveVars' PROVE y \in (LiveVars \ gone) \union {x}
    <3>1. \/ \E s \in Thread : \E i \in 1..Len(slots'[s]) : y = slots'[s][i]
          \/ \E u \in DOMAIN upvalue' : y = captured'[u]
      BY <1>16, <2>3, LiveInNext
    <3>2. CASE \E u \in DOMAIN upvalue' : y = captured'[u]
      <4>1. PICK u \in DOMAIN upvalue : y = captured[u]
        BY <1>3, <1>c, <3>2
      <4>2. y \in LiveVars /\ y \notin gone
        BY <1>6, <1>t, <4>1, LiveHas
      <4> QED
        BY <4>2
    <3>3. CASE \E s \in Thread : \E i \in 1..Len(slots'[s]) : y = slots'[s][i]
      <4>1. PICK s \in Thread : \E i \in 1..Len(slots'[s]) : y = slots'[s][i]
        BY <3>3
      <4>2. PICK i \in 1..Len(slots'[s]) : y = slots'[s][i]
        BY <4>1
      <4>3. CASE s = t /\ i = m + 1
        BY <1>11, <4>2, <4>3
      <4>4. CASE ~(s = t /\ i = m + 1)
        BY <1>k, <4>2, <4>4
      <4> QED
        BY <4>3, <4>4
    <3> QED
      BY <3>1, <3>2, <3>3
  <2> QED
    BY <1>v, <2>1, <2>2, <2>3 DEF Becomes
<1> QED
  BY <1>10, <1>25, <1>26, <1>v, MapsToReplace

-----------------------------------------------------------------------------
(***************************************************************************)
(* Capturing.  The new upvalue goes behind those of higher slots; no       *)
(* variable changes.                                                       *)
(***************************************************************************)
LEMMA Stutters ==
  ASSUME Inv, Inv', NEW gone, gone = {}, Loses(gone)
  PROVE  cells' = cells
<1>1. cells' = [y \in LiveVars \ gone |-> cells[y]]
  BY LosesMeans
<1> QED
  BY <1>1 DEF cells

\* The list new is s with u inserted behind the first n elements.
IsInsertion(new, s, u, n) ==
  /\ Len(new) = Len(s) + 1
  /\ \A i \in 1..n : new[i] = s[i]
  /\ new[n + 1] = u
  /\ \A i \in (n + 2)..(Len(s) + 1) : new[i] = s[i - 1]

LEMMA InsertAtIs ==
  ASSUME NEW S, NEW s \in Seq(S), NEW u \in S, NEW n \in 0..Len(s)
  PROVE  InsertAt(s, n + 1, u) \in Seq(S) /\ IsInsertion(InsertAt(s, n + 1, u), s, u, n)
<1> DEFINE front == SubSeq(s, 1, n)
           mid == front \o <<u>>
           back == SubSeq(s, n + 1, Len(s))
<1>1. Len(s) \in Nat /\ n \in Nat /\ n <= Len(s)
  OBVIOUS
<1>2. front \in Seq(S) /\ Len(front) = n /\ \A i \in 1..n : front[i] = s[i]
  BY <1>1
<1>3. /\ back \in Seq(S) /\ Len(back) = Len(s) - n
      /\ \A i \in 1..(Len(s) - n) : back[i] = s[n + i]
  BY <1>1
<1> HIDE DEF front, back
<1>4. /\ mid \in Seq(S) /\ Len(mid) = n + 1 /\ \A i \in 1..n : mid[i] = s[i]
      /\ mid[n + 1] = u
  BY <1>1, <1>2
<1> HIDE DEF mid
<1>5. InsertAt(s, n + 1, u) = mid \o back
  <2>1. (n + 1) - 1 = n
    BY <1>1
  <2>2. InsertAt(s, n + 1, u) = SubSeq(s, 1, (n + 1) - 1) \o <<u>> \o SubSeq(s, n + 1, Len(s))
    BY Zenon DEF InsertAt
  <2>3. SubSeq(s, 1, (n + 1) - 1) = front
    BY <2>1 DEF front
  <2> QED
    BY <2>2, <2>3, Zenon DEF mid, back
<1>6. mid \o back \in Seq(S) /\ Len(mid \o back) = Len(s) + 1
  <2>1. mid \o back \in Seq(S) /\ Len(mid \o back) = Len(mid) + Len(back)
    BY <1>3, <1>4, ConcatProperties
  <2>2. Len(mid) + Len(back) = Len(s) + 1
    BY <1>1, <1>3, <1>4
  <2> QED
    BY <2>1, <2>2
<1>7. /\ \A i \in 1..n : (mid \o back)[i] = s[i]
      /\ (mid \o back)[n + 1] = u
  BY <1>1, <1>3, <1>4
<1>8. ASSUME NEW i \in (n + 2)..(Len(s) + 1) PROVE (mid \o back)[i] = s[i - 1]
  <2>1. i - (n + 1) \in 1..(Len(s) - n) /\ n + (i - (n + 1)) = i - 1
    BY <1>1
  <2>2. (mid \o back)[i] = back[i - (n + 1)]
    BY <1>1, <1>3, <1>4
  <2> QED
    BY <1>3, <2>1, <2>2
<1> QED
  BY <1>5, <1>6, <1>7, <1>8 DEF IsInsertion

\* What up has, upn has as well.
Extends(upn, up) == \A w \in DOMAIN up : w \in DOMAIN upn /\ upn[w] = up[w]

\* The elements of list that are before and behind n are above and below p.
Divides(n, list, up, p) ==
  /\ \A i \in 1..n : up[list[i]].localVarPtr > p
  /\ \A i \in (n + 1)..Len(list) : up[list[i]].localVarPtr < p

LEMMA InsertKeepsOrder ==
  ASSUME NEW list, NEW new, NEW up, NEW upn, NEW cap, NEW capn, NEW vs,
         NEW b \in Int, NEW e \in Int, NEW L \in Nat, NEW n \in 0..L, NEW u,
         L = Len(list), IsInsertion(new, list, u, n),
         InOrder(list, up, cap, vs, b, e),
         Extends(upn, up), Extends(capn, cap), DOMAIN up = DOMAIN cap,
         u \in DOMAIN upn, upn[u].localVarPtr \in b..(e - 1),
         vs[upn[u].localVarPtr - b + 1] = capn[u],
         Divides(n, list, up, upn[u].localVarPtr)
  PROVE  InOrder(new, upn, capn, vs, b, e)
<1>0. /\ Len(new) = L + 1
      /\ \A i \in 1..n : new[i] = list[i]
      /\ new[n + 1] = u
      /\ \A i \in (n + 2)..(L + 1) : new[i] = list[i - 1]
  BY DEF IsInsertion
<1>d. /\ \A i \in 1..n : up[list[i]].localVarPtr > upn[u].localVarPtr
      /\ \A i \in (n + 1)..L : up[list[i]].localVarPtr < upn[u].localVarPtr
  BY DEF Divides
<1>1. \A i \in 1..L : /\ list[i] \in DOMAIN upn
                      /\ upn[list[i]] = up[list[i]] /\ capn[list[i]] = cap[list[i]]
                      /\ up[list[i]].localVarPtr \in b..(e - 1)
                      /\ vs[up[list[i]].localVarPtr - b + 1] = cap[list[i]]
  BY DEF InOrder, Extends
<1>2. \A i, j \in 1..L : i < j => up[list[i]].localVarPtr > up[list[j]].localVarPtr
  BY DEF InOrder
<1>3. ASSUME NEW i \in 1..(L + 1)
      PROVE  \/ i = n + 1 /\ new[i] = u
             \/ i \in 1..n /\ i \in 1..L /\ new[i] = list[i]
             \/ i \in (n + 2)..(L + 1) /\ i - 1 \in 1..L /\ new[i] = list[i - 1]
  <2>1. i = n + 1 \/ (i \in 1..n /\ i \in 1..L) \/ (i \in (n + 2)..(L + 1) /\ i - 1 \in 1..L)
    OBVIOUS
  <2> QED
    BY <1>0, <2>1
<1>4. ASSUME NEW i \in 1..(L + 1)
      PROVE  /\ new[i] \in DOMAIN upn
             /\ upn[new[i]].localVarPtr \in b..(e - 1)
             /\ vs[upn[new[i]].localVarPtr - b + 1] = capn[new[i]]
  <2>1. CASE new[i] = u
    BY <2>1
  <2>2. CASE \E j \in 1..L : new[i] = list[j]
    <3>1. PICK j \in 1..L : new[i] = list[j]
      BY <2>2
    <3>2. PICK w : w = list[j]
      OBVIOUS
    <3>3. /\ w \in DOMAIN upn /\ upn[w] = up[w] /\ capn[w] = cap[w]
          /\ up[w].localVarPtr \in b..(e - 1)
          /\ vs[up[w].localVarPtr - b + 1] = cap[w]
      BY <1>1, <3>2
    <3>4. new[i] = w
      BY <3>1, <3>2
    <3>5. upn[w].localVarPtr = up[w].localVarPtr
      BY <3>3
    <3> QED
      BY <3>3, <3>4, <3>5
  <2>3. CASE i \in 1..L /\ new[i] = list[i]
    BY <2>2, <2>3
  <2>4. CASE i - 1 \in 1..L /\ new[i] = list[i - 1]
    BY <2>2, <2>4
  <2> QED
    BY <1>3, <2>1, <2>3, <2>4
<1> DEFINE P(i) == upn[new[i]].localVarPtr
<1>5. ASSUME NEW i \in 1..(L + 1), NEW j \in 1..(L + 1), i < j
      PROVE  P(i) > P(j)
  <2>0. P(i) \in Int /\ P(j) \in Int
    BY <1>4
  <2>1. CASE i = n + 1
    <3>1. j \in (n + 2)..(L + 1) /\ j - 1 \in (n + 1)..L /\ j - 1 \in 1..L
      <4>1. j \in Int /\ n + 1 < j /\ j <= L + 1 /\ n \in Nat /\ L \in Nat
        BY <1>5, <2>1
      <4> QED
        BY <4>1
    <3>2. new[i] = u /\ new[j] = list[j - 1]
      BY <1>0, <2>1, <3>1
    <3>3. up[list[j - 1]].localVarPtr < upn[u].localVarPtr
      BY <1>d, <3>1
    <3> QED
      BY <1>1, <2>0, <3>1, <3>2, <3>3
  <2>2. CASE j = n + 1
    <3>1. i \in 1..n /\ i \in 1..L
      BY <1>5, <2>2
    <3>2. new[j] = u /\ new[i] = list[i]
      BY <1>0, <2>2, <3>1
    <3>3. up[list[i]].localVarPtr > upn[u].localVarPtr
      BY <1>d, <3>1
    <3> QED
      BY <1>1, <2>0, <3>1, <3>2, <3>3
  <2>3. CASE i # n + 1 /\ j # n + 1
    <3> DEFINE Old(k) == IF k <= n THEN k ELSE k - 1
    <3>1. /\ Old(i) \in 1..L /\ new[i] = list[Old(i)]
          /\ Old(j) \in 1..L /\ new[j] = list[Old(j)]
      <4>1. i \in 1..n \/ i \in (n + 2)..(L + 1)
        BY <2>3
      <4>2. j \in 1..n \/ j \in (n + 2)..(L + 1)
        BY <2>3
      <4> QED
        BY <1>0, <4>1, <4>2
    <3>2. Old(i) < Old(j)
      BY <1>5, <2>3
    <3> HIDE DEF Old
    <3>3. up[list[Old(i)]].localVarPtr > up[list[Old(j)]].localVarPtr
      BY <1>2, <3>1, <3>2
    <3> QED
      BY <1>1, <3>1, <3>3
  <2> QED
    BY <2>1, <2>2, <2>3
<1> QED
  BY <1>0, <1>4, <1>5 DEF InOrder

LEMMA CaptureStep ==
  ASSUME Inv, NEW t \in Thread, NEW i \in 0..(REGION - 1), Capture(t, i)
  PROVE  Inv' /\ cells' = cells
<1> DEFINE b == stack[t].base
           e == stack[t].esp
           slot == Top(t).start + i
           k == slot - b + 1
           u == Len(upvalue) + 1
           list == openUpvalues[t]
           L == Len(list)
           n == ToClose(t, slot + 1)
           new == openUpvalues'[t]
           x == slots[t][k]
           above == {j \in DOMAIN list : upvalue[list[j]].localVarPtr > slot}
<1>t. Types /\ OwnVariables /\ OneUpvalueEach
  BY DEF Inv
<1>0. /\ frames[t] # <<>> /\ slot < e /\ ~HasOpenUpvalue(t, slot)
      /\ upvalue' = Append(upvalue, [localVarPtr |-> slot, closedUpvalue |-> Junk])
      /\ openUpvalues' = [openUpvalues EXCEPT ![t] = InsertAt(list, Cardinality(above) + 1, u)]
      /\ captured' = Append(captured, x)
      /\ mem' = mem /\ stack' = stack /\ frames' = frames /\ slots' = slots
  BY DEF Capture, memory, Inserted
<1>1. /\ b \in Nat /\ e \in Nat /\ slot \in Nat /\ slot \in b..(e - 1)
      /\ k \in 1..Len(slots[t]) /\ x \in Var /\ x \in LiveVars
  <2>1. Top(t).start \in Nat /\ b <= Top(t).start
    BY <1>0, TopFrame
  <2>2. b \in Nat /\ e \in Nat /\ Len(slots[t]) = e - b
    BY Numbers
  <2>3. i \in Nat
    OBVIOUS
  <2>4. slot \in Nat /\ slot \in b..(e - 1) /\ k \in 1..Len(slots[t])
    <3>1. slot \in Nat /\ b <= slot
      BY <2>1, <2>2, <2>3
    <3>2. slot < e
      BY <1>0
    <3> HIDE DEF slot, b, e
    <3> QED
      BY <2>2, <3>1, <3>2
  <2>5. x \in Var /\ x \in LiveVars
    <3> HIDE DEF k
    <3> QED
      BY <1>t, <2>4, Shapes, LiveHas
  <2> QED
    BY <2>2, <2>4, <2>5
<1> HIDE DEF b, e, slot, k, x
<1>2. list \in Seq(Nat) /\ L \in Nat /\ DOMAIN list = 1..L
  BY Shapes
<1>3. /\ upvalue \in Seq([localVarPtr : Int, closedUpvalue : Value \union {Junk}])
      /\ captured \in Seq(Var) /\ DOMAIN captured = DOMAIN upvalue
      /\ Len(upvalue) \in Nat /\ DOMAIN upvalue = 1..Len(upvalue) /\ Len(captured) = Len(upvalue)
  <2>1. /\ upvalue \in Seq([localVarPtr : Int, closedUpvalue : Value \union {Junk}])
        /\ captured \in Seq(Var) /\ DOMAIN captured = DOMAIN upvalue
    BY <1>t DEF Types
  <2>2. /\ Len(upvalue) \in Nat /\ DOMAIN upvalue = 1..Len(upvalue)
        /\ Len(captured) \in Nat /\ DOMAIN captured = 1..Len(captured)
    BY <2>1, LenProperties
  <2>3. Len(captured) = Len(upvalue)
    BY <2>1, <2>2
  <2> QED
    BY <2>1, <2>2, <2>3
<1>4. /\ u \in Nat /\ u \notin DOMAIN upvalue
      /\ upvalue' \in Seq([localVarPtr : Int, closedUpvalue : Value \union {Junk}])
      /\ captured' \in Seq(Var)
      /\ DOMAIN upvalue' = DOMAIN upvalue \union {u} /\ DOMAIN captured' = DOMAIN upvalue'
      /\ upvalue'[u].localVarPtr = slot /\ captured'[u] = x
      /\ \A w \in DOMAIN upvalue : upvalue'[w] = upvalue[w] /\ captured'[w] = captured[w]
  <2>1. [localVarPtr |-> slot, closedUpvalue |-> Junk] \in [localVarPtr : Int, closedUpvalue : Value \union {Junk}]
    BY <1>1
  <2>2. /\ upvalue' \in Seq([localVarPtr : Int, closedUpvalue : Value \union {Junk}])
        /\ Len(upvalue') = u
        /\ upvalue'[u] = [localVarPtr |-> slot, closedUpvalue |-> Junk]
        /\ \A w \in 1..Len(upvalue) : upvalue'[w] = upvalue[w]
    BY <1>0, <1>3, <2>1, AppendProperties
  <2>3. /\ captured' \in Seq(Var) /\ Len(captured') = u /\ captured'[u] = x
        /\ \A w \in 1..Len(upvalue) : captured'[w] = captured[w]
    BY <1>0, <1>1, <1>3, AppendProperties
  <2>4. DOMAIN upvalue' = 1..u /\ DOMAIN captured' = 1..u
    BY <2>2, <2>3, LenProperties
  <2>5. 1..u = 1..Len(upvalue) \union {u} /\ u \in Nat /\ u \notin 1..Len(upvalue)
    BY <1>3
  <2> QED
    BY <1>3, <2>2, <2>3, <2>4, <2>5
<1>5. /\ n \in 0..L
      /\ \A j \in 1..n : Ptr(list[j]) > slot
      /\ \A j \in (n + 1)..L : Ptr(list[j]) < slot
  <2>1. slot + 1 \in Int
    BY <1>1
  <2>2. /\ n \in 0..L
        /\ \A j \in 1..n : Ptr(list[j]) >= slot + 1
        /\ \A j \in (n + 1)..L : Ptr(list[j]) < slot + 1
    BY <2>1, ToCloseIs
  <2>3. \A j \in 1..L : Ptr(list[j]) # slot /\ Ptr(list[j]) \in Nat
    <3> SUFFICES ASSUME NEW j \in 1..L PROVE Ptr(list[j]) # slot /\ Ptr(list[j]) \in Nat
      OBVIOUS
    <3>1. list[j] \in Open(t)
      BY <1>t, OpenOf
    <3> QED
      BY <1>0, <3>1, OpenIsThere DEF HasOpenUpvalue, Open, Ptr
  <2>4. ASSUME NEW j \in 1..n PROVE Ptr(list[j]) > slot
    <3>1. j \in 1..L
      BY <1>2, <2>2
    <3> QED
      BY <1>1, <2>2, <2>3, <3>1
  <2>5. ASSUME NEW j \in (n + 1)..L PROVE Ptr(list[j]) < slot
    <3>1. j \in 1..L
      BY <1>2, <2>2
    <3> QED
      BY <1>1, <2>2, <2>3, <3>1
  <2> QED
    BY <2>2, <2>4, <2>5
<1> HIDE DEF n
<1>6. Cardinality(above) = n
  <2>1. \A j \in 1..L : Ptr(list[j]) \in Int
    <3> SUFFICES ASSUME NEW j \in 1..L PROVE Ptr(list[j]) \in Int
      OBVIOUS
    <3>1. list[j] \in Open(t)
      BY <1>t, OpenOf
    <3> QED
      BY <3>1, OpenIsThere
  <2>2. \A j : j \in above <=> j \in 1..L /\ Ptr(list[j]) > slot
    BY <1>2 DEF Ptr
  <2> HIDE DEF above, list, L
  <2>3. ASSUME NEW j PROVE j \in above <=> j \in 1..n
    <3>1. CASE j \in 1..n
      <4>1. j \in 1..L
        BY <1>2, <1>5, <3>1
      <4> QED
        BY <1>5, <2>2, <3>1, <4>1
    <3>2. CASE j \in (n + 1)..L
      <4>1. j \in 1..L /\ Ptr(list[j]) < slot /\ j \notin 1..n
        BY <1>2, <1>5, <3>2
      <4> QED
        BY <1>1, <2>1, <2>2, <4>1
    <3>3. CASE j \notin 1..L
      BY <1>2, <1>5, <2>2, <3>3
    <3> QED
      BY <1>2, <1>5, <3>1, <3>2, <3>3
  <2>4. above = 1..n
    BY <2>3
  <2>5. Cardinality(1..n) = IF 1 > n THEN 0 ELSE n - 1 + 1
    <3>1. 1 \in Int /\ n \in Int
      BY <1>2, <1>5
    <3> QED
      BY <3>1, FS_Interval
  <2>6. (IF 1 > n THEN 0 ELSE n - 1 + 1) = n
    BY <1>2, <1>5
  <2> QED
    BY <2>4, <2>5, <2>6

<1>7. /\ openUpvalues' \in [Thread -> Seq(Nat)]
      /\ \A s \in Thread : s # t => openUpvalues'[s] = openUpvalues[s]
      /\ new \in Seq(Nat) /\ IsInsertion(new, list, u, n)
      /\ Len(new) = L + 1
      /\ \A j \in 1..n : new[j] = list[j]
      /\ new[n + 1] = u
      /\ \A j \in (n + 2)..(L + 1) : new[j] = list[j - 1]
  <2>1. openUpvalues \in [Thread -> Seq(Nat)]
    BY <1>t DEF Types
  <2>2. openUpvalues' = [openUpvalues EXCEPT ![t] = InsertAt(list, n + 1, u)]
    BY <1>0, <1>6
  <2>3. u \in Nat /\ n \in 0..Len(list) /\ list \in Seq(Nat)
    BY <1>2, <1>4, <1>5
  <2> HIDE DEF list, u
  <2>4. InsertAt(list, n + 1, u) \in Seq(Nat) /\ IsInsertion(InsertAt(list, n + 1, u), list, u, n)
    BY <2>3, InsertAtIs
  <2>5. new = InsertAt(list, n + 1, u)
    BY <2>1, <2>2
  <2>6. openUpvalues' \in [Thread -> Seq(Nat)]
    BY <2>1, <2>2, <2>4
  <2>7. \A s \in Thread : s # t => openUpvalues'[s] = openUpvalues[s]
    BY <2>1, <2>2
  <2>8. new \in Seq(Nat) /\ IsInsertion(new, list, u, n)
    BY <2>4, <2>5
  <2>9. /\ Len(new) = L + 1
        /\ \A j \in 1..n : new[j] = list[j]
        /\ new[n + 1] = u
        /\ \A j \in (n + 2)..(L + 1) : new[j] = list[j - 1]
    BY <2>8 DEF IsInsertion
  <2> QED
    BY <2>6, <2>7, <2>8, <2>9
<1>8. Types'
  BY <1>t, <1>0, <1>4, <1>7 DEF Types
<1>9. InOrder(new, upvalue', captured', slots[t], b, e)
  <2>1. InOrder(list, upvalue, captured, slots[t], b, e)
    BY DEF Inv, OpenInOrder, b, e
  <2>2. Divides(n, list, upvalue, upvalue'[u].localVarPtr)
    BY <1>4, <1>5 DEF Divides, Ptr
  <2>3. /\ Extends(upvalue', upvalue) /\ Extends(captured', captured)
        /\ DOMAIN upvalue = DOMAIN captured
        /\ u \in DOMAIN upvalue' /\ upvalue'[u].localVarPtr \in b..(e - 1)
        /\ slots[t][upvalue'[u].localVarPtr - b + 1] = captured'[u]
    BY <1>1, <1>3, <1>4 DEF Extends, k, x
  <2>4. b \in Int /\ e \in Int /\ L \in Nat /\ n \in 0..L
    BY <1>1, <1>2, <1>5
  <2>5. Len(list) = L
    OBVIOUS
  <2> HIDE DEF u, list, L, new
  <2> QED
    BY <1>7, <2>1, <2>2, <2>3, <2>4, <2>5, InsertKeepsOrder
<1>10. \A w : w \in Open(t)' <=> w \in Open(t) \/ w = u
  <2>1. \A w : w \in Open(t) <=> \E j \in 1..L : w = list[j]
    BY <1>t, OpenOf
  <2>2. \A w : w \in Open(t)' <=> \E j \in 1..(L + 1) : w = new[j]
    <3>1. \A w : w \in ToSet(new) <=> \E j \in 1..Len(new) : w = new[j]
      BY <1>7, ToSetOf
    <3> QED
      BY <1>7, <3>1 DEF Open
  <2> HIDE DEF u, list, L, new
  <2>3. ASSUME NEW j \in 1..L PROVE \E h \in 1..(L + 1) : list[j] = new[h]
    <3>1. CASE j \in 1..n
      <4>1. j \in 1..(L + 1) /\ new[j] = list[j]
        BY <1>2, <1>5, <1>7, <3>1
      <4> QED
        BY <4>1
    <3>2. CASE j \notin 1..n
      <4>1. j + 1 \in (n + 2)..(L + 1) /\ j + 1 \in 1..(L + 1) /\ (j + 1) - 1 = j
        BY <1>2, <1>5, <3>2
      <4>2. new[j + 1] = list[j]
        BY <1>7, <4>1
      <4> QED
        BY <4>1, <4>2
    <3> QED
      BY <3>1, <3>2
  <2>4. ASSUME NEW h \in 1..(L + 1) PROVE new[h] = u \/ \E j \in 1..L : new[h] = list[j]
    <3>1. CASE h \in 1..n
      <4>1. h \in 1..L
        BY <1>2, <1>5, <3>1
      <4>2. new[h] = list[h]
        BY <1>7, <3>1
      <4> QED
        BY <4>1, <4>2
    <3>2. CASE h = n + 1
      BY <1>7, <3>2
    <3>3. CASE h \in (n + 2)..(L + 1)
      <4>1. h - 1 \in 1..L /\ new[h] = list[h - 1]
        BY <1>2, <1>5, <1>7, <3>3
      <4> QED
        BY <4>1
    <3> QED
      BY <1>2, <1>5, <3>1, <3>2, <3>3
  <2>5. n + 1 \in 1..(L + 1) /\ new[n + 1] = u
    BY <1>2, <1>5, <1>7
  <2>6. ASSUME NEW w PROVE w \in Open(t)' <=> w \in Open(t) \/ w = u
    <3>1. ASSUME w \in Open(t)' PROVE w \in Open(t) \/ w = u
      <4>1. PICK h \in 1..(L + 1) : w = new[h]
        BY <2>2, <3>1
      <4> QED
        BY <2>1, <2>4, <4>1
    <3>2. ASSUME w \in Open(t) PROVE w \in Open(t)'
      <4>1. PICK j \in 1..L : w = list[j]
        BY <2>1, <3>2
      <4> QED
        BY <2>2, <2>3, <4>1
    <3>3. ASSUME w = u PROVE w \in Open(t)'
      BY <2>2, <2>5, <3>3
    <3> QED
      BY <3>1, <3>2, <3>3
  <2> QED
    BY <2>6
<1>11. \A s \in Thread : s # t => Open(s)' = Open(s)
  BY <1>7 DEF Open
<1>12. /\ \A w \in DOMAIN upvalue : IsOpen(w)' <=> IsOpen(w)
       /\ \A w : w = u => IsOpen(w)'
  <2>1. ASSUME NEW w \in DOMAIN upvalue PROVE IsOpen(w)' <=> IsOpen(w)
    <3>1. w # u
      BY <1>4
    <3>2. \A s \in Thread : w \in Open(s)' <=> w \in Open(s)
      BY <1>10, <1>11, <3>1
    <3> QED
      BY <3>2 DEF IsOpen
  <2>2. ASSUME NEW w, w = u PROVE IsOpen(w)'
    <3>1. w \in Open(t)'
      BY <1>10, <2>2
    <3> QED
      BY <3>1 DEF IsOpen
  <2> QED
    BY <2>1, <2>2

<1>13. \A s \in Thread : s # t =>
         /\ Untouched(s)
         /\ StackFits(s)' /\ Written(s)' /\ FramesFit(s)' /\ OpenInOrder(s)'
  <2>1. \A a \in Address : a < stack[t].base \/ stack[t].base + stack[t].capacity <= a => mem'[a] = mem[a]
    BY <1>0
  <2>2. \A s \in Thread : s # t => \A w \in Open(s) : upvalue'[w] = upvalue[w] /\ captured'[w] = captured[w]
    BY <1>4, OpenIsThere
  <2>3. \A s \in Thread : s # t =>
           /\ stack'[s] = stack[s] /\ frames'[s] = frames[s]
           /\ openUpvalues'[s] = openUpvalues[s] /\ slots'[s] = slots[s]
    BY <1>0, <1>7
  <2>4. DOMAIN upvalue \subseteq DOMAIN upvalue'
    BY <1>4
  <2> QED
    BY <2>1, <2>2, <2>3, <2>4, OthersKept
<1>14. StackFits(t)' /\ Written(t)' /\ FramesFit(t)'
  <2>1. StackFits(t) /\ Written(t) /\ FramesFit(t) /\ stack[t].capacity # 0
    BY <1>0, TopFrame DEF Inv
  <2>2. StackFits(t)'
    BY <1>0, <2>1 DEF StackFits
  <2>3. Written(t)'
    BY <1>0, <2>1 DEF Written
  <2>4. Closures \subseteq Closures'
    BY <1>4 DEF Closures
  <2>5. FramesFit(t)'
    BY <1>0, <2>1, <2>4 DEF FramesFit
  <2> QED
    BY <2>2, <2>3, <2>5
<1>15. OpenInOrder(t)'
  BY <1>0, <1>9 DEF OpenInOrder, b, e
<1>16. Apart' /\ OwnVariables'
  <2>1. Apart'
    BY <1>0 DEF Inv, Apart
  <2>2. OwnVariables'
    BY <1>0, <1>t DEF OwnVariables, Size
  <2> QED
    BY <2>1, <2>2
<1>17. OneUpvalueEach'
  <2>1. ASSUME NEW w \in DOMAIN upvalue PROVE captured[w] # x
    <3> SUFFICES ASSUME captured[w] = slots[t][k] PROVE FALSE
      BY DEF x
    <3>1. w \in Open(t) /\ Ptr(w) = b + k - 1
      BY <1>1, SlotOfUpvalue DEF b
    <3>2. Ptr(w) = slot
      BY <1>1, <3>1 DEF k
    <3> QED
      BY <1>0, <3>1, <3>2 DEF HasOpenUpvalue, Open, Ptr
  <2>2. \A v, w \in DOMAIN upvalue' : captured'[v] = captured'[w] => v = w
    BY <1>4, <1>t, <2>1 DEF OneUpvalueEach
  <2>3. ASSUME NEW s \in Thread, NEW j \in 1..Len(slots'[s]), NEW w \in DOMAIN upvalue',
               captured'[w] = slots'[s][j]
        PROVE  w \in Open(s)'
    <3>1. CASE w = u
      <4>1. slots[s][j] = slots[t][k] /\ j \in 1..Len(slots[s])
        BY <1>0, <1>4, <2>3, <3>1 DEF x
      <4>2. s = t
        BY <1>1, <1>t, <4>1 DEF OwnVariables
      <4> QED
        BY <1>10, <3>1, <4>2
    <3>2. CASE w # u
      <4>1. w \in DOMAIN upvalue /\ captured[w] = slots[s][j] /\ j \in 1..Len(slots[s])
        BY <1>0, <1>4, <2>3, <3>2
      <4>2. w \in Open(s)
        BY <1>t, <4>1 DEF OneUpvalueEach
      <4> QED
        BY <1>10, <1>11, <4>2
    <3> QED
      BY <3>1, <3>2
  <2>4. ASSUME NEW w \in DOMAIN upvalue', ~IsOpen(w)'
        PROVE  Ptr(w)' = Closed /\ upvalue'[w].closedUpvalue \in Value
    <3>1. w \in DOMAIN upvalue /\ ~IsOpen(w)
      BY <1>4, <1>12, <2>4
    <3>2. upvalue[w].localVarPtr = Closed /\ upvalue[w].closedUpvalue \in Value
      BY <1>t, <3>1 DEF OneUpvalueEach, Ptr
    <3> QED
      BY <1>4, <3>1, <3>2 DEF Ptr
  <2> QED
    BY <2>2, <2>3, <2>4 DEF OneUpvalueEach
<1>18. Inv'
  <2>1. \A s \in Thread : StackFits(s)' /\ Written(s)' /\ FramesFit(s)' /\ OpenInOrder(s)'
    BY <1>13, <1>14, <1>15
  <2> QED
    BY <1>8, <1>16, <1>17, <2>1 DEF Inv
<1>19. PICK gone \in SUBSET Var : gone = {}
  OBVIOUS
<1>20. Loses(gone)
  <2>1. ASSUME NEW y \in Var, NEW w \in Value, Holds(y, w) PROVE Holds(y, w)'
    <3>1. CASE \E s \in Thread : \E j \in 1..Len(slots[s]) : y = slots[s][j] /\ w = mem[stack[s].base + j - 1]
      BY <1>0, <3>1 DEF Holds
    <3>2. ASSUME NEW h \in DOMAIN upvalue, ~IsOpen(h), y = captured[h], w = upvalue[h].closedUpvalue
          PROVE  Holds(y, w)'
      <4>1. h \in DOMAIN upvalue' /\ ~IsOpen(h)' /\ y = captured'[h] /\ w = upvalue'[h].closedUpvalue
        BY <1>4, <1>12, <3>2
      <4> QED
        BY <4>1 DEF Holds
    <3> QED
      BY <2>1, <3>1, <3>2 DEF Holds
  <2>2. ASSUME NEW y, y \in LiveVars' PROVE y \in LiveVars
    <3>1. \/ \E s \in Thread : \E j \in 1..Len(slots'[s]) : y = slots'[s][j]
          \/ \E h \in DOMAIN upvalue' : y = captured'[h]
      BY <1>8, <2>2, LiveInNext
    <3>2. CASE \E s \in Thread : \E j \in 1..Len(slots'[s]) : y = slots'[s][j]
      BY <1>0, <1>t, <3>2, LiveHas
    <3>3. CASE \E h \in DOMAIN upvalue' : y = captured'[h]
      <4>1. PICK h \in DOMAIN upvalue' : y = captured'[h]
        BY <3>3
      <4>2. CASE h = u
        BY <1>1, <1>4, <4>1, <4>2
      <4>3. CASE h # u
        BY <1>4, <1>t, <4>1, <4>3, LiveHas
      <4> QED
        BY <4>2, <4>3
    <3> QED
      BY <3>1, <3>2, <3>3
  <2> QED
    BY <1>19, <2>1, <2>2 DEF Loses
<1> QED
  BY <1>18, <1>19, <1>20, Stutters

-----------------------------------------------------------------------------
(***************************************************************************)
(* Calling.  ensureStack() may move the stack; the frames and the open     *)
(* upvalues of the thread follow it, and no variable changes.              *)
(***************************************************************************)
LEMMA CapacitySuffices ==
  ASSUME Inv, NEW t \in Thread, NEW need \in Needs
  PROVE  /\ CapacityFor(t, need) \in Nat /\ CapacityFor(t, need) >= stack[t].capacity
         /\ CapacityFor(t, need) >= Size(t) + need
<1>1. need \in Nat
  BY OpenUpvaluesAssumption
<1>2. Size(t) \in Nat /\ stack[t].capacity \in Nat
  BY Numbers DEF Size
<1> DEFINE needed == Size(t) + need
<1>3. needed \in Nat
  BY <1>1, <1>2
<1> HIDE DEF needed
<1>4. CeilToPowerOf2(needed) \in Nat /\ CeilToPowerOf2(needed) >= needed
  BY <1>3, CeilIsEnough
<1>5. CapacityFor(t, need) = IF stack[t].capacity >= needed THEN stack[t].capacity
                             ELSE CeilToPowerOf2(needed)
  BY DEF CapacityFor, needed
<1>6. CapacityFor(t, need) \in Nat /\ CapacityFor(t, need) >= stack[t].capacity
      /\ CapacityFor(t, need) >= needed
  BY <1>2, <1>3, <1>4, <1>5
<1> QED
  BY <1>6 DEF needed

\* A base that realloc() may choose begins a region that no other stack is in.
LEMMA BaseIsFree ==
  ASSUME Inv, NEW t \in Thread, stack[t].capacity # 0, NEW b,
         b = stack[t].base \/ b \in FreeBases
  PROVE  /\ b \in Bases /\ b \in Nat
         /\ \A s \in Thread : s # t /\ stack[s].capacity > 0 => stack[s].base # b
<1>1. CASE b = stack[t].base
  <2>1. b \in Bases
    BY <1>1 DEF Inv, StackFits
  <2>2. stack[t].capacity > 0
    BY Numbers
  <2> QED
    BY <1>1, <2>1, <2>2, BasesApart DEF Inv, Apart
<1>2. CASE b \in FreeBases
  <2>1. PICK r \in 0..(Regions - 1) : b = r * REGION /\ ~InUse(r)
    BY <1>2 DEF FreeBases
  <2>2. b \in Bases
    BY <2>1 DEF Bases
  <2> QED
    BY <2>1, <2>2, BasesApart DEF InUse
<1> QED
  BY <1>1, <1>2

\* Moving a stack moves what its open upvalues point at.
LEMMA InOrderMoves ==
  ASSUME NEW list, NEW up, NEW upn, NEW cap, NEW vs, NEW b \in Int, NEW e \in Int, NEW d \in Int,
         InOrder(list, up, cap, vs, b, e),
         \A i \in 1..Len(list) : list[i] \in DOMAIN upn
           /\ upn[list[i]].localVarPtr = up[list[i]].localVarPtr + d
  PROVE  InOrder(list, upn, cap, vs, b + d, e + d)
<1> DEFINE P(i) == up[list[i]].localVarPtr
           Q(i) == upn[list[i]].localVarPtr
<1>1. /\ \A i \in 1..Len(list) : P(i) \in b..(e - 1) /\ vs[P(i) - b + 1] = cap[list[i]]
      /\ \A i, j \in 1..Len(list) : i < j => P(i) > P(j)
  BY DEF InOrder
<1>2. \A i \in 1..Len(list) : list[i] \in DOMAIN upn /\ Q(i) = P(i) + d
  OBVIOUS
<1> HIDE DEF P, Q
<1>3. ASSUME NEW i \in 1..Len(list)
      PROVE  Q(i) \in (b + d)..((e + d) - 1) /\ vs[Q(i) - (b + d) + 1] = cap[list[i]]
  <2>1. P(i) \in b..(e - 1) /\ P(i) \in Int /\ Q(i) = P(i) + d
    BY <1>1, <1>2
  <2>2. Q(i) \in (b + d)..((e + d) - 1) /\ Q(i) - (b + d) + 1 = P(i) - b + 1
    BY <2>1
  <2> QED
    BY <1>1, <2>2
<1>4. ASSUME NEW i \in 1..Len(list), NEW j \in 1..Len(list), i < j PROVE Q(i) > Q(j)
  <2>1. P(i) \in Int /\ P(j) \in Int /\ P(i) > P(j) /\ Q(i) = P(i) + d /\ Q(j) = P(j) + d
    BY <1>1, <1>2, <1>4
  <2> QED
    BY <2>1
<1>5. \A i \in 1..Len(list) : list[i] \in DOMAIN upn
  BY <1>2
<1> QED
  BY <1>3, <1>4, <1>5 DEF InOrder, Q

LEMMA CallStep ==
  ASSUME Inv, NEW t \in Thread, NEW need \in Needs, NEW c \in Closures, Call(t, need, c)
  PROVE  Inv' /\ cells' = cells
<1> DEFINE b == stack[t].base
           e == stack[t].esp
           old == stack[t].capacity
           capacity == CapacityFor(t, need)
           F == Len(frames[t])
<1>t. Types /\ OwnVariables /\ OneUpvalueEach
  BY DEF Inv
<1>0. TopIsPlain(t) /\ frames[t] # <<>> /\ Top(t).start < e - 1 /\ capacity <= REGION
  BY DEF Call, TopIsPlain
<1>1. PICK base \in {b} \union (IF capacity = old THEN {} ELSE FreeBases) :
        /\ mem' = Reallocated(t, base, capacity)
        /\ stack' = [stack EXCEPT ![t] = [base |-> base, capacity |-> capacity, esp |-> e + (base - b)]]
        /\ frames' = [frames EXCEPT ![t] = Append(ShiftedFrames(t, base - b), Frame((e + (base - b)) - 1, need, c))]
        /\ upvalue' = ShiftedUpvalues(t, base - b)
  BY DEF Call
<1>2. openUpvalues' = openUpvalues /\ slots' = slots /\ captured' = captured
  BY DEF Call, ghosts
<1>n. need \in Nat \ {0}
  BY OpenUpvaluesAssumption
<1>3. /\ b \in Nat /\ e \in Nat /\ old \in Nat /\ old # 0 /\ b < e /\ e <= b + old
      /\ Top(t).start \in Nat /\ Top(t).start < e - 1
      /\ capacity \in Nat /\ capacity # 0 /\ old <= capacity /\ capacity >= (e - b) + need
      /\ base \in Nat /\ base \in Bases
      /\ Len(slots[t]) = e - b
  <2>1. /\ Top(t).start \in Nat /\ b <= Top(t).start /\ old # 0
    BY <1>0, TopFrame
  <2>2. /\ b \in Nat /\ e \in Nat /\ old \in Nat /\ e <= b + old /\ Len(slots[t]) = e - b
    BY Numbers
  <2>3. /\ capacity \in Nat /\ old <= capacity /\ capacity >= (e - b) + need
    BY CapacitySuffices DEF Size
  <2>4. base = b \/ base \in FreeBases
    BY <1>1
  <2>5. base \in Nat /\ base \in Bases
    BY <2>1, <2>4, BaseIsFree
  <2>6. b < e /\ capacity # 0
    BY <1>0, <2>1, <2>2, <2>3
  <2> HIDE DEF b, e, old, capacity
  <2> QED
    BY <1>0, <2>1, <2>2, <2>3, <2>5, <2>6
<1>4. \A s \in Thread : s # t /\ stack[s].capacity > 0 => stack[s].base # base
  <2>1. base = b \/ base \in FreeBases
    BY <1>1
  <2> QED
    BY <1>3, <2>1, BaseIsFree
<1> HIDE DEF b, e, old, capacity
<1>5. PICK d \in Int : d = base - b
  BY <1>3
<1>6. /\ \A s \in Thread : s # t => stack'[s] = stack[s] /\ frames'[s] = frames[s]
      /\ stack'[t].base = base /\ stack'[t].capacity = capacity /\ stack'[t].esp = e + d
      /\ base = b + d /\ e + d \in Nat
      /\ stack' \in [Thread -> [base : Nat, capacity : Nat, esp : Nat]]
      /\ frames'[t] = Append(ShiftedFrames(t, d), Frame((e + d) - 1, need, c))
      /\ frames' = [frames EXCEPT ![t] = Append(ShiftedFrames(t, d), Frame((e + d) - 1, need, c))]
      /\ upvalue' = ShiftedUpvalues(t, d)
  <2>1. base = b + d /\ e + d \in Nat
    BY <1>3, <1>5
  <2>2. stack' = [stack EXCEPT ![t] = [base |-> base, capacity |-> capacity, esp |-> e + d]]
    BY <1>1, <1>5 DEF b, e, capacity
  <2>4. /\ frames' = [frames EXCEPT ![t] = Append(ShiftedFrames(t, d), Frame((e + d) - 1, need, c))]
        /\ upvalue' = ShiftedUpvalues(t, d)
    BY <1>1, <1>5 DEF b, e
  <2>5. /\ \A s \in Thread : s # t => stack'[s] = stack[s] /\ frames'[s] = frames[s]
        /\ stack'[t] = [base |-> base, capacity |-> capacity, esp |-> e + d]
        /\ frames'[t] = Append(ShiftedFrames(t, d), Frame((e + d) - 1, need, c))
    BY <1>t, <2>2, <2>4 DEF Types
  <2>6. [base |-> base, capacity |-> capacity, esp |-> e + d] \in [base : Nat, capacity : Nat, esp : Nat]
    BY <1>3, <2>1
  <2>7. stack' \in [Thread -> [base : Nat, capacity : Nat, esp : Nat]]
    BY <1>t, <2>2, <2>6 DEF Types
  <2>8. stack'[t].base = base /\ stack'[t].capacity = capacity /\ stack'[t].esp = e + d
    BY <2>5
  <2> QED
    BY <2>1, <2>4, <2>5, <2>7, <2>8
<1>7. /\ \A a \in b..(e - 1) : a + d \in Address /\ mem'[a + d] = mem[a]
      /\ mem' \in [Address -> Value \union {Junk}]
      /\ \A s \in Thread : s # t => \A a \in stack[s].base..(stack[s].esp - 1) : mem'[a] = mem[a]
  <2> DEFINE Within(a, lo, n) == lo <= a /\ a < lo + n
  <2>1. mem' = [a \in Address |->
                  IF Within(a, base, old) THEN mem[b + a - base]
                  ELSE IF Within(a, b, old) \/ Within(a, base, capacity) THEN Junk
                  ELSE mem[a]]
    BY <1>1 DEF Reallocated, b, old, capacity
  <2>2. base + capacity <= Regions * REGION /\ Regions * REGION \in Int
    <3>1. base + REGION <= Regions * REGION
      BY <1>3, BasesApart
    <3>2. REGION \in Nat /\ Regions \in Nat
      BY OpenUpvaluesAssumption
    <3>3. Regions * REGION \in Int
      BY <3>2
    <3> QED
      BY <1>0, <1>3, <3>1, <3>2, <3>3 DEF capacity
  <2>3. ASSUME NEW a \in b..(e - 1) PROVE a + d \in Address /\ mem'[a + d] = mem[a]
    <3>1. Within(a + d, base, old) /\ b + ((a + d) - base) = a
      BY <1>3, <1>5
    <3>2. a + d \in Address
      BY <1>3, <1>5, <2>2 DEF Address
    <3> HIDE DEF Within
    <3>3. mem'[a + d] = mem[b + ((a + d) - base)]
      BY <2>1, <3>1, <3>2
    <3> QED
      BY <3>1, <3>2, <3>3
  <2>4. mem' \in [Address -> Value \union {Junk}]
    <3>1. mem \in [Address -> Value \union {Junk}]
      BY <1>t DEF Types
    <3>2. ASSUME NEW a \in Address, Within(a, base, old) PROVE mem[b + a - base] \in Value \union {Junk}
      <4>1. b + a - base \in b..(b + old - 1)
        BY <1>3, <3>2 DEF Address
      <4>2. b + a - base \in Address
        BY <4>1, Numbers DEF b, old
      <4> QED
        BY <3>1, <4>2
    <3> HIDE DEF Within
    <3> QED
      BY <2>1, <3>1, <3>2
  <2>5. ASSUME NEW s \in Thread, s # t, NEW a \in stack[s].base..(stack[s].esp - 1)
        PROVE  mem'[a] = mem[a]
    <3>1. /\ stack[s].base \in Nat /\ stack[s].esp \in Nat /\ stack[s].capacity \in Nat
          /\ stack[s].esp <= stack[s].base + stack[s].capacity /\ a \in Address
      BY Numbers
    <3>2. stack[s].base <= a /\ a < stack[s].base + stack[s].capacity /\ a \in Int
          /\ stack[s].capacity > 0
      BY <3>1
    <3>3. ~Within(a, b, old)
      <4>1. ~(stack[t].base <= a /\ a < stack[t].base + stack[t].capacity)
        BY <2>5, <3>2, NotShared
      <4> QED
        BY <4>1 DEF b, old
    <3>4. stack[s].base # base /\ stack[s].base \in Bases /\ stack[s].capacity <= REGION
      BY <1>4, <2>5, <3>2 DEF Inv, StackFits
    <3>5. stack[s].base + REGION <= base \/ base + REGION <= stack[s].base
      BY <1>3, <3>4, BasesApart
    <3>6. REGION \in Nat /\ capacity <= REGION
      BY <1>0, OpenUpvaluesAssumption DEF capacity
    <3>7. ~Within(a, base, capacity) /\ ~Within(a, base, old)
      <4>1. PICK lo, cap : lo = stack[s].base /\ cap = stack[s].capacity
        OBVIOUS
      <4>2. /\ lo \in Nat /\ cap \in Nat /\ cap <= REGION /\ lo <= a /\ a < lo + cap /\ a \in Int
            /\ lo + REGION <= base \/ base + REGION <= lo
        BY <3>1, <3>2, <3>4, <3>5, <4>1
      <4>3. base \in Nat /\ capacity \in Nat /\ old \in Nat /\ old <= capacity
        BY <1>3
      <4> QED
        BY <3>6, <4>2, <4>3
    <3> HIDE DEF Within
    <3> QED
      BY <2>1, <3>1, <3>3, <3>7
  <2> QED
    BY <2>3, <2>4, <2>5

<1>8. /\ upvalue' \in Seq([localVarPtr : Int, closedUpvalue : Value \union {Junk}])
      /\ DOMAIN upvalue' = DOMAIN upvalue
      /\ \A u \in Open(t) : u \in DOMAIN upvalue /\ upvalue'[u].localVarPtr = Ptr(u) + d
      /\ \A u \in DOMAIN upvalue : u \notin Open(t) => upvalue'[u] = upvalue[u]
  <2>1. /\ upvalue \in Seq([localVarPtr : Int, closedUpvalue : Value \union {Junk}])
        /\ Len(upvalue) \in Nat /\ DOMAIN upvalue = 1..Len(upvalue)
    BY <1>t, LenProperties DEF Types
  <2> DEFINE shifted(u) == IF u \in Open(t) THEN [upvalue[u] EXCEPT !.localVarPtr = @ + d] ELSE upvalue[u]
  <2>2. upvalue' = [u \in 1..Len(upvalue) |-> shifted(u)]
    BY <1>6, <2>1 DEF ShiftedUpvalues, Open
  <2>3. ASSUME NEW u \in 1..Len(upvalue)
        PROVE  /\ shifted(u) \in [localVarPtr : Int, closedUpvalue : Value \union {Junk}]
               /\ u \in Open(t) => shifted(u).localVarPtr = Ptr(u) + d
               /\ u \notin Open(t) => shifted(u) = upvalue[u]
    <3>1. upvalue[u] \in [localVarPtr : Int, closedUpvalue : Value \union {Junk}]
      BY <2>1, ElementOfSeq
    <3>2. upvalue[u].localVarPtr + d \in Int
      BY <3>1
    <3> QED
      BY <3>1, <3>2 DEF Ptr
  <2> HIDE DEF shifted
  <2>4. upvalue' \in Seq([localVarPtr : Int, closedUpvalue : Value \union {Junk}])
    BY <2>1, <2>2, <2>3
  <2>5. DOMAIN upvalue' = DOMAIN upvalue /\ \A u \in DOMAIN upvalue : upvalue'[u] = shifted(u)
    BY <2>1, <2>2
  <2>6. \A u \in Open(t) : u \in DOMAIN upvalue
    BY OpenIsThere
  <2> QED
    BY <2>1, <2>3, <2>4, <2>5, <2>6
<1>9. \A s \in Thread : Open(s)' = Open(s)
  BY <1>2 DEF Open
<1>10. \A u : IsOpen(u)' <=> IsOpen(u)
  BY <1>9 DEF IsOpen
<1>11. \A s \in Thread : s # t => \A u \in Open(s) : u \in DOMAIN upvalue /\ u \notin Open(t) /\ upvalue'[u] = upvalue[u]
  <2> SUFFICES ASSUME NEW s \in Thread, s # t, NEW u \in Open(s)
               PROVE  u \in DOMAIN upvalue /\ u \notin Open(t) /\ upvalue'[u] = upvalue[u]
    OBVIOUS
  <2>1. u \in DOMAIN upvalue
    BY OpenIsThere
  <2>2. u \notin Open(t)
    BY <2>1, SlotOfUpvalue
  <2> QED
    BY <1>8, <2>1, <2>2
<1>12. ASSUME NEW s \in Thread, s # t
       PROVE  StackFits(s)' /\ Written(s)' /\ FramesFit(s)' /\ OpenInOrder(s)'
  <2>1. Untouched(s)
    BY <1>2, <1>6, <1>7, <1>11, <1>12 DEF Untouched
  <2>2. DOMAIN upvalue \subseteq DOMAIN upvalue'
    BY <1>8
  <2> QED
    BY <2>1, <2>2, Others
<1>13. StackFits(t)'
  <2>1. base < e + d /\ e + d <= base + capacity /\ capacity <= REGION
    BY <1>0, <1>3, <1>5, <1>n DEF capacity
  <2> QED
    BY <1>3, <1>6, <2>1 DEF StackFits
<1>14. Written(t)'
  <2> SUFFICES ASSUME NEW a \in base..((e + d) - 1) PROVE mem'[a] \in Value
    BY <1>6 DEF Written
  <2>1. a - d \in b..(e - 1) /\ (a - d) + d = a
    BY <1>3, <1>5
  <2>2. mem[a - d] \in Value
    BY <2>1, Numbers DEF b, e
  <2>3. mem'[(a - d) + d] = mem[a - d]
    BY <1>7, <2>1
  <2> QED
    BY <2>1, <2>2, <2>3
<1>15. /\ Len(frames[t]) \in Nat \ {0}
       /\ frames'[t] \in Seq([start : Nat, need : Needs, closure : Nat])
       /\ Len(frames'[t]) = F + 1
       /\ \A i \in 1..F :
            /\ frames'[t][i].start = frames[t][i].start + d
            /\ frames'[t][i].need = frames[t][i].need /\ frames'[t][i].closure = frames[t][i].closure
            /\ frames[t][i].start < e - 1 /\ frames[t][i].start \in Nat /\ b <= frames[t][i].start
            /\ frames[t][i].start + frames[t][i].need <= b + old /\ frames[t][i].need \in Nat
            /\ frames[t][i].closure \in Closures
       /\ frames'[t][F + 1].start = (e + d) - 1
       /\ frames'[t][F + 1].need = need /\ frames'[t][F + 1].closure = c
  <2>1. /\ frames[t] \in Seq([start : Nat, need : Needs, closure : Nat]) /\ F \in Nat \ {0}
        /\ DOMAIN frames[t] = 1..F
    BY <1>0, Shapes, TopFrame, LenProperties
  <2> DEFINE shifted(i) == [frames[t][i] EXCEPT !.start = @ + d]
             list == [i \in 1..F |-> shifted(i)]
             frame == Frame((e + d) - 1, need, c)
  <2>2. ShiftedFrames(t, d) = list
    BY <2>1 DEF ShiftedFrames
  <2>3. ASSUME NEW i \in 1..F
        PROVE  /\ frames[t][i].start < e - 1 /\ frames[t][i].start \in Nat /\ b <= frames[t][i].start
               /\ frames[t][i].start + frames[t][i].need <= b + old /\ frames[t][i].need \in Nat
               /\ frames[t][i].closure \in Closures
    <3>1. frames[t][i].start <= Top(t).start
      BY TopIsHighest
    <3>2. frames[t][i].start \in Nat /\ frames[t][i].need \in Nat
      BY Shapes
    <3>3. /\ b <= frames[t][i].start /\ frames[t][i].start + frames[t][i].need <= b + old
          /\ frames[t][i].closure \in Closures
      BY DEF Inv, FramesFit, b, old
    <3> QED
      BY <1>3, <3>1, <3>2, <3>3
  <2>4. ASSUME NEW i \in 1..F
        PROVE  /\ shifted(i) \in [start : Nat, need : Needs, closure : Nat]
               /\ shifted(i).start = frames[t][i].start + d
               /\ shifted(i).need = frames[t][i].need /\ shifted(i).closure = frames[t][i].closure
    <3>1. frames[t][i] \in [start : Nat, need : Needs, closure : Nat]
      BY <2>1, ElementOfSeq
    <3>2. frames[t][i].start + d \in Nat
      BY <1>3, <1>5, <2>3
    <3> QED
      BY <3>1, <3>2
  <2>5. frame \in [start : Nat, need : Needs, closure : Nat]
    <3>1. c \in Nat
      BY <1>t, LenProperties DEF Types, Closures, NoClosure
    <3>2. (e + d) - 1 \in Nat
      BY <1>3, <1>5
    <3> QED
      BY <3>1, <3>2 DEF Frame
  <2>6. frame.start = (e + d) - 1 /\ frame.need = need /\ frame.closure = c
    BY DEF Frame
  <2>7. frames'[t] = Append(list, frame)
    BY <1>6, <2>2
  <2> HIDE DEF shifted, frame, F
  <2>8. list \in Seq([start : Nat, need : Needs, closure : Nat]) /\ Len(list) = F /\ \A i \in 1..F : list[i] = shifted(i)
    <3>1. F \in Nat
      BY <2>1
    <3>2. \A i \in 1..F : shifted(i) \in [start : Nat, need : Needs, closure : Nat]
      BY <2>4
    <3> QED
      BY <3>1, <3>2
  <2> HIDE DEF list
  <2>9. /\ frames'[t] \in Seq([start : Nat, need : Needs, closure : Nat])
        /\ Len(frames'[t]) = F + 1
        /\ \A i \in 1..F : frames'[t][i] = shifted(i)
        /\ frames'[t][F + 1] = frame
    BY <2>5, <2>7, <2>8, AppendProperties
  <2> QED
    BY <2>1, <2>3, <2>4, <2>6, <2>9 DEF F

<1>16. Types'
  <2>1. frames' \in [Thread -> Seq([start : Nat, need : Needs, closure : Nat])]
    <3>1. \A i \in 1..Len(frames'[t]) : frames'[t][i].need \in Needs
      <4>1. \A i \in 1..F : frames[t][i].need \in Needs
        BY Shapes DEF F
      <4>2. F \in Nat
        BY <1>15
      <4>3. \A i \in 1..(F + 1) : i = F + 1 \/ i \in 1..F
        BY <4>2
      <4> HIDE DEF F
      <4> QED
        BY <1>15, <4>1, <4>3
    <3>2. frames'[t] \in Seq([start : Nat, need : Needs, closure : Nat])
      BY <1>15
    <3> QED
      BY <1>6, <1>t, <3>2 DEF Types
  <2> QED
    BY <1>2, <1>6, <1>7, <1>8, <1>t, <2>1 DEF Types
<1>17. FramesFit(t)'
  <2>0. F \in Nat \ {0}
    BY <1>15
  <2>a. Closures' = Closures
    BY <1>8 DEF Closures
  <2>1. ASSUME NEW i \in 1..(F + 1)
        PROVE  /\ frames'[t][i].closure \in Closures
               /\ base <= frames'[t][i].start /\ frames'[t][i].start < e + d
               /\ frames'[t][i].start + frames'[t][i].need <= base + capacity
    <3>1. CASE i = F + 1
      <4>1. /\ base <= (e + d) - 1 /\ (e + d) - 1 < e + d
            /\ ((e + d) - 1) + need <= base + capacity
        BY <1>3, <1>5, <1>n
      <4> HIDE DEF F
      <4> QED
        BY <1>15, <3>1, <4>1
    <3>2. CASE i \in 1..F
      <4>1. /\ frames'[t][i].start = frames[t][i].start + d
            /\ frames'[t][i].need = frames[t][i].need /\ frames'[t][i].closure = frames[t][i].closure
            /\ frames[t][i].start < e - 1 /\ frames[t][i].start \in Nat /\ b <= frames[t][i].start
            /\ frames[t][i].start + frames[t][i].need <= b + old /\ frames[t][i].need \in Nat
            /\ frames[t][i].closure \in Closures
        BY <1>15, <3>2
      <4>2. frames'[t][i].closure \in Closures
        BY <4>1
      <4>3. PICK st, nd : st = frames[t][i].start /\ nd = frames[t][i].need
        OBVIOUS
      <4>4. /\ st \in Nat /\ nd \in Nat /\ st < e - 1 /\ b <= st /\ st + nd <= b + old
            /\ frames'[t][i].start = st + d /\ frames'[t][i].need = nd
        BY <4>1, <4>3
      <4>5. base <= st + d /\ st + d < e + d /\ (st + d) + nd <= base + capacity
        <5>1. /\ b \in Nat /\ e \in Nat /\ old \in Nat /\ capacity \in Nat /\ old <= capacity
              /\ base = b + d /\ d \in Int
          BY <1>3, <1>6
        <5> QED
          BY <4>4, <5>1
      <4> QED
        BY <4>2, <4>4, <4>5
    <3> QED
      BY <2>0, <3>1, <3>2
  <2>2. ASSUME NEW i \in 1..(F + 1), NEW j \in 1..(F + 1), i < j
        PROVE  frames'[t][i].start < frames'[t][j].start
    <3>0. i \in 1..F
      BY <2>0, <2>2
    <3>1. /\ frames'[t][i].start = frames[t][i].start + d
          /\ frames[t][i].start < e - 1 /\ frames[t][i].start \in Nat
      BY <1>15, <3>0
    <3>2. CASE j = F + 1
      <4>1. frames'[t][j].start = (e + d) - 1
        BY <1>15, <3>2
      <4> QED
        BY <1>3, <1>5, <3>1, <4>1
    <3>3. CASE j \in 1..F
      <4>1. frames'[t][j].start = frames[t][j].start + d /\ frames[t][j].start \in Nat
        BY <1>15, <3>3
      <4>2. frames[t][i].start < frames[t][j].start
        BY <2>2, <3>0, <3>3 DEF Inv, FramesFit, F
      <4>3. PICK p, q : p = frames[t][i].start /\ q = frames[t][j].start
        OBVIOUS
      <4>4. p \in Nat /\ q \in Nat /\ p < q /\ p + d < q + d
        BY <3>1, <4>1, <4>2, <4>3
      <4> QED
        BY <3>1, <4>1, <4>3, <4>4
    <3> QED
      BY <2>0, <3>2, <3>3
  <2>3. frames'[t][1].start = base
    <3>1. 1 \in 1..F
      BY <2>0
    <3>2. frames'[t][1].start = frames[t][1].start + d
      BY <1>15, <3>1
    <3>3. frames[t][1].start = b
      BY <1>0 DEF Inv, FramesFit, b
    <3> QED
      BY <1>6, <3>2, <3>3
  <2>4. Len(frames'[t]) = F + 1
    BY <1>15
  <2> HIDE DEF F
  <2> QED
    BY <1>6, <2>a, <2>1, <2>2, <2>3, <2>4 DEF FramesFit
<1>18. OpenInOrder(t)'
  <2> DEFINE list == openUpvalues[t]
  <2>1. InOrder(list, upvalue, captured, slots[t], b, e)
    BY DEF Inv, OpenInOrder, b, e
  <2>2. \A i \in 1..Len(list) : /\ list[i] \in DOMAIN upvalue'
                                /\ upvalue'[list[i]].localVarPtr = upvalue[list[i]].localVarPtr + d
    BY <1>8, <1>t, OpenOf DEF Ptr
  <2>3. b \in Int /\ e \in Int
    BY <1>3
  <2> HIDE DEF list
  <2>4. InOrder(list, upvalue', captured, slots[t], b + d, e + d)
    BY <2>1, <2>2, <2>3, InOrderMoves
  <2> QED
    BY <1>2, <1>6, <2>4 DEF OpenInOrder, list
<1>19. Apart'
  <2>1. ASSUME NEW s \in Thread, NEW r \in Thread, s # r, stack'[s].capacity > 0, stack'[r].capacity > 0
        PROVE  stack'[s].base # stack'[r].base
    <3>1. CASE s = t
      BY <1>4, <1>6, <2>1, <3>1
    <3>2. CASE r = t
      BY <1>4, <1>6, <2>1, <3>2
    <3>3. CASE s # t /\ r # t
      BY <1>6, <2>1, <3>3 DEF Inv, Apart
    <3> QED
      BY <3>1, <3>2, <3>3
  <2> QED
    BY <2>1 DEF Apart
<1>20. OwnVariables'
  <2>1. ASSUME NEW s \in Thread PROVE Len(slots'[s]) = stack'[s].esp - stack'[s].base
    <3>1. CASE s = t
      BY <1>2, <1>3, <1>5, <1>6, <3>1
    <3>2. CASE s # t
      BY <1>2, <1>6, <3>2, Numbers
    <3> QED
      BY <3>1, <3>2
  <2>2. \A s \in Thread : Len(slots'[s]) = Size(s)'
    BY <2>1 DEF Size
  <2> QED
    BY <1>2, <1>t, <2>2 DEF OwnVariables
<1>21. OneUpvalueEach'
  <2>1. ASSUME NEW u \in DOMAIN upvalue, ~IsOpen(u)'
        PROVE  Ptr(u)' = Closed /\ upvalue'[u].closedUpvalue \in Value
    <3>1. ~IsOpen(u) /\ u \notin Open(t)
      BY <1>10, <2>1 DEF IsOpen
    <3>2. upvalue'[u] = upvalue[u]
      BY <1>8, <3>1
    <3> QED
      BY <1>t, <3>1, <3>2 DEF OneUpvalueEach, Ptr
  <2> QED
    BY <1>2, <1>8, <1>9, <1>t, <2>1 DEF OneUpvalueEach
<1>22. Inv'
  <2>1. \A s \in Thread : StackFits(s)' /\ Written(s)' /\ FramesFit(s)' /\ OpenInOrder(s)'
    BY <1>12, <1>13, <1>14, <1>17, <1>18
  <2> QED
    BY <1>16, <1>19, <1>20, <1>21, <2>1 DEF Inv
<1>23. PICK gone \in SUBSET Var : gone = {}
  OBVIOUS
<1>24. Loses(gone)
  <2>1. ASSUME NEW y \in Var, NEW w \in Value, Holds(y, w) PROVE Holds(y, w)'
    <3>1. ASSUME NEW s \in Thread, NEW i \in 1..Len(slots[s]),
                 y = slots[s][i], w = mem[stack[s].base + i - 1]
          PROVE  Holds(y, w)'
      <4>0. /\ stack[s].base \in Nat /\ stack[s].esp \in Nat
            /\ Len(slots[s]) = stack[s].esp - stack[s].base
        BY Numbers
      <4>1. i \in Nat /\ stack[s].base + i - 1 \in stack[s].base..(stack[s].esp - 1)
        BY <4>0
      <4>2. mem'[stack'[s].base + i - 1] = w
        <5>1. CASE s = t
          <6>1. b + i - 1 \in b..(e - 1) /\ w = mem[b + i - 1]
            BY <3>1, <4>1, <5>1 DEF b, e
          <6>2. mem'[(b + i - 1) + d] = mem[b + i - 1]
            BY <1>7, <6>1
          <6>3. stack'[s].base + i - 1 = (b + i - 1) + d
            BY <1>3, <1>5, <1>6, <4>1, <5>1
          <6> QED
            BY <6>1, <6>2, <6>3
        <5>2. CASE s # t
          BY <1>6, <1>7, <3>1, <4>1, <5>2
        <5> QED
          BY <5>1, <5>2
      <4>3. i \in 1..Len(slots'[s]) /\ y = slots'[s][i]
        BY <1>2, <3>1
      <4> QED
        BY <4>2, <4>3 DEF Holds
    <3>2. ASSUME NEW u \in DOMAIN upvalue, ~IsOpen(u), y = captured[u], w = upvalue[u].closedUpvalue
          PROVE  Holds(y, w)'
      <4>1. u \notin Open(t)
        BY <3>2 DEF IsOpen
      <4>2. ~IsOpen(u)' /\ upvalue'[u] = upvalue[u] /\ u \in DOMAIN upvalue'
        BY <1>8, <1>10, <3>2, <4>1
      <4> QED
        BY <1>2, <3>2, <4>2 DEF Holds
    <3> QED
      BY <2>1, <3>1, <3>2 DEF Holds
  <2>2. ASSUME NEW y, y \in LiveVars' PROVE y \in LiveVars
    <3>1. \/ \E s \in Thread : \E j \in 1..Len(slots'[s]) : y = slots'[s][j]
          \/ \E h \in DOMAIN upvalue' : y = captured'[h]
      BY <1>16, <2>2, LiveInNext
    <3> QED
      BY <1>2, <1>8, <1>t, <3>1, LiveHas
  <2> QED
    BY <1>23, <2>1, <2>2 DEF Loses
<1> QED
  BY <1>22, <1>23, <1>24, Stutters

-----------------------------------------------------------------------------
(***************************************************************************)
(* A new thread, whose stack lies in a region of its own.                  *)
(***************************************************************************)
LEMMA FreeBaseIs ==
  ASSUME NEW b \in FreeBases
  PROVE  /\ b \in Bases /\ b \in Nat
         /\ \A s \in Thread : stack[s].capacity > 0 => stack[s].base # b
<1>1. PICK r \in 0..(Regions - 1) : b = r * REGION /\ ~InUse(r)
  BY DEF FreeBases
<1>2. b \in Bases
  BY <1>1 DEF Bases
<1> QED
  BY <1>1, <1>2, BasesApart DEF InUse

LEMMA LeastFreeBase ==
  ASSUME FreeBases # {}
  PROVE  Min(FreeBases) \in FreeBases
<1>1. FreeBases \subseteq Nat
  BY FreeBaseIs
<1>2. \E x \in FreeBases : \A y \in FreeBases : x <= y
  BY <1>1, LeastNumber
<1> QED
  BY <1>2 DEF Min

LEMMA NewThreadStep ==
  ASSUME Inv, NEW t \in Thread, NEW need \in Needs, NEW c \in Closures, NewThread(t, need, c)
  PROVE  Inv' /\ Cells!Next
<1>t. Types /\ OwnVariables /\ OneUpvalueEach
  BY DEF Inv
<1>n. need \in Nat \ {0}
  BY OpenUpvaluesAssumption
<1>1. PICK capacity \in Nat : capacity = CeilToPowerOf2(need + 1) /\ capacity >= need + 1
  BY <1>n, CeilIsEnough
<1>2. PICK b \in FreeBases, v \in Value :
        /\ stack' = [stack EXCEPT ![t] = [base |-> b, capacity |-> capacity, esp |-> b + 1]]
        /\ frames' = [frames EXCEPT ![t] = <<Frame(b, need, c)>>]
        /\ mem' = [mem EXCEPT ![b] = v]
  <2>1. Min(FreeBases) \in FreeBases
    BY LeastFreeBase DEF NewThread
  <2> QED
    BY <1>1, <2>1 DEF NewThread
<1>3. PICK x \in Var : x = Fresh(LiveVars) /\ x \notin LiveVars
  BY FreshIsNew DEF NewThread, RoomForVar
<1>4. /\ stack[t].capacity = 0 /\ capacity <= REGION
      /\ slots' = [slots EXCEPT ![t] = <<x>>]
      /\ openUpvalues' = openUpvalues /\ upvalue' = upvalue /\ captured' = captured
  BY <1>1, <1>3 DEF NewThread
<1>5. /\ openUpvalues[t] = <<>> /\ Len(slots[t]) = 0 /\ stack[t].base = 0 /\ stack[t].esp = 0
  <2>1. stack[t] = NoStack /\ openUpvalues[t] = <<>>
    BY <1>4 DEF Inv, StackFits
  <2>2. stack[t].base = 0 /\ stack[t].esp = 0
    BY <2>1 DEF NoStack
  <2>3. Len(slots[t]) = stack[t].esp - stack[t].base
    BY Numbers
  <2> QED
    BY <2>1, <2>2, <2>3
<1>6. /\ b \in Nat /\ b \in Bases /\ b \in Address
      /\ \A s \in Thread : stack[s].capacity > 0 => stack[s].base # b
  <2>1. /\ b \in Nat /\ b \in Bases
        /\ \A s \in Thread : stack[s].capacity > 0 => stack[s].base # b
    BY FreeBaseIs
  <2>2. b + REGION <= Regions * REGION
    BY <2>1, BasesApart
  <2>3. REGION \in Nat /\ Regions \in Nat
    BY OpenUpvaluesAssumption
  <2>4. Regions * REGION \in Nat
    BY <2>3
  <2>5. b < Regions * REGION
    BY <1>1, <1>4, <1>n, <2>1, <2>2, <2>3, <2>4
  <2> QED
    BY <2>1, <2>4, <2>5 DEF Address
<1>7. /\ \A s \in Thread : s # t => stack'[s] = stack[s] /\ frames'[s] = frames[s] /\ slots'[s] = slots[s]
      /\ stack'[t].base = b /\ stack'[t].capacity = capacity /\ stack'[t].esp = b + 1
      /\ frames'[t] = <<Frame(b, need, c)>> /\ slots'[t] = <<x>>
      /\ mem'[b] = v /\ \A a \in Address : a # b => mem'[a] = mem[a]
  <2>1. /\ \A s \in Thread : s # t => stack'[s] = stack[s] /\ frames'[s] = frames[s] /\ slots'[s] = slots[s]
        /\ stack'[t] = [base |-> b, capacity |-> capacity, esp |-> b + 1]
        /\ frames'[t] = <<Frame(b, need, c)>> /\ slots'[t] = <<x>>
    BY <1>2, <1>4, <1>t DEF Types
  <2>2. mem'[b] = v /\ \A a \in Address : a # b => mem'[a] = mem[a]
    BY <1>2, <1>6, <1>t DEF Types
  <2> QED
    BY <2>1, <2>2
<1>8. Types'
  <2>1. [base |-> b, capacity |-> capacity, esp |-> b + 1] \in [base : Nat, capacity : Nat, esp : Nat]
    BY <1>6
  <2>2. stack' \in [Thread -> [base : Nat, capacity : Nat, esp : Nat]]
    BY <1>2, <1>t, <2>1 DEF Types
  <2>3. c \in Nat
    BY <1>t, LenProperties DEF Types, Closures, NoClosure
  <2>4. Frame(b, need, c) \in [start : Nat, need : Needs, closure : Nat]
    BY <1>6, <2>3 DEF Frame
  <2>5. frames' \in [Thread -> Seq([start : Nat, need : Needs, closure : Nat])]
    <3>1. PICK list : list = <<Frame(b, need, c)>>
      OBVIOUS
    <3>2. list \in Seq([start : Nat, need : Needs, closure : Nat])
      BY <2>4, <3>1
    <3>3. frames' = [frames EXCEPT ![t] = list]
      BY <1>2, <3>1
    <3> QED
      BY <1>t, <3>2, <3>3 DEF Types
  <2>6. slots' \in [Thread -> Seq(Var)]
    BY <1>4, <1>t DEF Types
  <2>7. mem' \in [Address -> Value \union {Junk}]
    BY <1>2, <1>t DEF Types
  <2> QED
    BY <1>4, <1>t, <2>2, <2>5, <2>6, <2>7 DEF Types
<1>9. ASSUME NEW s \in Thread, s # t
      PROVE  Untouched(s) /\ StackFits(s)' /\ Written(s)' /\ FramesFit(s)' /\ OpenInOrder(s)'
  <2>1. ASSUME NEW a \in stack[s].base..(stack[s].esp - 1) PROVE mem'[a] = mem[a]
    <3>1. /\ stack[s].base \in Nat /\ stack[s].esp \in Nat /\ stack[s].capacity \in Nat
          /\ stack[s].esp <= stack[s].base + stack[s].capacity /\ a \in Address
      BY Numbers
    <3>2. stack[s].capacity > 0 /\ a \in Int
      BY <3>1
    <3>3. stack[s].base # b /\ stack[s].base \in Bases /\ stack[s].capacity <= REGION
      BY <1>6, <3>2 DEF Inv, StackFits
    <3>4. stack[s].base + REGION <= b \/ b + REGION <= stack[s].base
      BY <1>6, <3>3, BasesApart
    <3>5. REGION \in Nat /\ capacity <= REGION /\ capacity # 0
      BY <1>1, <1>4, <1>n, OpenUpvaluesAssumption
    <3>6. a # b
      BY <1>6, <3>1, <3>2, <3>3, <3>4, <3>5
    <3> QED
      BY <1>7, <3>1, <3>6
  <2>2. Untouched(s)
    BY <1>4, <1>7, <1>9, <2>1 DEF Untouched
  <2> QED
    BY <1>4, <2>2, Others
<1>10. StackFits(t)'
  <2>1. capacity # 0 /\ b < b + 1 /\ b + 1 <= b + capacity
    BY <1>1, <1>6, <1>n
  <2> QED
    BY <1>4, <1>6, <1>7, <2>1 DEF StackFits
<1>11. Written(t)'
  <2>1. \A a \in b..((b + 1) - 1) : a = b
    BY <1>6
  <2> QED
    BY <1>7, <2>1 DEF Written
<1>12. FramesFit(t)'
  <2>1. /\ Len(<<Frame(b, need, c)>>) = 1 /\ <<Frame(b, need, c)>>[1].start = b
        /\ <<Frame(b, need, c)>>[1].need = need /\ <<Frame(b, need, c)>>[1].closure = c
    BY DEF Frame
  <2>2. /\ Len(frames'[t]) = 1 /\ frames'[t][1].start = b
        /\ frames'[t][1].need = need /\ frames'[t][1].closure = c
    BY <1>7, <2>1
  <2>3. b < b + 1 /\ b <= b /\ b + need <= b + capacity
    BY <1>1, <1>6, <1>n
  <2>4. Closures' = Closures
    BY <1>4 DEF Closures
  <2>5. \A i \in 1..1 : i = 1
    OBVIOUS
  <2>6. \A i \in 1..Len(frames'[t]) :
         /\ frames'[t][i].closure \in Closures
         /\ b <= frames'[t][i].start /\ frames'[t][i].start < b + 1
         /\ frames'[t][i].start + frames'[t][i].need <= b + capacity
    BY <2>2, <2>3, <2>5
  <2>7. \A i, j \in 1..Len(frames'[t]) : i < j => frames'[t][i].start < frames'[t][j].start
    BY <2>2, <2>5
  <2> QED
    BY <1>7, <2>2, <2>4, <2>6, <2>7 DEF FramesFit
<1>13. OpenInOrder(t)'
  <2>1. openUpvalues'[t] = <<>>
    BY <1>4, <1>5
  <2> QED
    BY <2>1 DEF OpenInOrder, InOrder
<1>14. Apart'
  <2>1. ASSUME NEW s \in Thread, NEW r \in Thread, s # r, stack'[s].capacity > 0, stack'[r].capacity > 0
        PROVE  stack'[s].base # stack'[r].base
    <3>1. CASE s = t
      BY <1>6, <1>7, <2>1, <3>1
    <3>2. CASE r = t
      BY <1>6, <1>7, <2>1, <3>2
    <3>3. CASE s # t /\ r # t
      BY <1>7, <2>1, <3>3 DEF Inv, Apart
    <3> QED
      BY <3>1, <3>2, <3>3
  <2> QED
    BY <2>1 DEF Apart
<1>k. ASSUME NEW s \in Thread, NEW i \in 1..Len(slots'[s])
      PROVE  \/ s = t /\ i = 1 /\ slots'[s][i] = x
             \/ s # t /\ i \in 1..Len(slots[s]) /\ slots'[s][i] = slots[s][i] /\ slots[s][i] \in LiveVars
  <2>0. Len(slots'[t]) = 1 /\ slots'[t][1] = x /\ \A j \in 1..1 : j = 1
    BY <1>7
  <2>1. CASE s = t
    BY <2>0, <2>1
  <2>2. CASE s # t
    BY <1>7, <1>t, <2>2, LiveHas
  <2> QED
    BY <2>1, <2>2
<1>15. OwnVariables'
  <2>1. ASSUME NEW s \in Thread PROVE Len(slots'[s]) = stack'[s].esp - stack'[s].base
    <3>1. CASE s = t
      <4>1. Len(slots'[t]) = 1
        BY <1>7
      <4>2. stack'[t].esp - stack'[t].base = 1
        BY <1>6, <1>7
      <4> QED
        BY <3>1, <4>1, <4>2
    <3>2. CASE s # t
      BY <1>7, <3>2, Numbers
    <3> QED
      BY <3>1, <3>2
  <2>2. ASSUME NEW s \in Thread, NEW r \in Thread,
               NEW i \in 1..Len(slots'[s]), NEW j \in 1..Len(slots'[r]),
               slots'[s][i] = slots'[r][j]
        PROVE  s = r /\ i = j
    <3>1. CASE s = t
      BY <1>3, <1>k, <2>2, <3>1
    <3>2. CASE r = t
      BY <1>3, <1>k, <2>2, <3>2
    <3>3. CASE s # t /\ r # t
      <4>1. /\ i \in 1..Len(slots[s]) /\ j \in 1..Len(slots[r])
            /\ slots[s][i] = slots[r][j]
        BY <1>k, <2>2, <3>3
      <4> QED
        BY <1>t, <4>1 DEF OwnVariables
    <3> QED
      BY <3>1, <3>2, <3>3
  <2>3. \A s \in Thread : Len(slots'[s]) = Size(s)'
    BY <2>1 DEF Size
  <2> QED
    BY <2>2, <2>3 DEF OwnVariables
<1>o. /\ \A s \in Thread : Open(s)' = Open(s)
      /\ \A u : IsOpen(u)' <=> IsOpen(u)
  BY <1>4 DEF Open, IsOpen
<1>16. OneUpvalueEach'
  <2>1. ASSUME NEW s \in Thread, NEW i \in 1..Len(slots'[s]), NEW u \in DOMAIN upvalue,
               captured[u] = slots'[s][i]
        PROVE  u \in Open(s)
    <3>1. captured[u] \in LiveVars
      BY <1>t, LiveHas
    <3>2. i \in 1..Len(slots[s]) /\ captured[u] = slots[s][i]
      BY <1>3, <1>k, <2>1, <3>1
    <3> QED
      BY <1>t, <3>2 DEF OneUpvalueEach
  <2> QED
    BY <1>4, <1>o, <1>t, <2>1 DEF OneUpvalueEach, Ptr
<1>17. Inv'
  <2>1. \A s \in Thread : StackFits(s)' /\ Written(s)' /\ FramesFit(s)' /\ OpenInOrder(s)'
    BY <1>9, <1>10, <1>11, <1>12, <1>13
  <2> QED
    BY <1>8, <1>14, <1>15, <1>16, <2>1 DEF Inv
<1>18. Becomes({}, x, v)
  <2>1. ASSUME NEW y \in Var, NEW w \in Value, Holds(y, w) PROVE Holds(y, w)'
    <3>1. ASSUME NEW s \in Thread, NEW i \in 1..Len(slots[s]),
                 y = slots[s][i], w = mem[stack[s].base + i - 1]
          PROVE  Holds(y, w)'
      <4>0. s # t
        BY <1>5
      <4>1. /\ stack[s].base \in Nat /\ stack[s].esp \in Nat
            /\ Len(slots[s]) = stack[s].esp - stack[s].base
        BY Numbers
      <4>2. stack[s].base + i - 1 \in stack[s].base..(stack[s].esp - 1)
        BY <4>1
      <4>3. mem'[stack[s].base + i - 1] = mem[stack[s].base + i - 1] /\ stack'[s].base = stack[s].base
        BY <1>9, <4>0, <4>2 DEF Untouched
      <4>4. i \in 1..Len(slots'[s]) /\ y = slots'[s][i]
        BY <1>7, <3>1, <4>0
      <4> QED
        BY <3>1, <4>3, <4>4 DEF Holds
    <3>2. ASSUME NEW u \in DOMAIN upvalue, ~IsOpen(u), y = captured[u], w = upvalue[u].closedUpvalue
          PROVE  Holds(y, w)'
      BY <1>4, <1>o, <3>2 DEF Holds
    <3> QED
      BY <2>1, <3>1, <3>2 DEF Holds
  <2>2. Holds(x, v)'
    <3>1. 1 \in 1..Len(slots'[t]) /\ x = slots'[t][1]
      BY <1>7
    <3>2. v = mem'[stack'[t].base + 1 - 1]
      BY <1>6, <1>7
    <3> QED
      BY <3>1, <3>2 DEF Holds
  <2>3. ASSUME NEW y, y \in LiveVars' PROVE y \in LiveVars \/ y = x
    <3>1. \/ \E s \in Thread : \E i \in 1..Len(slots'[s]) : y = slots'[s][i]
          \/ \E u \in DOMAIN upvalue' : y = captured'[u]
      BY <1>8, <2>3, LiveInNext
    <3>2. CASE \E s \in Thread : \E i \in 1..Len(slots'[s]) : y = slots'[s][i]
      BY <1>k, <3>2
    <3>3. CASE \E u \in DOMAIN upvalue' : y = captured'[u]
      BY <1>4, <1>t, <3>3, LiveHas
    <3> QED
      BY <3>1, <3>2, <3>3
  <2> QED
    BY <2>1, <2>2, <2>3 DEF Becomes
<1> QED
  BY <1>3, <1>17, <1>18, MapsToDeclare

-----------------------------------------------------------------------------
(***************************************************************************)
(* The invariant, and what follows from it.                                *)
(***************************************************************************)
LEMMA InitInv == Init => Inv
<1> SUFFICES ASSUME Init PROVE Inv
  OBVIOUS
<1>1. /\ mem = [a \in Address |-> Junk] /\ stack = [t \in Thread |-> NoStack]
      /\ frames = [t \in Thread |-> <<>>] /\ openUpvalues = [t \in Thread |-> <<>>]
      /\ upvalue = <<>> /\ slots = [t \in Thread |-> <<>>] /\ captured = <<>>
  BY DEF Init
<1>2. /\ NoStack \in [base : Nat, capacity : Nat, esp : Nat]
      /\ NoStack.base = 0 /\ NoStack.capacity = 0 /\ NoStack.esp = 0
  BY DEF NoStack
<1>3. \A t \in Thread : /\ stack[t] = NoStack /\ frames[t] = <<>> /\ Len(frames[t]) = 0
                        /\ openUpvalues[t] = <<>> /\ Len(openUpvalues[t]) = 0
                        /\ slots[t] = <<>> /\ Len(slots[t]) = 0
  BY <1>1
<1>4. Types
  BY <1>1, <1>2 DEF Types
<1>5. DOMAIN upvalue = {}
  BY <1>1
<1>6. \A t \in Thread : StackFits(t)
  BY <1>2, <1>3 DEF StackFits
<1>7. \A t \in Thread : Written(t)
  BY <1>2, <1>3 DEF Written
<1>8. \A t \in Thread : FramesFit(t)
  BY <1>3 DEF FramesFit
<1>9. \A t \in Thread : OpenInOrder(t)
  BY <1>3 DEF OpenInOrder, InOrder
<1>10. Apart
  BY <1>2, <1>3 DEF Apart
<1>11. OwnVariables
  <2>1. \A t \in Thread : Size(t) = 0
    BY <1>2, <1>3 DEF Size
  <2> QED
    BY <1>3, <2>1 DEF OwnVariables
<1>12. OneUpvalueEach
  BY <1>5 DEF OneUpvalueEach
<1> QED
  BY <1>4, <1>6, <1>7, <1>8, <1>9, <1>10, <1>11, <1>12 DEF Inv

LEMMA InitCells == Init => cells = [x \in {} |-> x]
<1> SUFFICES ASSUME Init PROVE cells = [x \in {} |-> x]
  OBVIOUS
<1>1. LiveMeans
  BY InitInv, LiveIs DEF Inv
<1>2. (\A t \in Thread : Len(slots[t]) = 0) /\ DOMAIN upvalue = {}
  BY DEF Init
<1>3. LiveVars = {}
  BY <1>1, <1>2 DEF LiveMeans
<1> QED
  BY <1>3 DEF cells

LEMMA StutterStep ==
  ASSUME Inv, UNCHANGED vars
  PROVE  Inv' /\ cells' = cells
<1>1. /\ mem' = mem /\ stack' = stack /\ frames' = frames /\ openUpvalues' = openUpvalues
      /\ upvalue' = upvalue /\ slots' = slots /\ captured' = captured
  BY DEF vars, memory, ghosts
<1>2. Types' /\ Apart' /\ OwnVariables' /\ OneUpvalueEach'
  <2>1. Types' /\ Apart'
    BY <1>1 DEF Inv, Types, Apart
  <2>2. OwnVariables'
    BY <1>1 DEF Inv, OwnVariables, Size
  <2>3. OneUpvalueEach'
    BY <1>1 DEF Inv, OneUpvalueEach, Open, IsOpen, Ptr
  <2> QED
    BY <2>1, <2>2, <2>3
<1>3. ASSUME NEW t \in Thread PROVE StackFits(t)' /\ Written(t)' /\ FramesFit(t)' /\ OpenInOrder(t)'
  <2>1. StackFits(t) /\ Written(t) /\ FramesFit(t) /\ OpenInOrder(t)
    BY DEF Inv
  <2>2. StackFits(t)' /\ Written(t)'
    BY <1>1, <2>1 DEF StackFits, Written
  <2>3. FramesFit(t)'
    BY <1>1, <2>1 DEF FramesFit, Closures
  <2>4. OpenInOrder(t)'
    BY <1>1, <2>1 DEF OpenInOrder
  <2> QED
    BY <2>2, <2>3, <2>4
<1>4. cells' = cells
  BY <1>1 DEF cells, ValueOf, LiveVars
<1> QED
  BY <1>2, <1>3, <1>4 DEF Inv

\* Every step keeps the invariant, and is one of the abstract module or no step there.
LEMMA Steps ==
  ASSUME Inv, [Next]_vars
  PROVE  Inv' /\ (Cells!Next \/ cells' = cells)
<1>1. CASE UNCHANGED vars
  BY <1>1, StutterStep
<1>2. CASE Next
  <2>1. PICK t \in Thread :
          \/ \E need \in Needs, c \in Closures : NewThread(t, need, c) \/ Call(t, need, c)
          \/ CloseUpvalue(t) \/ Return(t) \/ Pop(t) \/ LoadUpvalue(t)
          \/ \E v \in Value : Push(t, v) \/ StoreUpvalue(t, v)
          \/ \E i \in 0..REGION - 1 : Capture(t, i) \/ \E v \in Value : StoreLocalVar(t, i, v)
    BY <1>2 DEF Next
  <2>2. ASSUME NEW need \in Needs, NEW c \in Closures, NewThread(t, need, c)
        PROVE  Inv' /\ Cells!Next
    BY <2>2, NewThreadStep
  <2>3. ASSUME NEW need \in Needs, NEW c \in Closures, Call(t, need, c)
        PROVE  Inv' /\ cells' = cells
    BY <2>3, CallStep
  <2>4. CASE CloseUpvalue(t)
    BY <2>4, CloseUpvalueStep
  <2>5. CASE Return(t)
    BY <2>5, ReturnStep
  <2>6. CASE Pop(t)
    BY <2>6, PopStep
  <2>7. CASE LoadUpvalue(t)
    BY <2>7, LoadUpvalueStep
  <2>8. ASSUME NEW v \in Value, Push(t, v)
        PROVE  Inv' /\ Cells!Next
    BY <2>8, PushStep
  <2>9. ASSUME NEW v \in Value, StoreUpvalue(t, v)
        PROVE  Inv' /\ Cells!Next
    BY <2>9, StoreUpvalueStep
  <2>10. ASSUME NEW i \in 0..(REGION - 1), Capture(t, i)
         PROVE  Inv' /\ cells' = cells
    BY <2>10, CaptureStep
  <2>11. ASSUME NEW i \in 0..(REGION - 1), NEW v \in Value, StoreLocalVar(t, i, v)
         PROVE  Inv' /\ Cells!Next
    BY <2>11, StoreLocalVarStep
  <2> QED
    BY <2>1, <2>2, <2>3, <2>4, <2>5, <2>6, <2>7, <2>8, <2>9, <2>10, <2>11
<1> QED
  BY <1>1, <1>2

LEMMA InvFollows == Inv => UpvaluesOK
<1> SUFFICES ASSUME Inv PROVE UpvaluesOK
  OBVIOUS
<1>t. Types /\ OwnVariables /\ OneUpvalueEach /\ Apart
  BY DEF Inv
<1>1. TypeOK
  <2>1. \A t \in Thread : \A a \in stack[t].base..stack[t].esp - 1 : mem[a] \in Value
    BY DEF Inv, Written
  <2>2. ASSUME NEW t \in Thread, NEW f \in ToSet(frames[t]) PROVE f.closure \in Closures /\ f.need \in Needs
    <3>1. frames[t] \in Seq([start : Nat, need : Needs, closure : Nat])
      BY Shapes
    <3>2. PICK i \in 1..Len(frames[t]) : f = frames[t][i]
      BY <3>1, ToSetOf
    <3>3. f.closure \in Closures
      BY <3>2 DEF Inv, FramesFit
    <3> QED
      BY <3>2, <3>3, Shapes
  <2>3. ASSUME NEW t \in Thread PROVE openUpvalues[t] \in Seq(DOMAIN upvalue) /\ Len(slots[t]) = Size(t)
    <3>1. openUpvalues[t] \in Seq(Nat)
      BY Shapes
    <3>2. \A i \in 1..Len(openUpvalues[t]) : openUpvalues[t][i] \in DOMAIN upvalue
      BY DEF Inv, OpenInOrder, InOrder
    <3> QED
      BY <1>t, <3>1, <3>2 DEF OwnVariables
  <2>4. \A u \in DOMAIN upvalue : upvalue[u].localVarPtr = Closed => upvalue[u].closedUpvalue \in Value
    BY UpvalueIs DEF Ptr
  <2>5. mem \in [Address -> Value \union {Junk}]
    BY <1>t DEF Types
  <2> QED
    BY <2>1, <2>2, <2>3, <2>4, <2>5 DEF TypeOK
<1>2. FramesOnTheirStack
  <2>1. ASSUME NEW t \in Thread, frames[t] # <<>>
        PROVE  /\ frames[t][1].start = stack[t].base
               /\ \A i \in 2..Len(frames[t]) : frames[t][i].start > frames[t][i - 1].start
               /\ Top(t).start < stack[t].esp
               /\ Top(t).start + Top(t).need <= stack[t].base + stack[t].capacity
    <3>1. FramesFit(t) /\ Len(frames[t]) \in Nat
      BY <2>1, TopFrame DEF Inv
    <3>2. ASSUME NEW i \in 2..Len(frames[t]) PROVE frames[t][i].start > frames[t][i - 1].start
      <4>1. i \in 1..Len(frames[t]) /\ i - 1 \in 1..Len(frames[t]) /\ i - 1 < i
        BY <3>1
      <4>2. frames[t][i - 1].start < frames[t][i].start
        BY <3>1, <4>1 DEF FramesFit
      <4>3. frames[t][i - 1].start \in Nat /\ frames[t][i].start \in Nat
        BY <4>1, Shapes
      <4> QED
        BY <4>2, <4>3
    <3> QED
      BY <2>1, <3>1, <3>2, TopFrame DEF FramesFit
  <2> QED
    BY <1>t, <2>1 DEF FramesOnTheirStack, Apart
<1>3. DescendingUpvalues
  <2>1. \A t \in Thread : DOMAIN openUpvalues[t] = 1..Len(openUpvalues[t])
    BY <1>t DEF Types
  <2> QED
    BY <2>1 DEF DescendingUpvalues, Inv, OpenInOrder, InOrder
<1>4. UpvaluesFollowVariables
  <2> SUFFICES ASSUME NEW t \in Thread, NEW u \in DOMAIN upvalue
               PROVE  /\ u \in ToSet(openUpvalues[t]) =>
                           /\ upvalue[u].localVarPtr \in stack[t].base..stack[t].esp - 1
                           /\ slots[t][upvalue[u].localVarPtr - stack[t].base + 1] = captured[u]
                      /\ captured[u] \in ToSet(slots[t]) => u \in ToSet(openUpvalues[t])
                      /\ \A w \in DOMAIN upvalue : captured[w] = captured[u] => w = u
    BY DEF UpvaluesFollowVariables
  <2>1. u \in ToSet(openUpvalues[t]) =>
          /\ upvalue[u].localVarPtr \in stack[t].base..stack[t].esp - 1
          /\ slots[t][upvalue[u].localVarPtr - stack[t].base + 1] = captured[u]
    BY OpenIsThere DEF Open, Ptr
  <2>2. ASSUME captured[u] \in ToSet(slots[t]) PROVE u \in ToSet(openUpvalues[t])
    <3>1. slots[t] \in Seq(Var)
      BY Shapes
    <3>2. PICK i \in 1..Len(slots[t]) : captured[u] = slots[t][i]
      BY <2>2, <3>1, ToSetOf
    <3> QED
      BY <1>t, <3>2 DEF OneUpvalueEach, Open
  <2>3. \A w \in DOMAIN upvalue : captured[w] = captured[u] => w = u
    BY <1>t DEF OneUpvalueEach
  <2> QED
    BY <2>1, <2>2, <2>3
<1> QED
  BY <1>1, <1>2, <1>3, <1>4 DEF UpvaluesOK

\* Whatever threads call, return, capture and close, and wherever realloc() puts their
\* stacks: frames follow each other on a stack of their own, the lists of open upvalues
\* are descending, and each upvalue points at the variable it was created for.
THEOREM UpvaluesStayRight == Spec => []UpvaluesOK
<1>1. Init => Inv
  BY InitInv
<1>2. Inv /\ [Next]_vars => Inv'
  BY Steps
<1>3. Inv => UpvaluesOK
  BY InvFollows
<1> QED
  BY <1>1, <1>2, <1>3, PTL DEF Spec

\* A captured variable is one cell: each step declares, assigns or gives up variables as the
\* abstract module says, or changes none (moving stacks, capturing, closing).
THEOREM VariablesAreOneCell == Spec => VariablesAreCells
<1>1. Init => Inv /\ Cells!Init
  BY InitInv, InitCells DEF Cells!Init, cells
<1>2. Inv /\ [Next]_vars => Inv' /\ [Cells!Next]_([x \in LiveVars |-> ValueOf(x)])
  BY Steps DEF cells
<1> QED
  BY <1>1, <1>2, PTL DEF Spec, VariablesAreCells, Cells!Spec

=============================================================================
