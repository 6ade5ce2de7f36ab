---------------------------- MODULE CodegenProof ----------------------------
(***************************************************************************)
(* For programs of any length and blocks nested to any depth: the compiler *)
(* finds the variables in scope.  Then what ExecutionProof needs: code     *)
(* that agrees with a stack at each instruction, how it grows and how it   *)
(* is patched, and what the compiler remembers about loops.                *)
(***************************************************************************)
EXTENDS Codegen, Induction, SequenceTheorems, FiniteSetTheorems, TLAPS

-----------------------------------------------------------------------------
(***************************************************************************)
(* Sequences of sequences put together.                                    *)
(***************************************************************************)
Flattens(f, s) == f = [i \in 1..Len(s) |-> IF i = 1 THEN s[i] ELSE f[i - 1] \o s[i]]

LEMMA FlattensExists ==
  ASSUME NEW A, NEW s \in Seq(Seq(A)), s # <<>>
  PROVE  \E f \in [1..Len(s) -> Seq(A)] : Flattens(f, s)
<1> DEFINE step == [n \in Nat |-> [q \in Seq(A) |-> IF n + 1 \in 1..Len(s) THEN q \o s[n + 1] ELSE q]]
<1>1. Len(s) \in Nat /\ Len(s) > 0 /\ \A i \in 1..Len(s) : s[i] \in Seq(A)
  BY EmptySeq, LenProperties, ElementOfSeq
<1>2. step \in [Nat -> [Seq(A) -> Seq(A)]]
  <2> SUFFICES ASSUME NEW n \in Nat, NEW q \in Seq(A), n + 1 \in 1..Len(s) PROVE q \o s[n + 1] \in Seq(A)
    OBVIOUS
  <2> QED
    BY <1>1, ConcatProperties
<1>3. PICK g \in [0..(Len(s) - 1) -> Seq(A)] : Iterates(g, Len(s) - 1, s[1], step)
  <2>1. Len(s) - 1 \in Nat /\ s[1] \in Seq(A)
    BY <1>1
  <2> HIDE DEF step
  <2> QED
    BY <1>2, <2>1, RecursionUpTo
<1> DEFINE f == [i \in 1..Len(s) |-> g[i - 1]]
<1>4. f \in [1..Len(s) -> Seq(A)]
  BY <1>1, <1>3
<1>5. ASSUME NEW i \in 1..Len(s) PROVE f[i] = IF i = 1 THEN s[i] ELSE f[i - 1] \o s[i]
  <2>1. CASE i = 1
    BY <1>1, <1>3, <2>1 DEF Iterates
  <2>2. CASE i # 1
    <3>1. i - 1 \in 1..Len(s) - 1 /\ i - 1 \in 1..Len(s) /\ (i - 1) - 1 \in 0..Len(s) - 1 /\ i - 1 \in Nat /\ (i - 1) + 1 = i
      BY <1>1, <2>2
    <3>2. g[i - 1] = step[i - 1][g[(i - 1) - 1]]
      BY <1>3, <3>1 DEF Iterates
    <3>3. g[(i - 1) - 1] \in Seq(A)
      BY <1>3, <3>1
    <3>4. step[i - 1][g[(i - 1) - 1]] = g[(i - 1) - 1] \o s[i]
      BY <3>1, <3>3
    <3>5. f[i] = g[i - 1] /\ f[i - 1] = g[(i - 1) - 1]
      BY <3>1
    <3> QED
      BY <2>2, <3>2, <3>4, <3>5
  <2> QED
    BY <2>1, <2>2
<1> QED
  BY <1>4, <1>5 DEF Flattens

LEMMA FlattenIs ==
  ASSUME NEW A, NEW s \in Seq(Seq(A)), s # <<>>
  PROVE  \E f \in [1..Len(s) -> Seq(A)] : Flattens(f, s) /\ FlattenSeq(s) = f[Len(s)]
<1> DEFINE Body(f) == [i \in 1..Len(s) |-> IF i = 1 THEN s[i] ELSE f[i - 1] \o s[i]]
           flat == CHOOSE f : f = Body(f)
<1>1. Len(s) \in Nat /\ Len(s) > 0
  BY EmptySeq
<1>2. FlattenSeq(s) = flat[Len(s)]
  BY <1>1 DEF FlattenSeq
<1>3. PICK g \in [1..Len(s) -> Seq(A)] : Flattens(g, s)
  BY FlattensExists
<1>4. g = Body(g)
  BY <1>3 DEF Flattens
<1>5. flat = Body(flat)
  BY <1>4
<1> HIDE DEF flat
<1>6. Flattens(flat, s) /\ DOMAIN flat = 1..Len(s)
  BY <1>5 DEF Flattens
<1>7. \A i \in 1..Len(s) : flat[i] = g[i]
  <2> DEFINE S == {n \in 0..Len(s) : \A i \in 1..n : flat[i] = g[i]}
  <2>1. 0 \in S
    BY <1>1
  <2>2. ASSUME NEW n \in 0..(Len(s) - 1), n \in S PROVE n + 1 \in S
    <3>1. n + 1 \in 1..Len(s) /\ \A i \in 1..n : flat[i] = g[i]
      BY <1>1, <2>2
    <3>2. flat[n + 1] = (IF n + 1 = 1 THEN s[n + 1] ELSE flat[n] \o s[n + 1]) /\ g[n + 1] = IF n + 1 = 1 THEN s[n + 1] ELSE g[n] \o s[n + 1]
      <4>1. flat[n + 1] = IF n + 1 = 1 THEN s[n + 1] ELSE flat[(n + 1) - 1] \o s[n + 1]
        BY <1>5, <3>1
      <4>2. g[n + 1] = IF n + 1 = 1 THEN s[n + 1] ELSE g[(n + 1) - 1] \o s[n + 1]
        BY <1>4, <3>1
      <4>3. (n + 1) - 1 = n
        OBVIOUS
      <4> QED
        BY <4>1, <4>2, <4>3
    <3>3. n + 1 # 1 => flat[n] = g[n]
      BY <3>1
    <3>4. flat[n + 1] = g[n + 1]
      BY <3>2, <3>3
    <3>5. \A i \in 1..n + 1 : i = n + 1 \/ i \in 1..n
      OBVIOUS
    <3> QED
      BY <3>1, <3>4, <3>5
  <2>3. 0..Len(s) \subseteq S
    <3> HIDE DEF S
    <3> QED
      BY <1>1, <2>1, <2>2, InductionUpTo
  <2>4. Len(s) \in 0..Len(s)
    BY <1>1
  <2>5. Len(s) \in S
    BY <2>3, <2>4
  <2> QED
    BY <2>5
<1>8. flat = g
  <2>1. flat = [i \in 1..Len(s) |-> flat[i]] /\ g = [i \in 1..Len(s) |-> g[i]]
    BY <1>3, <1>6 DEF Flattens
  <2> QED
    BY <1>7, <2>1
<1> QED
  BY <1>2, <1>3, <1>8

\* The sequences of a sequence are put together from its first to its last.
LEMMA FlattenAppend ==
  ASSUME NEW A, NEW s \in Seq(Seq(A)), NEW x \in Seq(A)
  PROVE  /\ FlattenSeq(<<>>) = <<>>
         /\ FlattenSeq(s) \in Seq(A)
         /\ FlattenSeq(Append(s, x)) = FlattenSeq(s) \o x
<1> DEFINE t == Append(s, x)
           K == Len(s)
<1>1. /\ t \in Seq(Seq(A)) /\ t # <<>> /\ Len(t) = K + 1 /\ K \in Nat
      /\ \A i \in 1..K : t[i] = s[i]
      /\ t[K + 1] = x
  BY AppendProperties, LenProperties
<1>2. FlattenSeq(<<>>) = <<>>
  BY DEF FlattenSeq
<1>3. PICK f \in [1..Len(t) -> Seq(A)] : Flattens(f, t) /\ FlattenSeq(t) = f[Len(t)]
  BY <1>1, FlattenIs
<1> HIDE DEF t
<1>4. \A i \in 1..K + 1 : f[i] = IF i = 1 THEN t[i] ELSE f[i - 1] \o t[i]
  BY <1>1, <1>3 DEF Flattens
<1>5. CASE s = <<>>
  <2>1. K = 0 /\ FlattenSeq(s) = <<>> /\ FlattenSeq(s) \in Seq(A)
    BY <1>2, <1>5, EmptySeq
  <2>2. FlattenSeq(t) = x
    BY <1>1, <1>3, <1>4, <2>1
  <2> QED
    BY <1>2, <2>1, <2>2, ConcatEmptySeq DEF t
<1>6. CASE s # <<>>
  <2>1. PICK g \in [1..K -> Seq(A)] : Flattens(g, s) /\ FlattenSeq(s) = g[K]
    BY <1>6, FlattenIs
  <2>2. K > 0 /\ K \in 1..K /\ g[K] \in Seq(A)
    <3>1. K \in Nat \ {0}
      BY <1>6, EmptySeq
    <3> QED
      BY <2>1, <3>1
  <2>3. \A i \in 1..K : g[i] = IF i = 1 THEN s[i] ELSE g[i - 1] \o s[i]
    BY <2>1 DEF Flattens
  <2> DEFINE S == {n \in 0..K : \A i \in 1..n : f[i] = g[i]}
  <2>4. 0 \in S
    BY <1>1
  <2>5. ASSUME NEW n \in 0..(K - 1), n \in S PROVE n + 1 \in S
    <3>1. n + 1 \in 1..K /\ n + 1 \in 1..K + 1 /\ (\A i \in 1..n : f[i] = g[i]) /\ (n + 1) - 1 = n
      BY <1>1, <2>5
    <3>2. f[n + 1] = IF n + 1 = 1 THEN s[n + 1] ELSE f[n] \o s[n + 1]
      BY <1>1, <1>4, <3>1
    <3>3. g[n + 1] = IF n + 1 = 1 THEN s[n + 1] ELSE g[n] \o s[n + 1]
      BY <2>3, <3>1
    <3>4. n + 1 # 1 => f[n] = g[n]
      BY <3>1
    <3>5. \A i \in 1..n + 1 : i = n + 1 \/ i \in 1..n
      BY <1>1
    <3> QED
      BY <3>1, <3>2, <3>3, <3>4, <3>5
  <2>6. 0..K \subseteq S
    <3> HIDE DEF S
    <3> QED
      BY <1>1, <2>4, <2>5, InductionUpTo
  <2>7. f[K] = g[K]
    <3>0. K \in 0..K
      BY <1>1
    <3>1. K \in S
      BY <2>6, <3>0
    <3> QED
      BY <2>2, <3>1
  <2>8. K + 1 \in 1..K + 1 /\ K + 1 # 1 /\ (K + 1) - 1 = K
    BY <1>1, <2>2
  <2>9. f[K + 1] = f[K] \o x
    BY <1>1, <1>4, <2>8
  <2> QED
    BY <1>1, <1>2, <1>3, <2>1, <2>2, <2>7, <2>9 DEF t
<1> QED
  BY <1>5, <1>6

-----------------------------------------------------------------------------
(***************************************************************************)
(* What the functions of the compile unit do.                              *)
(***************************************************************************)
Names == Name \union {NoName, seqName, iterName}
LocalTypes == [name : Names, scopeDepth : Int, isUpvalue : BOOLEAN]
LoopTypes == [condStartIndex : Int, bodyStartIndex : Nat, scopeDepth : Int, exitIndex : Int]
UnitTypes == [isModule : BOOLEAN, scopeDepth : Int, localVars : Seq(LocalTypes), stackSlotNum : Int, maxSlots : Int,
              code : Seq(Int), upvalueNums : Seq(Nat), loops : Seq(LoopTypes)]

Opcodes == 0..END

\* Only the code is another, and the counts of slots.
SameBut(u, w) ==
  /\ w \in UnitTypes
  /\ w.isModule = u.isModule /\ w.scopeDepth = u.scopeDepth /\ w.localVars = u.localVars
  /\ w.upvalueNums = u.upvalueNums /\ w.loops = u.loops

\* The bytes are appended, and the stack is taken to grow by n slots.
Wrote(u, w, bytes, n) ==
  /\ SameBut(u, w) /\ w.code = u.code \o bytes
  /\ w.stackSlotNum = u.stackSlotNum + n /\ w.maxSlots >= u.maxSlots
  /\ u.maxSlots >= u.stackSlotNum => w.maxSlots >= w.stackSlotNum

LEMMA UnitFacts ==
  ASSUME NEW u \in UnitTypes
  PROVE  /\ u.isModule \in BOOLEAN /\ u.scopeDepth \in Int /\ u.localVars \in Seq(LocalTypes)
         /\ u.stackSlotNum \in Int /\ u.maxSlots \in Int /\ u.code \in Seq(Int)
         /\ u.upvalueNums \in Seq(Nat) /\ u.loops \in Seq(LoopTypes)
         /\ Count(u) = Len(u.code) /\ Count(u) \in Nat
BY LenProperties DEF UnitTypes, Count

LEMMA ByteFacts ==
  /\ BYTE \in Nat /\ BYTE > END + 1 /\ BYTE - 1 \in Int
  /\ \A n \in Int : High(n) \in 0..BYTE - 1 /\ Low(n) \in 0..BYTE - 1 /\ High(n) \in Int /\ Low(n) \in Int
BY CompileUnitAssumption DEF END, High, Low

LEMMA OpcodeFacts == \A op \in Opcodes : SlotsUsed(op) \in -1..1 /\ SlotsUsed(op) \in Int /\ op \in Int /\ <<op>> \in Seq(Int)
<1> SUFFICES ASSUME NEW op \in Opcodes PROVE SlotsUsed(op) \in -1..1 /\ op \in Int
  OBVIOUS
<1>1. SlotsUsed(op) \in {-1, 0, 1}
  BY DEF SlotsUsed
<1> QED
  BY <1>1 DEF Opcodes, END

LEMMA WriteBytesIs ==
  ASSUME NEW u \in UnitTypes, NEW b \in Seq(Int)
  PROVE  Wrote(u, WriteBytes(u, b), b, 0) /\ WriteBytes(u, b).maxSlots = u.maxSlots
<1>1. u.code \o b \in Seq(Int)
  BY UnitFacts, ConcatProperties
<1>2. WriteBytes(u, b) \in UnitTypes
  BY <1>1 DEF WriteBytes, UnitTypes
<1>3. LET w == WriteBytes(u, b) IN
      /\ w.isModule = u.isModule /\ w.scopeDepth = u.scopeDepth /\ w.localVars = u.localVars
      /\ w.upvalueNums = u.upvalueNums /\ w.loops = u.loops /\ w.code = u.code \o b
      /\ w.stackSlotNum = u.stackSlotNum /\ w.maxSlots = u.maxSlots
  BY DEF WriteBytes, UnitTypes
<1>4. u.stackSlotNum + 0 = u.stackSlotNum /\ u.maxSlots >= u.maxSlots
  BY UnitFacts
<1> QED
  BY <1>2, <1>3, <1>4 DEF Wrote, SameBut

LEMMA WriteOpCodeIs ==
  ASSUME NEW u \in UnitTypes, NEW op \in Opcodes
  PROVE  Wrote(u, WriteOpCode(u, op), <<op>>, SlotsUsed(op))
<1> DEFINE w == WriteBytes(u, <<op>>)
           n == u.stackSlotNum + SlotsUsed(op)
<1>1. <<op>> \in Seq(Int) /\ n \in Int
  BY OpcodeFacts, UnitFacts
<1>2. Wrote(u, w, <<op>>, 0) /\ w.maxSlots = u.maxSlots
  BY <1>1, WriteBytesIs
<1>3. WriteOpCode(u, op) = [w EXCEPT !.stackSlotNum = n, !.maxSlots = IF n > u.maxSlots THEN n ELSE u.maxSlots]
  BY <1>2 DEF WriteOpCode, Wrote, SameBut, UnitTypes
<1> HIDE DEF w, n
<1> DEFINE v == [w EXCEPT !.stackSlotNum = n, !.maxSlots = IF n > u.maxSlots THEN n ELSE u.maxSlots]
<1>4. w \in UnitTypes /\ u.maxSlots \in Int
  BY <1>2, UnitFacts DEF Wrote, SameBut
<1>5. v \in UnitTypes
  BY <1>1, <1>4 DEF UnitTypes
<1>6. /\ v.isModule = w.isModule /\ v.scopeDepth = w.scopeDepth /\ v.localVars = w.localVars /\ v.code = w.code
      /\ v.upvalueNums = w.upvalueNums /\ v.loops = w.loops /\ v.stackSlotNum = n
      /\ v.maxSlots = IF n > u.maxSlots THEN n ELSE u.maxSlots
  BY <1>4 DEF UnitTypes
<1>7. n = u.stackSlotNum + SlotsUsed(op)
  BY DEF n
<1> HIDE DEF v
<1>8. Wrote(u, v, <<op>>, SlotsUsed(op))
  BY <1>1, <1>2, <1>4, <1>5, <1>6, <1>7 DEF Wrote, SameBut
<1> QED
  BY <1>3, <1>8 DEF v

LEMMA ConcatOne ==
  ASSUME NEW x, NEW y, NEW z
  PROVE  <<x>> \o <<y, z>> = <<x, y, z>>
<1> DEFINE S == {x, y, z}
           s == <<x>>
           t == <<y, z>>
           r == <<x, y, z>>
<1>1. s \in Seq(S) /\ t \in Seq(S) /\ r \in Seq(S) /\ Len(s) = 1 /\ Len(t) = 2 /\ Len(r) = 3
  OBVIOUS
<1>2. s[1] = x /\ t[1] = y /\ t[2] = z /\ r[1] = x /\ r[2] = y /\ r[3] = z
  OBVIOUS
<1> HIDE DEF S, s, t, r
<1>3. /\ s \o t \in Seq(S) /\ Len(s \o t) = Len(s) + Len(t)
      /\ \A i \in 1..Len(s) + Len(t) : (s \o t)[i] = IF i <= Len(s) THEN s[i] ELSE t[i - Len(s)]
  BY <1>1, ConcatProperties
<1>4. \A i \in 1..3 : (s \o t)[i] = r[i]
  <2>1. (s \o t)[1] = s[1] /\ (s \o t)[2] = t[1] /\ (s \o t)[3] = t[2]
    BY <1>1, <1>3
  <2>2. \A i \in 1..3 : i = 1 \/ i = 2 \/ i = 3
    OBVIOUS
  <2> QED
    BY <1>2, <2>1, <2>2
<1>5. s \o t = r
  BY <1>1, <1>3, <1>4, SeqEqual
<1> QED
  BY <1>5 DEF s, t, r

LEMMA ConcatTwice ==
  ASSUME NEW a \in Seq(Int), NEW b \in Seq(Int), NEW c \in Seq(Int)
  PROVE  (a \o b) \o c = a \o (b \o c)
OBVIOUS

\* An opcode and two more bytes.
LEMMA WroteThree ==
  ASSUME NEW u \in UnitTypes, NEW op \in Opcodes, NEW x \in Int, NEW y \in Int
  PROVE  Wrote(u, WriteBytes(WriteOpCode(u, op), <<x, y>>), <<op, x, y>>, SlotsUsed(op))
<1> DEFINE w == WriteOpCode(u, op)
           b == <<op>>
           c == <<x, y>>
           k == SlotsUsed(op)
           v == WriteBytes(w, c)
<1>1. Wrote(u, w, b, k) /\ w \in UnitTypes
  BY WriteOpCodeIs DEF Wrote, SameBut
<1>2. b \in Seq(Int) /\ c \in Seq(Int) /\ k \in Int
  BY OpcodeFacts
<1>3. Wrote(w, v, c, 0) /\ v \in UnitTypes
  BY <1>1, <1>2, WriteBytesIs DEF Wrote, SameBut
<1>5. b \o c = <<op, x, y>>
  BY ConcatOne
<1> HIDE DEF w, b, c, k, v
<1>6. v.code = u.code \o (b \o c)
  <2>1. PICK a : a = u.code
    OBVIOUS
  <2>2. a \in Seq(Int)
    BY <2>1, UnitFacts
  <2>3. (a \o b) \o c = a \o (b \o c)
    BY <1>2, <2>2, ConcatTwice
  <2> QED
    BY <1>1, <1>3, <2>1, <2>3 DEF Wrote
<1>7. SameBut(u, v)
  BY <1>1, <1>3 DEF Wrote, SameBut
<1>8. /\ u.stackSlotNum \in Int /\ w.stackSlotNum \in Int /\ v.stackSlotNum \in Int
      /\ u.maxSlots \in Int /\ w.maxSlots \in Int /\ v.maxSlots \in Int
  BY <1>1, <1>3, UnitFacts
<1>9. /\ v.stackSlotNum = u.stackSlotNum + k /\ v.maxSlots >= u.maxSlots
      /\ u.maxSlots >= u.stackSlotNum => v.maxSlots >= v.stackSlotNum
  BY <1>1, <1>2, <1>3, <1>8 DEF Wrote
<1> QED
  BY <1>5, <1>6, <1>7, <1>9 DEF Wrote, v, c, w, k

LEMMA WriteShortIs ==
  ASSUME NEW u \in UnitTypes, NEW op \in Opcodes, NEW n \in Int
  PROVE  Wrote(u, WriteShort(u, op, n), <<op, High(n), Low(n)>>, SlotsUsed(op))
BY WroteThree, ByteFacts DEF WriteShort

LEMMA EmitInstrWithPlaceholderIs ==
  ASSUME NEW u \in UnitTypes, NEW op \in Opcodes
  PROVE  /\ Wrote(u, EmitInstrWithPlaceholder(u, op), <<op, BYTE - 1, BYTE - 1>>, SlotsUsed(op))
         /\ Placeholder(EmitInstrWithPlaceholder(u, op)) = Count(u) + 1
<1>1. Wrote(u, EmitInstrWithPlaceholder(u, op), <<op, BYTE - 1, BYTE - 1>>, SlotsUsed(op))
  BY WroteThree, ByteFacts DEF EmitInstrWithPlaceholder
<1>2. Len(<<op, BYTE - 1, BYTE - 1>>) = 3 /\ <<op, BYTE - 1, BYTE - 1>> \in Seq(Int)
  BY ByteFacts, OpcodeFacts
<1>3. Len(EmitInstrWithPlaceholder(u, op).code) = Len(u.code) + 3
  BY <1>1, <1>2, UnitFacts, ConcatProperties DEF Wrote
<1> QED
  BY <1>1, <1>3, UnitFacts DEF Count, Placeholder

LEMMA PatchPlaceholderIs ==
  ASSUME NEW u \in UnitTypes, NEW a \in Int
  PROVE  LET w == PatchPlaceholder(u, a)
             n == Count(u) - a - 2
         IN  /\ SameBut(u, w) /\ w.stackSlotNum = u.stackSlotNum /\ w.maxSlots = u.maxSlots
             /\ Len(w.code) = Len(u.code)
             /\ \A i \in 1..Len(u.code) :
                  w.code[i] = IF i = a + 2 THEN Low(n) ELSE IF i = a + 1 THEN High(n) ELSE u.code[i]
<1> DEFINE n == Count(u) - a - 2
           c == [[u.code EXCEPT ![a + 1] = High(n)] EXCEPT ![a + 2] = Low(n)]
<1>0. n \in Int
  BY UnitFacts
<1>1. n \in Int /\ High(n) \in Int /\ Low(n) \in Int
  BY <1>0, ByteFacts
<1>2. u.code \in [1..Len(u.code) -> Int] /\ Len(u.code) \in Nat
  BY UnitFacts, LenProperties
<1> HIDE DEF n
<1>3. c \in [1..Len(u.code) -> Int] /\ \A i \in 1..Len(u.code) :
        c[i] = IF i = a + 2 THEN Low(n) ELSE IF i = a + 1 THEN High(n) ELSE u.code[i]
  BY <1>1, <1>2
<1>4. PatchPlaceholder(u, a) = [u EXCEPT !.code = c]
  BY DEF PatchPlaceholder, n, UnitTypes
<1> HIDE DEF c
<1>5. c \in Seq(Int) /\ Len(c) = Len(u.code)
  BY <1>2, <1>3
<1>6. [u EXCEPT !.code = c] \in UnitTypes
  BY <1>5 DEF UnitTypes
<1> QED
  BY <1>3, <1>4, <1>5, <1>6 DEF UnitTypes, SameBut, n

-----------------------------------------------------------------------------
(***************************************************************************)
(* Scopes.  ss is what the program says: the variables of each block.      *)
(***************************************************************************)
\* The number of variables of the first k blocks.
UpTo(ss, k) == Len(FlattenSeq(SubSeq(ss, 1, k)))

Blocks == Seq(Seq(Names))

LEMMA SubSeqIs ==
  ASSUME NEW A, NEW s \in Seq(A), NEW k \in 0..Len(s)
  PROVE  /\ SubSeq(s, 1, k) \in Seq(A) /\ Len(SubSeq(s, 1, k)) = k
         /\ \A i \in 1..k : SubSeq(s, 1, k)[i] = s[i]
         /\ k < Len(s) => SubSeq(s, 1, k + 1) = Append(SubSeq(s, 1, k), s[k + 1])
<1>1. Len(s) \in Nat /\ \A i \in 1..Len(s) : s[i] \in A
  BY LenProperties, ElementOfSeq
<1>2. \A m \in 0..Len(s) : /\ SubSeq(s, 1, m) \in Seq(A) /\ Len(SubSeq(s, 1, m)) = m
                           /\ \A i \in 1..m : SubSeq(s, 1, m)[i] = s[i]
  <2> SUFFICES ASSUME NEW m \in 0..Len(s)
               PROVE  /\ SubSeq(s, 1, m) \in Seq(A) /\ Len(SubSeq(s, 1, m)) = m
                      /\ \A i \in 1..m : SubSeq(s, 1, m)[i] = s[i]
    OBVIOUS
  <2>1. \A i \in 1..m : s[i] \in A
    BY <1>1
  <2> QED
    BY <1>1, <2>1, SubSeqProperties
<1>3. ASSUME k < Len(s) PROVE SubSeq(s, 1, k + 1) = Append(SubSeq(s, 1, k), s[k + 1])
  <2> DEFINE t == SubSeq(s, 1, k)
             v == SubSeq(s, 1, k + 1)
  <2>1. k + 1 \in 0..Len(s) /\ k + 1 \in 1..Len(s) /\ k \in Nat
    BY <1>1, <1>3
  <2>2. t \in Seq(A) /\ Len(t) = k /\ v \in Seq(A) /\ Len(v) = k + 1 /\ s[k + 1] \in A
    BY <1>1, <1>2, <2>1
  <2>3. (\A i \in 1..k : t[i] = s[i]) /\ \A i \in 1..k + 1 : v[i] = s[i]
    BY <1>2, <2>1
  <2> HIDE DEF t, v
  <2>4. /\ Append(t, s[k + 1]) \in Seq(A) /\ Len(Append(t, s[k + 1])) = k + 1
        /\ \A i \in 1..k : Append(t, s[k + 1])[i] = t[i]
        /\ Append(t, s[k + 1])[k + 1] = s[k + 1]
    BY <2>2, AppendProperties
  <2>5. \A i \in 1..k + 1 : v[i] = Append(t, s[k + 1])[i]
    <3>1. \A i \in 1..k + 1 : i = k + 1 \/ i \in 1..k
      BY <2>1
    <3>2. k + 1 \in 1..k + 1 /\ \A i \in 1..k : i \in 1..k + 1
      BY <2>1
    <3> QED
      BY <2>3, <2>4, <3>1, <3>2
  <2>6. v = Append(t, s[k + 1])
    BY <2>2, <2>4, <2>5, SeqEqual
  <2> QED
    BY <2>6 DEF t, v
<1> QED
  BY <1>2, <1>3

LEMMA UpToFacts ==
  ASSUME NEW ss \in Blocks
  PROVE  /\ Len(ss) \in Nat /\ UpTo(ss, 0) = 0 /\ UpTo(ss, Len(ss)) = Len(FlattenSeq(ss))
         /\ \A k \in 0..Len(ss) : UpTo(ss, k) \in Nat
         /\ \A k \in 0..Len(ss) - 1 : UpTo(ss, k + 1) = UpTo(ss, k) + Len(ss[k + 1])
         /\ \A j, k \in 0..Len(ss) : j <= k => UpTo(ss, j) <= UpTo(ss, k)
<1>1. Len(ss) \in Nat /\ ss \in Seq(Seq(Names)) /\ \A i \in 1..Len(ss) : ss[i] \in Seq(Names)
  BY LenProperties, ElementOfSeq DEF Blocks
<1>2. UpTo(ss, 0) = 0
  <2>1. SubSeq(ss, 1, 0) = <<>>
    BY SubSeqEmpty
  <2>2. <<>> \in Seq(Seq(Names)) /\ <<>> \in Seq(Names) /\ Len(<<>>) = 0
    BY EmptySeq
  <2> QED
    BY <2>1, <2>2, FlattenAppend DEF UpTo
<1>3. SubSeq(ss, 1, Len(ss)) = ss
  BY <1>1, SubSeqFull
<1>4. ASSUME NEW k \in 0..Len(ss) PROVE UpTo(ss, k) \in Nat
  <2>1. SubSeq(ss, 1, k) \in Seq(Seq(Names)) /\ <<>> \in Seq(Names)
    BY <1>1, SubSeqIs, EmptySeq
  <2>2. FlattenSeq(SubSeq(ss, 1, k)) \in Seq(Names)
    BY <2>1, FlattenAppend
  <2> QED
    BY <2>2, LenProperties DEF UpTo
<1>5. ASSUME NEW k \in 0..Len(ss) - 1 PROVE UpTo(ss, k + 1) = UpTo(ss, k) + Len(ss[k + 1])
  <2> DEFINE t == SubSeq(ss, 1, k)
  <2>1. t \in Seq(Seq(Names)) /\ SubSeq(ss, 1, k + 1) = Append(t, ss[k + 1]) /\ ss[k + 1] \in Seq(Names)
    <3>1. k \in 0..Len(ss) /\ k < Len(ss) /\ k + 1 \in 1..Len(ss)
      BY <1>1
    <3> QED
      BY <1>1, <3>1, SubSeqIs
  <2> HIDE DEF t
  <2>2. FlattenSeq(t) \in Seq(Names) /\ FlattenSeq(Append(t, ss[k + 1])) = FlattenSeq(t) \o ss[k + 1]
    BY <2>1, FlattenAppend
  <2>3. Len(FlattenSeq(t) \o ss[k + 1]) = Len(FlattenSeq(t)) + Len(ss[k + 1])
    BY <2>1, <2>2, ConcatProperties
  <2> QED
    BY <2>1, <2>2, <2>3 DEF UpTo, t
<1>6. ASSUME NEW j \in 0..Len(ss) PROVE \A k \in 0..Len(ss) : j <= k => UpTo(ss, j) <= UpTo(ss, k)
  <2> DEFINE S == {n \in 0..Len(ss) : j <= n => UpTo(ss, j) <= UpTo(ss, n)}
  <2>1. 0 \in S
    <3>1. 0 \in 0..Len(ss) /\ (j <= 0 => j = 0) /\ UpTo(ss, 0) <= UpTo(ss, 0)
      BY <1>1, <1>2
    <3> QED
      BY <3>1
  <2>2. ASSUME NEW n \in 0..(Len(ss) - 1), n \in S PROVE n + 1 \in S
    <3>1. n + 1 \in 0..Len(ss) /\ n + 1 \in 1..Len(ss) /\ n \in 0..Len(ss)
      BY <1>1
    <3>2. Len(ss[n + 1]) \in Nat /\ UpTo(ss, n) \in Nat /\ UpTo(ss, j) \in Nat /\ UpTo(ss, n + 1) = UpTo(ss, n) + Len(ss[n + 1])
      BY <1>1, <1>4, <1>5, <3>1, LenProperties
    <3>3. j <= n => UpTo(ss, j) <= UpTo(ss, n)
      BY <2>2
    <3>4. j <= n + 1 => j <= n \/ j = n + 1
      BY <3>1
    <3>5. j <= n + 1 => UpTo(ss, j) <= UpTo(ss, n + 1)
      BY <3>2, <3>3, <3>4
    <3> QED
      BY <3>1, <3>5
  <2>3. 0..Len(ss) \subseteq S
    <3> HIDE DEF S
    <3> QED
      BY <1>1, <2>1, <2>2, InductionUpTo
  <2> QED
    BY <2>3
<1> QED
  BY <1>1, <1>2, <1>3, <1>4, <1>5, <1>6 DEF UpTo

\* A prefix of the blocks has the same variables.
LEMMA UpToSame ==
  ASSUME NEW ss \in Blocks, NEW tt \in Blocks, NEW k \in 0..Len(ss), k <= Len(tt), \A i \in 1..k : ss[i] = tt[i]
  PROVE  UpTo(ss, k) = UpTo(tt, k)
<1>1. Len(ss) \in Nat /\ Len(tt) \in Nat /\ ss \in Seq(Seq(Names)) /\ tt \in Seq(Seq(Names)) /\ k \in 0..Len(tt)
  BY LenProperties DEF Blocks
<1> DEFINE s == SubSeq(ss, 1, k)
           t == SubSeq(tt, 1, k)
<1>2. s \in Seq(Seq(Names)) /\ Len(s) = k /\ \A i \in 1..k : s[i] = ss[i]
  BY <1>1, SubSeqIs
<1>3. t \in Seq(Seq(Names)) /\ Len(t) = k /\ \A i \in 1..k : t[i] = tt[i]
  BY <1>1, SubSeqIs
<1> HIDE DEF s, t
<1>4. s = t
  <2>1. \A i \in 1..Len(s) : s[i] = t[i]
    BY <1>2, <1>3
  <2> QED
    BY <1>2, <1>3, <2>1, SeqEqual
<1> QED
  BY <1>4 DEF UpTo, s, t

LEMMA MaxIs ==
  ASSUME NEW b \in Nat, NEW S, S \subseteq 0..b, S # {}
  PROVE  Max(S) \in S /\ \A y \in S : Max(S) >= y
<1> DEFINE R == {b - y : y \in S}
<1>1. R \subseteq Nat /\ R # {}
  <2>1. \A y \in S : b - y \in Nat
    OBVIOUS
  <2>2. PICK y : y \in S
    OBVIOUS
  <2>3. b - y \in R
    BY <2>2
  <2> QED
    BY <2>1, <2>3
<1>2. PICK m \in R : \A k \in R : m <= k
  <2> HIDE DEF R
  <2> QED
    BY <1>1, LeastNumber
<1>3. PICK x \in S : m = b - x
  BY <1>2
<1>4. \A y \in S : x >= y
  <2> SUFFICES ASSUME NEW y \in S PROVE x >= y
    OBVIOUS
  <2>1. b - y \in R
    OBVIOUS
  <2>2. m <= b - y
    BY <1>2, <2>1
  <2> QED
    BY <1>3, <2>2
<1> QED
  BY <1>4 DEF Max

\* The variables that are discarded are the last ones of the table.
LEMMA InnerFacts ==
  ASSUME NEW u \in UnitTypes, NEW d \in Int
  PROVE  \E m \in 0..Len(u.localVars) :
           /\ Len(Inner(u, d)) = Len(u.localVars) - m /\ Inner(u, d) \in Seq(LocalTypes)
           /\ \A i \in 1..Len(u.localVars) - m : Inner(u, d)[i] = u.localVars[Len(u.localVars) - i + 1]
           /\ m > 0 => u.localVars[m].scopeDepth < d
           /\ \A i \in m + 1..Len(u.localVars) : ~(u.localVars[i].scopeDepth < d)
<1> DEFINE v == u.localVars
           L == Len(v)
           kept == {i \in DOMAIN v : v[i].scopeDepth < d}
           m == Max(kept \union {0})
           t == SubSeq(v, m + 1, L)
<1>1. L \in Nat /\ DOMAIN v = 1..L /\ v \in Seq(LocalTypes) /\ \A i \in 1..L : v[i] \in LocalTypes
  BY UnitFacts, LenProperties, ElementOfSeq
<1>2. Inner(u, d) = [i \in 1..Len(t) |-> t[(Len(t) - i) + 1]]
  BY DEF Inner, Reverse
<1> HIDE DEF v, L
<1>3. kept \union {0} \subseteq 0..L /\ kept \union {0} # {}
  BY <1>1
<1>4. m \in kept \union {0} /\ \A y \in kept \union {0} : m >= y
  <2> HIDE DEF kept
  <2> QED
    BY <1>1, <1>3, MaxIs
<1>5. m \in 0..L
  BY <1>3, <1>4
<1>6. m > 0 => v[m].scopeDepth < d
  BY <1>4
<1>7. \A i \in m + 1..L : ~(v[i].scopeDepth < d)
  <2> SUFFICES ASSUME NEW i \in m + 1..L, v[i].scopeDepth < d PROVE FALSE
    OBVIOUS
  <2>1. i \in 1..L
    BY <1>1, <1>5
  <2>2. m >= i
    BY <1>1, <1>4, <2>1
  <2> QED
    BY <1>1, <1>5, <2>2
<1> HIDE DEF m, kept
<1>8. t \in Seq(LocalTypes) /\ Len(t) = L - m /\ \A i \in 1..L - m : t[i] = v[m + i]
  <2>1. \A i \in m + 1..L : v[i] \in LocalTypes
    BY <1>1, <1>5
  <2>2. m + 1 \in Int /\ L \in Int
    BY <1>1, <1>5
  <2>3. /\ t \in Seq(LocalTypes) /\ Len(t) = (IF m + 1 <= L THEN L - (m + 1) + 1 ELSE 0)
        /\ \A i \in 1..L - (m + 1) + 1 : t[i] = v[m + 1 + i - 1]
    BY <2>1, <2>2, SubSeqProperties
  <2>4. Len(t) = L - m /\ L - (m + 1) + 1 = L - m
    BY <1>1, <1>5, <2>3
  <2>5. ASSUME NEW i \in 1..L - m PROVE t[i] = v[m + i]
    <3>1. m + 1 + i - 1 = m + i
      BY <1>5
    <3> QED
      BY <2>3, <2>4, <3>1
  <2> QED
    BY <2>3, <2>4, <2>5
<1> HIDE DEF t
<1> DEFINE r == [i \in 1..Len(t) |-> t[(Len(t) - i) + 1]]
<1>9. r \in Seq(LocalTypes) /\ Len(r) = L - m /\ \A i \in 1..L - m : r[i] = v[L - i + 1]
  <2>1. Len(t) \in Nat /\ \A i \in 1..Len(t) : (Len(t) - i) + 1 \in 1..Len(t)
    BY <1>1, <1>5, <1>8
  <2>2. \A i \in 1..Len(t) : t[(Len(t) - i) + 1] \in LocalTypes
    BY <1>8, <2>1, ElementOfSeq
  <2>3. r \in [1..Len(t) -> LocalTypes]
    BY <2>2
  <2>4. r \in Seq(LocalTypes) /\ Len(r) = Len(t)
    BY <2>1, <2>3
  <2>5. ASSUME NEW i \in 1..L - m PROVE r[i] = v[L - i + 1]
    <3>1. r[i] = t[(Len(t) - i) + 1] /\ (Len(t) - i) + 1 \in 1..L - m /\ m + ((Len(t) - i) + 1) = L - i + 1
      BY <1>1, <1>5, <1>8
    <3> QED
      BY <1>8, <3>1
  <2> QED
    BY <1>8, <2>4, <2>5
<1> QED
  BY <1>1, <1>2, <1>5, <1>6, <1>7, <1>9 DEF v, L

LEMMA InnerIs ==
  ASSUME NEW u \in UnitTypes, NEW d \in Int, NEW m \in 0..Len(u.localVars),
         \A i \in 1..Len(u.localVars) : u.localVars[i].scopeDepth >= d <=> i > m
  PROVE  /\ Len(Inner(u, d)) = Len(u.localVars) - m /\ Inner(u, d) \in Seq(LocalTypes)
         /\ \A i \in 1..Len(u.localVars) - m : Inner(u, d)[i] = u.localVars[Len(u.localVars) - i + 1]
<1> DEFINE v == u.localVars
<1>1. Len(v) \in Nat /\ \A i \in 1..Len(v) : v[i] \in LocalTypes /\ v[i].scopeDepth \in Int
  <2>1. v \in Seq(LocalTypes)
    BY UnitFacts
  <2>2. Len(v) \in Nat /\ \A i \in 1..Len(v) : v[i] \in LocalTypes
    BY <2>1, LenProperties, ElementOfSeq
  <2>3. \A r \in LocalTypes : r.scopeDepth \in Int
    BY DEF LocalTypes
  <2> HIDE DEF v
  <2> QED
    BY <2>2, <2>3
<1>2. PICK k \in 0..Len(v) :
           /\ Len(Inner(u, d)) = Len(v) - k /\ Inner(u, d) \in Seq(LocalTypes)
           /\ \A i \in 1..Len(v) - k : Inner(u, d)[i] = v[Len(v) - i + 1]
           /\ k > 0 => v[k].scopeDepth < d
           /\ \A i \in k + 1..Len(v) : ~(v[i].scopeDepth < d)
  BY InnerFacts
<1>3. \A i \in 1..Len(v) : v[i].scopeDepth >= d <=> i > m
  OBVIOUS
<1>4. m \in 0..Len(v)
  OBVIOUS
<1> HIDE DEF v
<1>5. ~(k > m)
  BY <1>1, <1>2, <1>3, <1>4
<1>6. ~(m > k)
  <2> SUFFICES ASSUME m > k PROVE FALSE
    OBVIOUS
  <2>1. m \in 1..Len(v) /\ m \in k + 1..Len(v)
    BY <1>1, <1>4
  <2>2. ~(v[m].scopeDepth < d) /\ ~(v[m].scopeDepth >= d)
    BY <1>2, <1>3, <1>4, <2>1
  <2> QED
    BY <1>1, <2>1, <2>2
<1>7. k = m
  BY <1>1, <1>4, <1>5, <1>6
<1> QED
  BY <1>2, <1>7 DEF v

LEMMA UpToAppend ==
  ASSUME NEW tt \in Blocks, NEW b \in Seq(Names)
  PROVE  LET ss == Append(tt, b)
         IN  /\ ss \in Blocks /\ Len(ss) = Len(tt) + 1 /\ Len(tt) \in Nat
             /\ \A i \in 1..Len(tt) : ss[i] = tt[i]
             /\ ss[Len(ss)] = b
             /\ FlattenSeq(ss) = FlattenSeq(tt) \o b /\ FlattenSeq(tt) \in Seq(Names)
             /\ \A k \in 0..Len(tt) : UpTo(ss, k) = UpTo(tt, k)
             /\ UpTo(ss, Len(ss)) = UpTo(tt, Len(tt)) + Len(b)
<1> DEFINE ss == Append(tt, b)
<1>1. tt \in Seq(Seq(Names))
  BY DEF Blocks
<1>2. /\ ss \in Seq(Seq(Names)) /\ Len(ss) = Len(tt) + 1 /\ Len(tt) \in Nat /\ ss[Len(tt) + 1] = b
      /\ \A i \in 1..Len(tt) : ss[i] = tt[i]
  BY <1>1, AppendProperties, LenProperties
<1>3. FlattenSeq(ss) = FlattenSeq(tt) \o b /\ FlattenSeq(tt) \in Seq(Names)
  BY <1>1, FlattenAppend
<1> HIDE DEF ss
<1>4. ss \in Blocks
  BY <1>2 DEF Blocks
<1>5. ASSUME NEW k \in 0..Len(tt) PROVE UpTo(ss, k) = UpTo(tt, k)
  <2>1. k <= Len(ss) /\ \A i \in 1..k : tt[i] = ss[i]
    BY <1>2
  <2> QED
    BY <1>4, <2>1, UpToSame
<1>6. UpTo(ss, Len(ss)) = UpTo(tt, Len(tt)) + Len(b)
  <2>1. Len(tt) \in 0..Len(ss) - 1 /\ Len(tt) \in 0..Len(tt)
    BY <1>2
  <2>2. UpTo(ss, Len(tt) + 1) = UpTo(ss, Len(tt)) + Len(ss[Len(tt) + 1])
    BY <1>4, <2>1, UpToFacts
  <2> QED
    BY <1>2, <1>5, <2>1, <2>2
<1> QED
  BY <1>2, <1>3, <1>4, <1>5, <1>6 DEF ss

NamesOf(v) == [i \in DOMAIN v |-> v[i].name]

\* The variables of block k have a scope depth of k - 1, but for the closure's own slot.
DepthsOK(v, ss) == \A k \in 1..Len(ss) : \A i \in 1..Len(v) : v[i].scopeDepth >= k <=> i > UpTo(ss, k)

\* The table of variables is that of the blocks ss.
ScopesOK(u, ss) ==
  /\ u \in UnitTypes /\ ss \in Blocks /\ Len(ss) = u.scopeDepth + 1
  /\ u.isModule => u.localVars = <<>>
  /\ u.isModule \/ Len(ss) > 0
  /\ NamesOf(u.localVars) = FlattenSeq(ss)
  /\ DepthsOK(u.localVars, ss)

LEMMA NamesOfIs ==
  ASSUME NEW v \in Seq(LocalTypes)
  PROVE  /\ Len(v) \in Nat /\ DOMAIN v = 1..Len(v) /\ NamesOf(v) \in Seq(Names) /\ Len(NamesOf(v)) = Len(v)
         /\ \A i \in 1..Len(v) : /\ NamesOf(v)[i] = v[i].name /\ v[i].scopeDepth \in Int /\ v[i].name \in Names
                                 /\ v[i].isUpvalue \in BOOLEAN /\ v[i] \in LocalTypes
<1>1. Len(v) \in Nat /\ DOMAIN v = 1..Len(v) /\ \A i \in 1..Len(v) : v[i] \in LocalTypes
  BY LenProperties, ElementOfSeq
<1>2. \A r \in LocalTypes : r.name \in Names /\ r.scopeDepth \in Int /\ r.isUpvalue \in BOOLEAN
  BY DEF LocalTypes
<1>3. \A i \in 1..Len(v) : v[i].name \in Names
  BY <1>1, <1>2
<1>4. NamesOf(v) \in [1..Len(v) -> Names]
  BY <1>1, <1>3 DEF NamesOf
<1>5. NamesOf(v) \in Seq(Names) /\ Len(NamesOf(v)) = Len(v)
  BY <1>1, <1>4
<1> QED
  BY <1>1, <1>2, <1>5 DEF NamesOf

LEMMA ScopesFacts ==
  ASSUME NEW u, NEW ss, ScopesOK(u, ss)
  PROVE  /\ u \in UnitTypes /\ ss \in Blocks /\ u.localVars \in Seq(LocalTypes)
         /\ Len(u.localVars) \in Nat /\ Len(ss) \in Nat
         /\ UpTo(ss, Len(ss)) = Len(u.localVars)
         /\ \A k \in 0..Len(ss) : UpTo(ss, k) \in 0..Len(u.localVars)
         /\ \A i \in 1..Len(u.localVars) : u.localVars[i].scopeDepth \in Int /\ u.localVars[i].scopeDepth <= u.scopeDepth
<1>1. u \in UnitTypes /\ ss \in Blocks
  BY DEF ScopesOK
<1>2. u.localVars \in Seq(LocalTypes) /\ u.scopeDepth \in Int
  BY <1>1, UnitFacts
<1>3. Len(u.localVars) \in Nat /\ \A i \in 1..Len(u.localVars) : u.localVars[i].scopeDepth \in Int
  BY <1>2, NamesOfIs
<1>4. UpTo(ss, Len(ss)) = Len(u.localVars) /\ Len(ss) \in Nat
  <2>1. UpTo(ss, Len(ss)) = Len(FlattenSeq(ss)) /\ Len(ss) \in Nat
    BY <1>1, UpToFacts
  <2> QED
    BY <1>2, <2>1, NamesOfIs DEF ScopesOK
<1>5. ASSUME NEW k \in 0..Len(ss) PROVE UpTo(ss, k) \in 0..Len(u.localVars)
  <2>1. Len(ss) \in 0..Len(ss) /\ k <= Len(ss)
    BY <1>4
  <2>2. UpTo(ss, k) \in Nat /\ UpTo(ss, k) <= UpTo(ss, Len(ss))
    BY <1>1, <2>1, UpToFacts
  <2> QED
    BY <1>3, <1>4, <2>2
<1>6. ASSUME NEW i \in 1..Len(u.localVars) PROVE u.localVars[i].scopeDepth <= u.scopeDepth
  <2>1. Len(u.localVars) # 0
    BY <1>3
  <2>2. ~u.isModule
    <3>1. SUFFICES ASSUME u.isModule PROVE FALSE
      BY <1>1, UnitFacts
    <3>2. u.localVars = <<>>
      BY <3>1 DEF ScopesOK
    <3> QED
      BY <2>1, <3>2, EmptySeq
  <2>3. Len(ss) > 0 /\ Len(ss) = u.scopeDepth + 1
    BY <2>2 DEF ScopesOK
  <2>4. Len(ss) \in 1..Len(ss)
    BY <1>4, <2>3
  <2>5. u.localVars[i].scopeDepth >= Len(ss) <=> i > UpTo(ss, Len(ss))
    BY <2>4 DEF ScopesOK, DepthsOK
  <2> QED
    BY <1>2, <1>3, <1>4, <2>3, <2>5
<1> QED
  BY <1>1, <1>2, <1>3, <1>4, <1>5, <1>6

LEMMA ScopesSame ==
  ASSUME NEW u, NEW w, NEW ss, ScopesOK(u, ss), SameBut(u, w)
  PROVE  ScopesOK(w, ss)
BY DEF ScopesOK, SameBut

LEMMA EnterScopeIs ==
  ASSUME NEW u, NEW ss, ScopesOK(u, ss)
  PROVE  ScopesOK(EnterScope(u), Append(ss, <<>>))
<1> DEFINE w == EnterScope(u)
           tt == Append(ss, <<>>)
           v == u.localVars
<1>1. u \in UnitTypes /\ ss \in Blocks /\ Len(v) \in Nat /\ Len(ss) \in Nat /\ u.scopeDepth \in Int
  BY ScopesFacts, UnitFacts
<1>2. w \in UnitTypes /\ w.scopeDepth = u.scopeDepth + 1 /\ w.localVars = v /\ w.isModule = u.isModule
  <2>1. PICK d \in Int : d = u.scopeDepth + 1
    BY <1>1
  <2>2. w = [u EXCEPT !.scopeDepth = d]
    BY <1>1, <2>1 DEF EnterScope, UnitTypes
  <2> HIDE DEF w
  <2> QED
    BY <1>1, <2>1, <2>2 DEF UnitTypes
<1>3. <<>> \in Seq(Names) /\ Len(<<>>) = 0
  BY EmptySeq
<1>4. /\ tt \in Blocks /\ Len(tt) = Len(ss) + 1 /\ FlattenSeq(tt) = FlattenSeq(ss) \o <<>>
      /\ FlattenSeq(ss) \in Seq(Names) /\ UpTo(tt, Len(tt)) = UpTo(ss, Len(ss)) + 0
      /\ \A k \in 0..Len(ss) : UpTo(tt, k) = UpTo(ss, k)
  BY <1>1, <1>3, UpToAppend
<1> HIDE DEF w, tt
<1>5. FlattenSeq(tt) = FlattenSeq(ss)
  BY <1>4, ConcatEmptySeq
<1>6. DepthsOK(v, tt)
  <2> SUFFICES ASSUME NEW k \in 1..Len(tt), NEW i \in 1..Len(v)
               PROVE  v[i].scopeDepth >= k <=> i > UpTo(tt, k)
    BY DEF DepthsOK
  <2>1. CASE k = Len(ss) + 1
    <3>1. UpTo(tt, k) = Len(v) /\ v[i].scopeDepth \in Int /\ v[i].scopeDepth <= u.scopeDepth
      BY <1>1, <1>4, <2>1, ScopesFacts
    <3>2. Len(ss) = u.scopeDepth + 1
      BY DEF ScopesOK
    <3> QED
      BY <1>1, <2>1, <3>1, <3>2
  <2>2. CASE k # Len(ss) + 1
    <3>1. k \in 1..Len(ss) /\ k \in 0..Len(ss)
      BY <1>1, <1>4, <2>2
    <3> QED
      BY <1>4, <3>1 DEF ScopesOK, DepthsOK
  <2> QED
    BY <2>1, <2>2
<1>7. Len(tt) = w.scopeDepth + 1 /\ Len(tt) > 0
  BY <1>1, <1>2, <1>4 DEF ScopesOK
<1>8. ScopesOK(w, tt)
  BY <1>2, <1>4, <1>5, <1>6, <1>7 DEF ScopesOK
<1> QED
  BY <1>8 DEF w, tt

LEMMA AddLocalVarIs ==
  ASSUME NEW u, NEW tt \in Blocks, NEW b \in Seq(Names), ScopesOK(u, Append(tt, b)), ~u.isModule, NEW n \in Names
  PROVE  ScopesOK(AddLocalVar(u, n), Append(tt, Append(b, n)))
<1> DEFINE w == AddLocalVar(u, n)
           ss == Append(tt, b)
           rr == Append(tt, Append(b, n))
           v == u.localVars
           x == Local(n, u.scopeDepth)
           y == Append(v, x)
<1>1. u \in UnitTypes /\ v \in Seq(LocalTypes) /\ u.scopeDepth \in Int
  BY ScopesFacts, UnitFacts
<1>2. x \in LocalTypes /\ x.name = n /\ x.scopeDepth = u.scopeDepth
  BY <1>1 DEF Local, LocalTypes
<1>3. /\ y \in Seq(LocalTypes) /\ Len(y) = Len(v) + 1 /\ Len(v) \in Nat /\ y[Len(v) + 1] = x
      /\ \A i \in 1..Len(v) : y[i] = v[i]
  BY <1>1, <1>2, AppendProperties, LenProperties
<1>4. w \in UnitTypes /\ w.scopeDepth = u.scopeDepth /\ w.localVars = y /\ w.isModule = u.isModule
  <2> HIDE DEF x, y
  <2>1. w = [u EXCEPT !.localVars = y]
    BY <1>1 DEF AddLocalVar, UnitTypes, x, y
  <2> HIDE DEF w
  <2> QED
    BY <1>1, <1>3, <2>1 DEF UnitTypes
<1>5. /\ Append(b, n) \in Seq(Names) /\ Len(Append(b, n)) = Len(b) + 1 /\ Len(b) \in Nat
      /\ Append(b, n) = b \o <<n>> /\ <<n>> \in Seq(Names) /\ Len(<<n>>) = 1
  BY AppendProperties, LenProperties, AppendIsConcat
<1>6. /\ ss \in Blocks /\ Len(ss) = Len(tt) + 1 /\ FlattenSeq(ss) = FlattenSeq(tt) \o b /\ FlattenSeq(tt) \in Seq(Names)
      /\ UpTo(ss, Len(ss)) = UpTo(tt, Len(tt)) + Len(b) /\ Len(tt) \in Nat
      /\ \A k \in 0..Len(tt) : UpTo(ss, k) = UpTo(tt, k)
  BY UpToAppend
<1>7. /\ rr \in Blocks /\ Len(rr) = Len(tt) + 1 /\ FlattenSeq(rr) = FlattenSeq(tt) \o Append(b, n)
      /\ UpTo(rr, Len(rr)) = UpTo(tt, Len(tt)) + Len(Append(b, n))
      /\ \A k \in 0..Len(tt) : UpTo(rr, k) = UpTo(tt, k)
  BY <1>5, UpToAppend
<1>8. ScopesOK(u, ss) /\ Len(ss) = u.scopeDepth + 1
  BY DEF ScopesOK
<1>9. UpTo(ss, Len(ss)) = Len(v) /\ UpTo(tt, Len(tt)) \in Nat /\ \A k \in 0..Len(ss) : UpTo(ss, k) \in 0..Len(v)
  <2>1. Len(tt) \in 0..Len(tt)
    BY <1>6
  <2> QED
    BY <1>8, <2>1, ScopesFacts, UpToFacts
<1> HIDE DEF w, ss, rr, v, x, y
<1>10. NamesOf(y) = FlattenSeq(rr)
  <2>1. NamesOf(y) \in Seq(Names) /\ Len(NamesOf(y)) = Len(y) /\ \A i \in 1..Len(y) : NamesOf(y)[i] = y[i].name
    BY <1>3, NamesOfIs
  <2>2. NamesOf(v) \in Seq(Names) /\ Len(NamesOf(v)) = Len(v) /\ \A i \in 1..Len(v) : NamesOf(v)[i] = v[i].name
    BY <1>1, NamesOfIs
  <2>3. /\ Append(NamesOf(v), n) \in Seq(Names) /\ Len(Append(NamesOf(v), n)) = Len(v) + 1
        /\ Append(NamesOf(v), n)[Len(v) + 1] = n
        /\ \A i \in 1..Len(v) : Append(NamesOf(v), n)[i] = NamesOf(v)[i]
    BY <2>2, AppendProperties
  <2>4. \A i \in 1..Len(y) : NamesOf(y)[i] = Append(NamesOf(v), n)[i]
    <3>1. \A i \in 1..Len(y) : i = Len(v) + 1 \/ i \in 1..Len(v)
      BY <1>3
    <3> QED
      BY <1>2, <1>3, <2>1, <2>2, <2>3, <3>1
  <2>5. NamesOf(y) = Append(NamesOf(v), n)
    BY <1>3, <2>1, <2>3, <2>4, SeqEqual
  <2>6. NamesOf(v) = FlattenSeq(tt) \o b
    BY <1>6, <1>8 DEF ScopesOK, v
  <2>7. Append(NamesOf(v), n) = NamesOf(v) \o <<n>>
    BY <2>2, AppendIsConcat
  <2>8. ASSUME NEW p \in Seq(Names), NEW q \in Seq(Names), NEW r \in Seq(Names) PROVE (p \o q) \o r = p \o (q \o r)
    OBVIOUS
  <2>9. (FlattenSeq(tt) \o b) \o <<n>> = FlattenSeq(tt) \o (b \o <<n>>)
    BY <1>5, <1>6, <2>8
  <2> QED
    BY <1>5, <1>7, <2>5, <2>6, <2>7, <2>9
<1>11. DepthsOK(y, rr)
  <2> SUFFICES ASSUME NEW k \in 1..Len(rr), NEW i \in 1..Len(y)
               PROVE  y[i].scopeDepth >= k <=> i > UpTo(rr, k)
    BY DEF DepthsOK
  <2>1. k \in 1..Len(ss) /\ k \in 0..Len(ss) /\ k \in 0..Len(ss) /\ UpTo(ss, k) \in 0..Len(v)
    BY <1>6, <1>7, <1>9
  <2>2. \A j \in 1..Len(v) : v[j].scopeDepth >= k <=> j > UpTo(ss, k)
    BY <1>8, <2>1 DEF ScopesOK, DepthsOK, v
  <2>3. CASE k = Len(ss)
    <3>1. UpTo(rr, k) = Len(v) + 1 /\ UpTo(ss, k) = Len(v)
      <4>1. UpTo(rr, k) = UpTo(tt, Len(tt)) + Len(Append(b, n)) /\ UpTo(ss, k) = UpTo(tt, Len(tt)) + Len(b)
        BY <1>6, <1>7, <2>3
      <4> QED
        BY <1>5, <1>9, <2>3, <4>1
    <3>2. CASE i = Len(v) + 1
      BY <1>1, <1>2, <1>3, <1>8, <2>3, <3>1, <3>2
    <3>3. CASE i # Len(v) + 1
      <4>1. i \in 1..Len(v) /\ y[i] = v[i]
        BY <1>3, <3>3
      <4> QED
        BY <1>3, <2>2, <3>1, <4>1
    <3> QED
      BY <3>2, <3>3
  <2>4. CASE k # Len(ss)
    <3>1. k \in 0..Len(tt) /\ k <= u.scopeDepth /\ UpTo(rr, k) = UpTo(ss, k)
      BY <1>1, <1>6, <1>7, <1>8, <2>1, <2>4
    <3>2. CASE i = Len(v) + 1
      <4>1. y[i].scopeDepth = u.scopeDepth
        BY <1>2, <1>3, <3>2
      <4> QED
        BY <1>1, <1>3, <2>1, <3>1, <3>2, <4>1
    <3>3. CASE i # Len(v) + 1
      <4>1. i \in 1..Len(v) /\ y[i] = v[i]
        BY <1>3, <3>3
      <4> QED
        BY <1>3, <2>2, <3>1, <4>1
    <3> QED
      BY <3>2, <3>3
  <2> QED
    BY <2>3, <2>4
<1>12. ~w.isModule /\ Len(rr) = w.scopeDepth + 1 /\ Len(rr) > 0
  BY <1>4, <1>6, <1>7, <1>8
<1>13. ScopesOK(w, rr)
  BY <1>4, <1>7, <1>10, <1>11, <1>12 DEF ScopesOK
<1> QED
  BY <1>13 DEF w, rr

\* The instructions that take the variables of a scope depth of at least d off the stack.
Discards(u, d) == [i \in DOMAIN Inner(u, d) |-> IF Inner(u, d)[i].isUpvalue THEN CLOSE_UPVALUE ELSE POP]

LEMMA DiscardLocalVarIs ==
  ASSUME NEW u \in UnitTypes, NEW d \in Int
  PROVE  /\ Discards(u, d) \in Seq(Int) /\ Len(Discards(u, d)) = Len(Inner(u, d))
         /\ Wrote(u, DiscardLocalVar(u, d), Discards(u, d), 0)
         /\ DiscardLocalVar(u, d).maxSlots = u.maxSlots
<1>1. Inner(u, d) \in Seq(LocalTypes)
  BY InnerFacts
<1>2. DOMAIN Inner(u, d) = 1..Len(Inner(u, d)) /\ Len(Inner(u, d)) \in Nat
  BY <1>1, LenProperties
<1>3. Discards(u, d) \in [1..Len(Inner(u, d)) -> Int]
  BY <1>2 DEF Discards, CLOSE_UPVALUE, POP
<1>4. Discards(u, d) \in Seq(Int) /\ Len(Discards(u, d)) = Len(Inner(u, d))
  BY <1>2, <1>3
<1>5. DiscardLocalVar(u, d) = WriteBytes(u, Discards(u, d))
  BY DEF DiscardLocalVar, Discards
<1> QED
  BY <1>4, <1>5, WriteBytesIs

\* The code and the counts of slots do not matter for the scopes.
LEMMA LeaveScopeIs ==
  ASSUME NEW u, NEW tt \in Blocks, NEW b \in Seq(Names), ScopesOK(u, Append(tt, b)), u.isModule \/ Len(tt) > 0
  PROVE  /\ ScopesOK(LeaveScope(u), tt)
         /\ LeaveScope(u).isModule = u.isModule /\ LeaveScope(u).upvalueNums = u.upvalueNums
         /\ LeaveScope(u).loops = u.loops
<1> DEFINE d == u.scopeDepth
           v == u.localVars
           n == Len(Inner(u, d))
           w == DiscardLocalVar(u, d)
           left == IF u.isModule THEN u ELSE [w EXCEPT !.localVars = SubSeq(@, 1, Len(@) - n), !.stackSlotNum = @ - n]
           ss == Append(tt, b)
<1>1. LeaveScope(u) = [left EXCEPT !.scopeDepth = @ - 1]
  BY DEF LeaveScope
<1>2. u \in UnitTypes /\ v \in Seq(LocalTypes) /\ d \in Int /\ u.isModule \in BOOLEAN /\ u.stackSlotNum \in Int
  BY ScopesFacts, UnitFacts
<1>3. SameBut(u, w) /\ w.stackSlotNum \in Int
  <2>1. Wrote(u, w, Discards(u, d), 0)
    BY <1>2, DiscardLocalVarIs
  <2>2. w \in UnitTypes
    BY <2>1 DEF Wrote, SameBut
  <2> QED
    BY <2>1, <2>2, UnitFacts DEF Wrote
<1>4. /\ ss \in Blocks /\ Len(ss) = Len(tt) + 1 /\ FlattenSeq(ss) = FlattenSeq(tt) \o b /\ FlattenSeq(tt) \in Seq(Names)
      /\ UpTo(ss, Len(ss)) = UpTo(tt, Len(tt)) + Len(b) /\ Len(tt) \in Nat
      /\ \A k \in 0..Len(tt) : UpTo(ss, k) = UpTo(tt, k)
  BY UpToAppend
<1>5. ScopesOK(u, ss) /\ Len(ss) = d + 1 /\ d = Len(tt)
  BY <1>2, <1>4 DEF ScopesOK
<1>6. UpTo(tt, Len(tt)) \in 0..Len(v) /\ UpTo(tt, Len(tt)) = Len(FlattenSeq(tt)) /\ Len(v) \in Nat
  <2>1. Len(tt) \in 0..Len(tt) /\ Len(tt) \in 0..Len(ss)
    BY <1>4
  <2> QED
    BY <1>4, <1>5, <2>1, ScopesFacts, UpToFacts
<1> HIDE DEF w, ss
<1>7. CASE u.isModule
  <2>1. LeaveScope(u) = [u EXCEPT !.scopeDepth = d - 1]
    BY <1>1, <1>7
  <2>2. d - 1 \in Int
    BY <1>2
  <2> DEFINE r == [u EXCEPT !.scopeDepth = d - 1]
  <2>3. /\ r \in UnitTypes /\ r.scopeDepth = d - 1 /\ r.localVars = v /\ r.isModule = u.isModule
        /\ r.upvalueNums = u.upvalueNums /\ r.loops = u.loops
    <3>1. PICK e \in Int : e = d - 1
      BY <2>2
    <3>2. [u EXCEPT !.scopeDepth = e] \in UnitTypes
      BY <1>2 DEF UnitTypes
    <3> QED
      BY <1>2, <3>1, <3>2 DEF UnitTypes
  <2> HIDE DEF r
  <2>4. v = <<>> /\ Len(v) = 0
    <3>1. v = <<>>
      BY <1>5, <1>7 DEF ScopesOK
    <3> QED
      BY <3>1, EmptySeq
  <2>5. FlattenSeq(tt) = <<>>
    <3>1. Len(FlattenSeq(tt)) = 0
      BY <1>6, <2>4
    <3> QED
      BY <1>4, <3>1, EmptySeq
  <2>6. NamesOf(v) = FlattenSeq(tt)
    <3>1. NamesOf(v) \in Seq(Names) /\ Len(NamesOf(v)) = 0
      BY <1>2, <2>4, NamesOfIs
    <3>2. NamesOf(v) = <<>>
      BY <3>1, EmptySeq
    <3> QED
      BY <2>5, <3>2
  <2>7. DepthsOK(v, tt)
    BY <2>4 DEF DepthsOK
  <2>8. Len(tt) = r.scopeDepth + 1
    BY <1>2, <1>5, <2>3
  <2>9. ScopesOK(r, tt)
    BY <1>7, <2>3, <2>4, <2>6, <2>7, <2>8 DEF ScopesOK
  <2> QED
    BY <2>1, <2>3, <2>9 DEF r
<1>8. CASE ~u.isModule
  <2> DEFINE m == UpTo(tt, Len(tt))
             y == SubSeq(v, 1, m)
  <2>1. Len(tt) > 0 /\ d >= 1
    BY <1>4, <1>5, <1>8
  <2>2. d \in 1..Len(ss) /\ d \in 0..Len(tt)
    BY <1>2, <1>4, <1>5, <2>1
  <2>3. m \in 0..Len(v) /\ \A i \in 1..Len(v) : v[i].scopeDepth >= d <=> i > m
    BY <1>4, <1>5, <1>6, <2>2 DEF ScopesOK, DepthsOK
  <2>4. n = Len(v) - m
    <3> HIDE DEF m
    <3> QED
      BY <1>2, <2>3, InnerIs
  <2>5. w.localVars = v /\ w.scopeDepth = d /\ w.isModule = u.isModule /\ w.upvalueNums = u.upvalueNums /\ w.loops = u.loops /\ w \in UnitTypes
    BY <1>3 DEF SameBut
  <2> HIDE DEF m, n
  <2>6. left = [w EXCEPT !.localVars = y, !.stackSlotNum = w.stackSlotNum - n]
    <3>1. Len(w.localVars) - n = m
      BY <1>6, <2>3, <2>4, <2>5
    <3>2. [w EXCEPT !.localVars = SubSeq(@, 1, Len(@) - n), !.stackSlotNum = @ - n]
            = [w EXCEPT !.localVars = SubSeq(w.localVars, 1, Len(w.localVars) - n), !.stackSlotNum = w.stackSlotNum - n]
      BY <2>5 DEF UnitTypes
    <3> QED
      BY <1>8, <2>5, <3>1, <3>2
  <2>7. y \in Seq(LocalTypes) /\ Len(y) = m /\ \A i \in 1..m : y[i] = v[i]
    BY <1>2, <2>3, SubSeqIs
  <2>8. w.stackSlotNum - n \in Int /\ d - 1 \in Int
    BY <1>2, <1>3, <1>6, <2>3, <2>4
  <2> HIDE DEF y, left
  <2> DEFINE r == LeaveScope(u)
  <2>9. /\ r \in UnitTypes /\ r.scopeDepth = d - 1 /\ r.localVars = y /\ r.isModule = u.isModule
        /\ r.upvalueNums = u.upvalueNums /\ r.loops = u.loops
    <3>1. PICK e \in Int, f \in Int : e = w.stackSlotNum - n /\ f = d - 1
      BY <2>8
    <3>2. r = [[w EXCEPT !.localVars = y, !.stackSlotNum = e] EXCEPT !.scopeDepth = f]
      BY <1>1, <2>5, <2>6, <3>1 DEF UnitTypes
    <3> HIDE DEF r
    <3> QED
      BY <2>5, <2>7, <3>1, <3>2 DEF UnitTypes
  <2> HIDE DEF r
  <2>10. NamesOf(y) = FlattenSeq(tt)
    <3>1. NamesOf(y) \in Seq(Names) /\ Len(NamesOf(y)) = m /\ \A i \in 1..m : NamesOf(y)[i] = v[i].name
      BY <2>7, NamesOfIs
    <3>2. \A i \in 1..m : NamesOf(v)[i] = v[i].name
      <4>1. \A i \in 1..Len(v) : NamesOf(v)[i] = v[i].name
        BY <1>2, NamesOfIs
      <4>2. \A i \in 1..m : i \in 1..Len(v)
        BY <1>6, <2>3
      <4> QED
        BY <4>1, <4>2
    <3>3. NamesOf(v) = FlattenSeq(tt) \o b
      BY <1>4, <1>5 DEF ScopesOK
    <3>4. Len(FlattenSeq(tt)) = m
      BY <1>6 DEF m
    <3>5. \A i \in 1..m : (FlattenSeq(tt) \o b)[i] = FlattenSeq(tt)[i]
      <4>1. /\ Len(b) \in Nat
            /\ \A i \in 1..Len(FlattenSeq(tt)) + Len(b) :
                 (FlattenSeq(tt) \o b)[i] = IF i <= Len(FlattenSeq(tt)) THEN FlattenSeq(tt)[i] ELSE b[i - Len(FlattenSeq(tt))]
        BY <1>4, ConcatProperties, LenProperties
      <4> QED
        BY <2>3, <3>4, <4>1
    <3>6. \A i \in 1..Len(NamesOf(y)) : NamesOf(y)[i] = FlattenSeq(tt)[i]
      BY <3>1, <3>2, <3>3, <3>5
    <3> QED
      BY <1>4, <3>1, <3>4, <3>6, SeqEqual
  <2>11. DepthsOK(y, tt)
    <3> SUFFICES ASSUME NEW k \in 1..Len(tt), NEW i \in 1..Len(y)
                 PROVE  y[i].scopeDepth >= k <=> i > UpTo(tt, k)
      BY DEF DepthsOK
    <3>1. i \in 1..Len(v) /\ y[i] = v[i] /\ k \in 1..Len(ss) /\ UpTo(ss, k) = UpTo(tt, k)
      BY <1>4, <1>6, <2>3, <2>7
    <3> QED
      BY <1>5, <3>1 DEF ScopesOK, DepthsOK
  <2>12. Len(tt) = r.scopeDepth + 1
    BY <1>2, <1>5, <2>9
  <2>13. ScopesOK(r, tt)
    BY <1>8, <2>1, <2>9, <2>10, <2>11, <2>12 DEF ScopesOK
  <2> QED
    BY <2>9, <2>13 DEF r
<1> QED
  BY <1>2, <1>7, <1>8

-----------------------------------------------------------------------------
(***************************************************************************)
(* Statements: what they leave of the table of variables.                  *)
(***************************************************************************)
LEMMA SameButTwice ==
  ASSUME NEW u, NEW w, NEW x, SameBut(u, w), SameBut(w, x)
  PROVE  SameBut(u, x)
BY DEF SameBut

LEMMA OpcodeTypes ==
  /\ PUSH_NULL \in Opcodes /\ LOAD_LOCAL_VAR \in Opcodes /\ STORE_LOCAL_VAR \in Opcodes /\ LOAD_MODULE_VAR \in Opcodes
  /\ STORE_MODULE_VAR \in Opcodes /\ POP \in Opcodes /\ CALL1 \in Opcodes /\ JUMP \in Opcodes /\ LOOP \in Opcodes
  /\ JUMP_IF_FALSE \in Opcodes /\ AND \in Opcodes /\ OR \in Opcodes /\ CLOSE_UPVALUE \in Opcodes /\ RETURN \in Opcodes
  /\ CREATE_CLOSURE \in Opcodes /\ END \in Opcodes
BY DEF Opcodes, PUSH_NULL, LOAD_LOCAL_VAR, STORE_LOCAL_VAR, LOAD_MODULE_VAR, STORE_MODULE_VAR, POP, CALL1, JUMP, LOOP,
       JUMP_IF_FALSE, AND, OR, CLOSE_UPVALUE, RETURN, CREATE_CLOSURE, END

\* The functions that write code leave everything else.
LEMMA WritersKeep ==
  ASSUME NEW u \in UnitTypes
  PROVE  /\ \A op \in Opcodes : SameBut(u, WriteOpCode(u, op)) /\ SameBut(u, EmitInstrWithPlaceholder(u, op))
         /\ \A op \in Opcodes : \A n \in Int : SameBut(u, WriteShort(u, op, n))
         /\ \A b \in Seq(Int) : SameBut(u, WriteBytes(u, b))
         /\ \A a \in Int : SameBut(u, PatchPlaceholder(u, a))
         /\ \A d \in Int : SameBut(u, DiscardLocalVar(u, d))
         /\ SameBut(u, Expression(u)) /\ Placeholder(u) \in Int
<1>1. \A op \in Opcodes : SameBut(u, WriteOpCode(u, op)) /\ SameBut(u, EmitInstrWithPlaceholder(u, op))
  BY WriteOpCodeIs, EmitInstrWithPlaceholderIs DEF Wrote
<1>2. \A op \in Opcodes : \A n \in Int : SameBut(u, WriteShort(u, op, n))
  BY WriteShortIs DEF Wrote
<1>3. \A b \in Seq(Int) : SameBut(u, WriteBytes(u, b))
  BY WriteBytesIs DEF Wrote
<1>4. \A a \in Int : SameBut(u, PatchPlaceholder(u, a))
  BY PatchPlaceholderIs
<1>5. \A d \in Int : SameBut(u, DiscardLocalVar(u, d))
  BY DiscardLocalVarIs DEF Wrote
<1>6. SameBut(u, Expression(u))
  BY <1>2, OpcodeTypes DEF Expression
<1>7. Placeholder(u) \in Int
  BY UnitFacts DEF Placeholder
<1> QED
  BY <1>1, <1>2, <1>3, <1>4, <1>5, <1>6, <1>7

LEMMA LastIs ==
  ASSUME NEW A, NEW s \in Seq(A), s # <<>>
  PROVE  /\ Len(s) \in Nat /\ Len(s) > 0 /\ Last(s) = s[Len(s)] /\ Last(s) \in A
         /\ Front(s) \in Seq(A) /\ Len(Front(s)) = Len(s) - 1
         /\ \A i \in 1..Len(s) - 1 : Front(s)[i] = s[i]
         /\ s = Append(Front(s), Last(s))
<1>1. Len(s) \in Nat /\ Len(s) > 0
  BY EmptySeq
<1>2. Last(s) = s[Len(s)] /\ Last(s) \in A
  BY <1>1, ElementOfSeq DEF Last
<1>3. Len(s) - 1 \in 0..Len(s) /\ (Len(s) - 1) + 1 = Len(s) /\ Len(s) - 1 < Len(s)
  BY <1>1
<1> DEFINE k == Len(s) - 1
<1>4. k \in 0..Len(s) /\ k + 1 = Len(s) /\ k < Len(s)
  BY <1>3
<1>5. Front(s) = SubSeq(s, 1, k)
  BY DEF Front
<1> HIDE DEF k
<1>6. /\ SubSeq(s, 1, k) \in Seq(A) /\ Len(SubSeq(s, 1, k)) = k /\ \A i \in 1..k : SubSeq(s, 1, k)[i] = s[i]
      /\ SubSeq(s, 1, k + 1) = Append(SubSeq(s, 1, k), s[k + 1])
  BY <1>4, SubSeqIs
<1>7. SubSeq(s, 1, Len(s)) = s
  BY SubSeqFull
<1> QED
  BY <1>1, <1>2, <1>4, <1>5, <1>6, <1>7 DEF k

LEMMA JumpBackIs ==
  ASSUME NEW u \in UnitTypes, u.loops # <<>>
  PROVE  LET n == Count(u) - Last(u.loops).condStartIndex + 2
         IN  /\ n \in Int /\ Last(u.loops) \in LoopTypes
             /\ Wrote(u, JumpBack(u), <<LOOP, High(n), Low(n)>>, 0)
<1> DEFINE n == Count(u) - Last(u.loops).condStartIndex + 2
<1>1. Last(u.loops) \in LoopTypes /\ Count(u) \in Nat
  BY UnitFacts, LastIs
<1>2. n \in Int
  BY <1>1 DEF LoopTypes
<1>3. JumpBack(u) = WriteShort(u, LOOP, n)
  BY DEF JumpBack
<1> HIDE DEF n
<1>4. SlotsUsed(LOOP) = 0
  BY DEF SlotsUsed, PUSH_NULL, LOAD_LOCAL_VAR, LOAD_MODULE_VAR, CREATE_CLOSURE, POP, CALL1, JUMP_IF_FALSE, AND, OR, CLOSE_UPVALUE, LOOP
<1>5. Wrote(u, JumpBack(u), <<LOOP, High(n), Low(n)>>, 0)
  BY <1>2, <1>3, <1>4, OpcodeTypes, WriteShortIs
<1> QED
  BY <1>1, <1>2, <1>5 DEF n

LEMMA PatchBreaksIs ==
  ASSUME NEW u \in UnitTypes, NEW breaks
  PROVE  /\ SameBut(u, PatchBreaks(u, breaks))
         /\ PatchBreaks(u, breaks).stackSlotNum = u.stackSlotNum /\ PatchBreaks(u, breaks).maxSlots = u.maxSlots
         /\ Len(PatchBreaks(u, breaks).code) = Len(u.code)
         /\ \A i \in 1..Len(u.code) : PatchBreaks(u, breaks).code[i] =
              CASE i - 1 \in breaks -> JUMP
                [] i - 2 \in breaks -> High(Count(u) - i - 1)
                [] i - 3 \in breaks -> Low(Count(u) - i)
                [] OTHER -> u.code[i]
<1> DEFINE Byte(i) == CASE i - 1 \in breaks -> JUMP
                        [] i - 2 \in breaks -> High(Count(u) - i - 1)
                        [] i - 3 \in breaks -> Low(Count(u) - i)
                        [] OTHER -> u.code[i]
           c == [i \in DOMAIN u.code |-> Byte(i)]
<1>1. PatchBreaks(u, breaks) = [u EXCEPT !.code = c]
  BY DEF PatchBreaks, UnitTypes
<1>2. u.code \in Seq(Int) /\ Len(u.code) \in Nat /\ DOMAIN u.code = 1..Len(u.code) /\ Count(u) \in Nat
  BY UnitFacts, LenProperties
<1>3. ASSUME NEW i \in 1..Len(u.code) PROVE Byte(i) \in Int
  <2>1. u.code[i] \in Int /\ Count(u) - i - 1 \in Int /\ Count(u) - i \in Int
    BY <1>2, ElementOfSeq
  <2>2. JUMP \in Int /\ High(Count(u) - i - 1) \in Int /\ Low(Count(u) - i) \in Int
    BY <2>1, ByteFacts DEF JUMP
  <2> QED
    BY <2>1, <2>2
<1> HIDE DEF Byte
<1>4. c \in [1..Len(u.code) -> Int]
  BY <1>2, <1>3
<1>5. \A i \in 1..Len(u.code) : c[i] = Byte(i)
  BY <1>2
<1> HIDE DEF c
<1>6. c \in Seq(Int) /\ Len(c) = Len(u.code)
  BY <1>2, <1>4
<1>7. [u EXCEPT !.code = c] \in UnitTypes
  BY <1>6 DEF UnitTypes
<1>8. LET w == [u EXCEPT !.code = c] IN SameBut(u, w) /\ w.code = c /\ w.stackSlotNum = u.stackSlotNum /\ w.maxSlots = u.maxSlots
  BY <1>7 DEF UnitTypes, SameBut
<1> QED
  BY <1>1, <1>5, <1>6, <1>8 DEF Byte

\* Everything but the code, the counts of slots and the loops is as before.
SameVariables(u, w) ==
  /\ w \in UnitTypes
  /\ w.isModule = u.isModule /\ w.scopeDepth = u.scopeDepth /\ w.localVars = u.localVars
  /\ w.upvalueNums = u.upvalueNums

LEMMA ScopesSameVariables ==
  ASSUME NEW u, NEW w, NEW ss, ScopesOK(u, ss), SameVariables(u, w)
  PROVE  ScopesOK(w, ss)
BY DEF ScopesOK, SameVariables

LEMMA LeaveLoopPatchKeeps ==
  ASSUME NEW u \in UnitTypes, u.loops # <<>>
  PROVE  SameVariables(u, LeaveLoopPatch(u)) /\ LeaveLoopPatch(u).loops = Front(u.loops)
<1> DEFINE back == JumpBack(u)
           exited == PatchPlaceholder(back, Last(u.loops).exitIndex)
           breaks == BreaksFrom(exited, Last(u.loops).bodyStartIndex)
           broken == PatchBreaks(exited, breaks)
<1>1. LeaveLoopPatch(u) = [broken EXCEPT !.loops = Front(broken.loops)]
  BY DEF LeaveLoopPatch
<1>2. SameBut(u, back) /\ Last(u.loops).exitIndex \in Int
  BY JumpBackIs DEF Wrote, LoopTypes
<1>3. SameBut(back, exited)
  BY <1>2, PatchPlaceholderIs DEF SameBut
<1>4. SameBut(exited, broken)
  <2> HIDE DEF exited
  <2> QED
    BY <1>3, PatchBreaksIs DEF SameBut
<1> HIDE DEF broken, exited, back
<1>5. SameBut(u, broken)
  BY <1>2, <1>3, <1>4, SameButTwice
<1>6. Front(u.loops) \in Seq(LoopTypes) /\ broken.loops = u.loops /\ broken \in UnitTypes
  BY <1>5, UnitFacts, LastIs DEF SameBut
<1>7. [broken EXCEPT !.loops = Front(u.loops)] \in UnitTypes
  BY <1>6 DEF UnitTypes
<1> QED
  BY <1>1, <1>5, <1>6, <1>7 DEF SameBut, SameVariables, UnitTypes

LEMMA EnterLoopIs ==
  ASSUME NEW u \in UnitTypes
  PROVE  LET l == [condStartIndex |-> Count(u) - 1, bodyStartIndex |-> 0, scopeDepth |-> u.scopeDepth, exitIndex |-> 0]
             w == EnterLoop(u)
         IN  /\ l \in LoopTypes /\ SameVariables(u, w) /\ w.loops = Append(u.loops, l)
             /\ w.code = u.code /\ w.stackSlotNum = u.stackSlotNum /\ w.maxSlots = u.maxSlots
<1> DEFINE l == [condStartIndex |-> Count(u) - 1, bodyStartIndex |-> 0, scopeDepth |-> u.scopeDepth, exitIndex |-> 0]
<1>1. Count(u) - 1 \in Int /\ u.scopeDepth \in Int /\ u.loops \in Seq(LoopTypes)
  BY UnitFacts
<1>2. l \in LoopTypes
  BY <1>1 DEF LoopTypes
<1>3. EnterLoop(u) = [u EXCEPT !.loops = Append(u.loops, l)]
  BY DEF EnterLoop, UnitTypes
<1> HIDE DEF l
<1>4. Append(u.loops, l) \in Seq(LoopTypes)
  BY <1>1, <1>2, AppendProperties
<1>5. [u EXCEPT !.loops = Append(u.loops, l)] \in UnitTypes
  BY <1>4 DEF UnitTypes
<1> QED
  BY <1>2, <1>3, <1>5 DEF SameVariables, UnitTypes, l

\* The innermost loop gets another description.
LEMMA LoopChanged ==
  ASSUME NEW u \in UnitTypes, u.loops # <<>>, NEW l \in LoopTypes
  PROVE  LET w == [u EXCEPT !.loops[Len(u.loops)] = l]
         IN  /\ SameVariables(u, w) /\ w.loops = Append(Front(u.loops), l)
             /\ w.code = u.code /\ w.stackSlotNum = u.stackSlotNum /\ w.maxSlots = u.maxSlots
<1> DEFINE k == Len(u.loops)
           s == [u.loops EXCEPT ![k] = l]
           t == Append(Front(u.loops), l)
<1>1. /\ u.loops \in Seq(LoopTypes) /\ k \in Nat /\ k > 0 /\ Front(u.loops) \in Seq(LoopTypes)
      /\ Len(Front(u.loops)) = k - 1 /\ \A i \in 1..k - 1 : Front(u.loops)[i] = u.loops[i]
  BY UnitFacts, LastIs
<1>2. /\ s \in Seq(LoopTypes) /\ Len(s) = k /\ \A j \in 1..k : s[j] = IF j = k THEN l ELSE u.loops[j]
  BY <1>1, ExceptSeq
<1>3. /\ t \in Seq(LoopTypes) /\ Len(t) = (k - 1) + 1 /\ (\A i \in 1..k - 1 : t[i] = Front(u.loops)[i]) /\ t[(k - 1) + 1] = l
  BY <1>1, AppendProperties
<1> HIDE DEF t, s
<1>4. \A i \in 1..Len(s) : s[i] = t[i]
  <2> SUFFICES ASSUME NEW i \in 1..k PROVE s[i] = t[i]
    BY <1>2
  <2>1. CASE i = k
    BY <1>1, <1>2, <1>3, <2>1
  <2>2. CASE i # k
    <3>1. i \in 1..k - 1
      BY <1>1, <2>2
    <3> QED
      BY <1>1, <1>2, <1>3, <2>2, <3>1
  <2> QED
    BY <2>1, <2>2
<1>5. s = t
  BY <1>1, <1>2, <1>3, <1>4, SeqEqual
<1>6. [u EXCEPT !.loops[Len(u.loops)] = l] = [u EXCEPT !.loops = s]
  BY DEF s, UnitTypes
<1>7. [u EXCEPT !.loops = s] \in UnitTypes
  BY <1>2 DEF UnitTypes
<1> QED
  BY <1>5, <1>6, <1>7 DEF SameVariables, UnitTypes, t

LEMMA BeginBodyIs ==
  ASSUME NEW u \in UnitTypes, u.loops # <<>>
  PROVE  LET l == [Last(u.loops) EXCEPT !.bodyStartIndex = Count(u)]
             w == BeginBody(u)
         IN  /\ l \in LoopTypes /\ SameVariables(u, w) /\ w.loops = Append(Front(u.loops), l)
             /\ w.code = u.code /\ w.stackSlotNum = u.stackSlotNum /\ w.maxSlots = u.maxSlots
<1> DEFINE l == [Last(u.loops) EXCEPT !.bodyStartIndex = Count(u)]
<1>1. Last(u.loops) \in LoopTypes /\ Count(u) \in Nat /\ Last(u.loops) = u.loops[Len(u.loops)]
  BY UnitFacts, LastIs
<1>2. l \in LoopTypes
  BY <1>1 DEF LoopTypes
<1>3. BeginBody(u) = [u EXCEPT !.loops[Len(u.loops)] = l]
  BY <1>1 DEF BeginBody
<1> HIDE DEF l
<1> QED
  BY <1>2, <1>3, LoopChanged DEF l

LEMMA MarkExitIs ==
  ASSUME NEW u \in UnitTypes, u.loops # <<>>
  PROVE  LET l == [Last(u.loops) EXCEPT !.exitIndex = Placeholder(u)]
             w == MarkExit(u)
         IN  /\ l \in LoopTypes /\ SameVariables(u, w) /\ w.loops = Append(Front(u.loops), l)
             /\ w.code = u.code /\ w.stackSlotNum = u.stackSlotNum /\ w.maxSlots = u.maxSlots
<1> DEFINE l == [Last(u.loops) EXCEPT !.exitIndex = Placeholder(u)]
<1>1. Last(u.loops) \in LoopTypes /\ Placeholder(u) \in Int /\ Last(u.loops) = u.loops[Len(u.loops)]
  BY UnitFacts, LastIs, WritersKeep
<1>2. l \in LoopTypes
  BY <1>1 DEF LoopTypes
<1>3. MarkExit(u) = [u EXCEPT !.loops[Len(u.loops)] = l]
  BY <1>1 DEF MarkExit
<1> HIDE DEF l
<1> QED
  BY <1>2, <1>3, LoopChanged DEF l

-----------------------------------------------------------------------------
(***************************************************************************)
(* The blocks being read, each inside the one before.                      *)
(***************************************************************************)
Kinds == {"block", "then", "else", "while", "for"}
LoopKinds == {"while", "for"}
TodoTypes == [kind : Kinds, at : Int, outer : Nat]

\* For every statement two scopes around its body's: its own, and that of the loop variable.
Levels(kind) == IF kind = "for" THEN 3 ELSE 1

LoopsIn(t) == {i \in 1..Len(t) : t[i].kind \in LoopKinds}

NestOK(t, isModule, n) ==
  \A i \in 1..Len(t) : /\ isModule \/ t[i].outer > 0
                       /\ t[i].outer + Levels(t[i].kind) = IF i = Len(t) THEN n ELSE t[i + 1].outer

\* The unit u is in the middle of the blocks ss, which the statements t have opened.
ReadingOK(u, ss, t) ==
  /\ ScopesOK(u, ss)
  /\ u.isModule => ~ModuleLocals
  /\ t \in Seq(TodoTypes) /\ NestOK(t, u.isModule, Len(ss))
  /\ Len(u.loops) = Cardinality(LoopsIn(t))

LEMMA LoopsInFacts ==
  ASSUME NEW t \in Seq(TodoTypes)
  PROVE  /\ IsFiniteSet(LoopsIn(t)) /\ Cardinality(LoopsIn(t)) \in Nat
         /\ \A b \in TodoTypes : Cardinality(LoopsIn(Append(t, b))) = Cardinality(LoopsIn(t)) + IF b.kind \in LoopKinds THEN 1 ELSE 0
<1>1. Len(t) \in Nat
  BY LenProperties
<1>2. IsFiniteSet(LoopsIn(t))
  <2>1. IsFiniteSet(1..Len(t))
    BY <1>1, FS_Interval
  <2>2. LoopsIn(t) \in SUBSET (1..Len(t))
    BY DEF LoopsIn
  <2> QED
    BY <2>1, <2>2, FS_Subset
<1>3. Cardinality(LoopsIn(t)) \in Nat
  BY <1>2, FS_CardinalityType
<1>4. ASSUME NEW b \in TodoTypes
      PROVE  Cardinality(LoopsIn(Append(t, b))) = Cardinality(LoopsIn(t)) + IF b.kind \in LoopKinds THEN 1 ELSE 0
  <2> DEFINE r == Append(t, b)
  <2>1. Len(r) = Len(t) + 1 /\ r[Len(t) + 1] = b /\ \A i \in 1..Len(t) : r[i] = t[i]
    BY AppendProperties
  <2> HIDE DEF r
  <2>2. CASE b.kind \in LoopKinds
    <3>1. LoopsIn(r) = LoopsIn(t) \union {Len(t) + 1} /\ Len(t) + 1 \notin LoopsIn(t)
      BY <1>1, <2>1, <2>2 DEF LoopsIn
    <3>2. Cardinality(LoopsIn(t) \union {Len(t) + 1}) = Cardinality(LoopsIn(t)) + 1
      BY <1>2, <3>1, FS_AddElement
    <3> QED
      BY <2>2, <3>1, <3>2 DEF r
  <2>3. CASE b.kind \notin LoopKinds
    <3>1. LoopsIn(r) = LoopsIn(t)
      BY <1>1, <2>1, <2>3 DEF LoopsIn
    <3> QED
      BY <1>3, <2>3, <3>1 DEF r
  <2> QED
    BY <2>2, <2>3
<1> QED
  BY <1>2, <1>3, <1>4

\* A statement without a body leaves the variables and the loops.
LEMMA SimpleReads ==
  ASSUME NEW u, NEW w, NEW ss, NEW t, ReadingOK(u, ss, t), SameBut(u, w)
  PROVE  ReadingOK(w, ss, t)
<1>1. ScopesOK(w, ss)
  BY ScopesSame DEF ReadingOK
<1> QED
  BY <1>1 DEF ReadingOK, SameBut

\* A statement opens the block of its body.
LEMMA EnterReads ==
  ASSUME NEW u, NEW w, NEW ss, NEW tt, NEW t, ReadingOK(u, ss, t), ScopesOK(w, tt), w.isModule = u.isModule,
         NEW b \in TodoTypes, b.outer = Len(ss), Len(tt) = Len(ss) + Levels(b.kind),
         Len(w.loops) = Len(u.loops) + IF b.kind \in LoopKinds THEN 1 ELSE 0
  PROVE  ReadingOK(w, tt, Append(t, b))
<1> DEFINE r == Append(t, b)
<1>1. t \in Seq(TodoTypes) /\ NestOK(t, u.isModule, Len(ss)) /\ Len(u.loops) = Cardinality(LoopsIn(t))
  BY DEF ReadingOK
<1>2. r \in Seq(TodoTypes) /\ Len(r) = Len(t) + 1 /\ Len(t) \in Nat /\ r[Len(t) + 1] = b /\ \A i \in 1..Len(t) : r[i] = t[i]
  BY <1>1, AppendProperties, LenProperties
<1>3. Len(w.loops) = Cardinality(LoopsIn(r))
  BY <1>1, LoopsInFacts
<1> HIDE DEF r
<1>4. u.isModule \/ Len(ss) > 0
  BY DEF ReadingOK, ScopesOK
<1>5. NestOK(r, w.isModule, Len(tt))
  <2> SUFFICES ASSUME NEW i \in 1..Len(r)
               PROVE  /\ w.isModule \/ r[i].outer > 0
                      /\ r[i].outer + Levels(r[i].kind) = IF i = Len(r) THEN Len(tt) ELSE r[i + 1].outer
    BY DEF NestOK
  <2>1. CASE i = Len(t) + 1
    BY <1>2, <1>4, <2>1
  <2>2. CASE i # Len(t) + 1
    <3>1. i \in 1..Len(t) /\ r[i] = t[i] /\ i # Len(r)
      BY <1>2, <2>2
    <3>2. /\ u.isModule \/ t[i].outer > 0
          /\ t[i].outer + Levels(t[i].kind) = IF i = Len(t) THEN Len(ss) ELSE t[i + 1].outer
      BY <1>1, <3>1 DEF NestOK
    <3>3. CASE i = Len(t)
      <4>1. r[i + 1].outer = Len(ss)
        BY <1>2, <3>3
      <4> QED
        BY <3>1, <3>2, <3>3, <4>1
    <3>4. CASE i # Len(t)
      <4>1. i + 1 \in 1..Len(t)
        BY <1>2, <3>1, <3>4
      <4> QED
        BY <1>2, <3>1, <3>2, <3>4, <4>1
    <3> QED
      BY <3>3, <3>4
  <2> QED
    BY <2>1, <2>2
<1>6. w.isModule => ~ModuleLocals
  BY DEF ReadingOK
<1>7. ReadingOK(w, tt, r)
  BY <1>2, <1>3, <1>5, <1>6 DEF ReadingOK
<1> QED
  BY <1>7 DEF r

\* The innermost statement has opened the last blocks, as many as it has levels.
LEMMA InnermostStatement ==
  ASSUME NEW u, NEW ss, NEW t, ReadingOK(u, ss, t), t # <<>>
  PROVE  /\ Last(t) \in TodoTypes /\ Last(t).kind \in Kinds /\ Last(t).at \in Int /\ Last(t).outer \in Nat
         /\ Last(t).outer = Len(ss) - Levels(Last(t).kind)
         /\ Len(ss) \in Nat /\ ss \in Blocks /\ u \in UnitTypes
         /\ u.isModule \/ Last(t).outer > 0
         /\ Last(t).kind \in LoopKinds => u.loops # <<>>
<1>1. t \in Seq(TodoTypes) /\ NestOK(t, u.isModule, Len(ss)) /\ Len(u.loops) = Cardinality(LoopsIn(t)) /\ u \in UnitTypes
  BY DEF ReadingOK, ScopesOK
<1>2. Len(ss) \in Nat /\ ss \in Blocks
  BY ScopesFacts DEF ReadingOK
<1>3. Last(t) \in TodoTypes /\ Last(t) = t[Len(t)] /\ Len(t) \in Nat /\ Len(t) > 0
  BY <1>1, LastIs
<1>4. Last(t).kind \in Kinds /\ Last(t).at \in Int /\ Last(t).outer \in Nat
  BY <1>3 DEF TodoTypes
<1>5. Len(t) \in 1..Len(t)
  BY <1>3
<1>6. (u.isModule \/ t[Len(t)].outer > 0) /\ t[Len(t)].outer + Levels(t[Len(t)].kind) = Len(ss)
  BY <1>1, <1>5 DEF NestOK
<1>7. Levels(Last(t).kind) \in Nat
  BY DEF Levels
<1>8. ASSUME Last(t).kind \in LoopKinds PROVE u.loops # <<>>
  <2>1. Len(t) \in LoopsIn(t)
    BY <1>3, <1>5, <1>8 DEF LoopsIn
  <2>2. Cardinality(LoopsIn(t)) # 0
    BY <1>1, <2>1, LoopsInFacts, FS_EmptySet
  <2>3. Len(u.loops) # 0
    BY <1>1, <2>2
  <2> QED
    BY <2>3, EmptySeq
<1> QED
  BY <1>1, <1>2, <1>3, <1>4, <1>6, <1>7, <1>8

\* A statement is complete: the blocks it has opened are left.
LEMMA LeaveReads ==
  ASSUME NEW u, NEW w, NEW ss, NEW tt, NEW t, ReadingOK(u, ss, t), t # <<>>,
         ScopesOK(w, tt), Len(tt) = Last(t).outer, w.isModule = u.isModule,
         Len(w.loops) = Len(u.loops) - IF Last(t).kind \in LoopKinds THEN 1 ELSE 0
  PROVE  ReadingOK(w, tt, Front(t))
<1> DEFINE r == Front(t)
           b == Last(t)
<1>1. t \in Seq(TodoTypes) /\ NestOK(t, u.isModule, Len(ss)) /\ Len(u.loops) = Cardinality(LoopsIn(t))
  BY DEF ReadingOK
<1>2. /\ r \in Seq(TodoTypes) /\ b \in TodoTypes /\ t = Append(r, b) /\ Len(r) = Len(t) - 1 /\ Len(t) \in Nat /\ Len(t) > 0
      /\ (\A i \in 1..Len(t) - 1 : r[i] = t[i]) /\ b = t[Len(t)]
  BY <1>1, LastIs
<1> HIDE DEF r, b
<1>3. Len(w.loops) = Cardinality(LoopsIn(r))
  <2>1. Cardinality(LoopsIn(r)) \in Nat /\ Cardinality(LoopsIn(Append(r, b))) = Cardinality(LoopsIn(r)) + IF b.kind \in LoopKinds THEN 1 ELSE 0
    BY <1>2, LoopsInFacts
  <2>2. Len(w.loops) = Len(u.loops) - IF b.kind \in LoopKinds THEN 1 ELSE 0
    BY DEF b
  <2>3. Len(u.loops) = Cardinality(LoopsIn(r)) + IF b.kind \in LoopKinds THEN 1 ELSE 0
    BY <1>1, <1>2, <2>1
  <2> QED
    BY <2>1, <2>2, <2>3
<1>4. NestOK(r, w.isModule, Len(tt))
  <2> SUFFICES ASSUME NEW i \in 1..Len(r)
               PROVE  /\ w.isModule \/ r[i].outer > 0
                      /\ r[i].outer + Levels(r[i].kind) = IF i = Len(r) THEN Len(tt) ELSE r[i + 1].outer
    BY DEF NestOK
  <2>1. i \in 1..Len(t) /\ i # Len(t) /\ r[i] = t[i] /\ i + 1 \in 1..Len(t)
    BY <1>2
  <2>2. /\ u.isModule \/ t[i].outer > 0
        /\ t[i].outer + Levels(t[i].kind) = t[i + 1].outer
    BY <1>1, <2>1 DEF NestOK
  <2>3. CASE i = Len(r)
    <3>1. i + 1 = Len(t) /\ t[i + 1] = b /\ Len(tt) = b.outer
      BY <1>2, <2>3 DEF b
    <3> QED
      BY <2>1, <2>2, <2>3, <3>1
  <2>4. CASE i # Len(r)
    <3>1. i + 1 \in 1..Len(t) - 1
      BY <1>2, <2>4
    <3> QED
      BY <1>2, <2>1, <2>2, <2>4, <3>1
  <2> QED
    BY <2>3, <2>4
<1>5. w.isModule => ~ModuleLocals
  BY DEF ReadingOK
<1>6. ReadingOK(w, tt, r)
  BY <1>2, <1>3, <1>4, <1>5 DEF ReadingOK
<1> QED
  BY <1>6 DEF r

-----------------------------------------------------------------------------
(***************************************************************************)
(* The statements without a body.                                          *)
(***************************************************************************)
LEMMA SimpleIs ==
  ASSUME NEW code, ReadingOK(cu, scopes, todo), SameBut(cu, code), Simple(code)
  PROVE  ReadingOK(cu', scopes', todo')
<1>1. ReadingOK(code, scopes, todo)
  BY SimpleReads
<1> QED
  BY <1>1 DEF Simple

LEMMA SetToSeqIs ==
  ASSUME NEW S, IsFiniteSet(S)
  PROVE  /\ Cardinality(S) \in Nat /\ SetToSeq(S) \in [1..Cardinality(S) -> S]
         /\ \A x \in S : \E i \in 1..Cardinality(S) : SetToSeq(S)[i] = x
<1>1. Cardinality(S) \in Nat /\ ExistsBijection(1..Cardinality(S), S)
  BY FS_CardinalityType
<1>2. PICK f \in [1..Cardinality(S) -> S] : IsInjective(f)
  BY <1>1 DEF ExistsBijection, Bijection, Injection
<1>3. SetToSeq(S) \in [1..Cardinality(S) -> S] /\ IsInjective(SetToSeq(S))
  BY <1>2 DEF SetToSeq
<1>4. SetToSeq(S) \in Injection(1..Cardinality(S), S)
  BY <1>3 DEF Injection
<1>5. IsFiniteSet(1..Cardinality(S)) /\ Cardinality(1..Cardinality(S)) = Cardinality(S)
  BY <1>1, FS_Interval
<1>6. SetToSeq(S) \in Surjection(1..Cardinality(S), S)
  BY <1>4, <1>5, FS_Injection
<1> QED
  BY <1>1, <1>3, <1>6 DEF Surjection

LEMMA FindLocalIs ==
  ASSUME NEW u \in UnitTypes, NEW n
  PROVE  /\ FindLocal(u, n) \in -1..Len(u.localVars) - 1 /\ Len(u.localVars) \in Nat
         /\ FindLocal(u, n) # -1 => /\ FindLocal(u, n) + 1 \in DOMAIN u.localVars
                                    /\ u.localVars[FindLocal(u, n) + 1].name = n
                                    /\ \A i \in FindLocal(u, n) + 2..Len(u.localVars) : u.localVars[i].name # n
<1> DEFINE v == u.localVars
           found == {i \in DOMAIN v : v[i].name = n}
<1>1. v \in Seq(LocalTypes) /\ Len(v) \in Nat /\ DOMAIN v = 1..Len(v)
  BY UnitFacts, LenProperties
<1>2. FindLocal(u, n) = IF found = {} THEN -1 ELSE Max(found) - 1
  BY DEF FindLocal
<1> HIDE DEF v
<1>3. CASE found = {}
  BY <1>1, <1>2, <1>3 DEF v
<1>4. CASE found # {}
  <2>1. found \subseteq 0..Len(v)
    BY <1>1
  <2>2. Max(found) \in found /\ \A y \in found : Max(found) >= y
    <3> HIDE DEF found
    <3> QED
      BY <1>1, <1>4, <2>1, MaxIs
  <2>3. PICK m \in 1..Len(v) : m = Max(found) /\ v[m].name = n
    BY <1>1, <2>2
  <2>4. \A i \in m + 1..Len(v) : v[i].name # n
    <3> SUFFICES ASSUME NEW i \in m + 1..Len(v), v[i].name = n PROVE FALSE
      OBVIOUS
    <3>1. i \in found
      BY <1>1, <2>3
    <3>2. m >= i
      BY <2>2, <2>3, <3>1
    <3> QED
      BY <1>1, <2>3, <3>2
  <2>5. FindLocal(u, n) = m - 1
    BY <1>2, <1>4, <2>3
  <2> HIDE DEF found
  <2>6. m - 1 \in -1..Len(v) - 1 /\ (m - 1) + 1 = m /\ (m - 1) + 2 = m + 1 /\ m \in DOMAIN v
    BY <1>1, <2>3
  <2>7. FindLocal(u, n) \in -1..Len(v) - 1 /\ FindLocal(u, n) + 1 = m /\ FindLocal(u, n) + 2 = m + 1
    BY <2>5, <2>6
  <2> QED
    BY <1>1, <2>3, <2>4, <2>6, <2>7 DEF v
<1> QED
  BY <1>3, <1>4

\* A closure that uses the variables in slots has been compiled.
Captured(u, slots) ==
  [u EXCEPT !.localVars = [i \in DOMAIN @ |-> IF i - 1 \in slots THEN [@[i] EXCEPT !.isUpvalue = TRUE] ELSE @[i]],
            !.upvalueNums = Append(@, Cardinality(slots))]

LEMMA CapturedIs ==
  ASSUME NEW u \in UnitTypes, NEW slots, Cardinality(slots) \in Nat
  PROVE  LET w == Captured(u, slots)
         IN  /\ w \in UnitTypes /\ w.isModule = u.isModule /\ w.scopeDepth = u.scopeDepth /\ w.loops = u.loops
             /\ w.code = u.code /\ w.stackSlotNum = u.stackSlotNum /\ w.maxSlots = u.maxSlots
             /\ w.upvalueNums = Append(u.upvalueNums, Cardinality(slots))
             /\ Len(w.localVars) = Len(u.localVars) /\ Len(u.localVars) \in Nat
             /\ \A i \in 1..Len(u.localVars) : /\ w.localVars[i].name = u.localVars[i].name
                                               /\ w.localVars[i].scopeDepth = u.localVars[i].scopeDepth
                                               /\ w.localVars[i].isUpvalue = (u.localVars[i].isUpvalue \/ i - 1 \in slots)
<1> DEFINE v == u.localVars
           y == [i \in DOMAIN v |-> IF i - 1 \in slots THEN [v[i] EXCEPT !.isUpvalue = TRUE] ELSE v[i]]
           nums == Append(u.upvalueNums, Cardinality(slots))
<1>1. v \in Seq(LocalTypes) /\ Len(v) \in Nat /\ DOMAIN v = 1..Len(v) /\ u.upvalueNums \in Seq(Nat)
      /\ \A i \in 1..Len(v) : v[i] \in LocalTypes
  BY UnitFacts, LenProperties, ElementOfSeq
<1>2. Captured(u, slots) = [u EXCEPT !.localVars = y, !.upvalueNums = nums]
  BY DEF Captured, UnitTypes
<1> HIDE DEF v
<1>3. ASSUME NEW i \in 1..Len(v)
      PROVE  /\ y[i] \in LocalTypes /\ y[i].name = v[i].name /\ y[i].scopeDepth = v[i].scopeDepth
             /\ y[i].isUpvalue = (v[i].isUpvalue \/ i - 1 \in slots)
  <2> DEFINE x == [v[i] EXCEPT !.isUpvalue = TRUE]
  <2>1. y[i] = IF i - 1 \in slots THEN x ELSE v[i]
    BY <1>1
  <2>2. v[i] \in LocalTypes /\ v[i].isUpvalue \in BOOLEAN
    BY <1>1 DEF LocalTypes
  <2>3. x \in LocalTypes /\ x.name = v[i].name /\ x.scopeDepth = v[i].scopeDepth /\ x.isUpvalue = TRUE
    BY <2>2 DEF LocalTypes
  <2> HIDE DEF x, y
  <2>4. CASE i - 1 \in slots
    <3>1. y[i] = x
      BY <2>1, <2>4
    <3> QED
      BY <2>3, <2>4, <3>1
  <2>5. CASE i - 1 \notin slots
    <3>1. y[i] = v[i]
      BY <2>1, <2>5
    <3>2. v[i].isUpvalue = (v[i].isUpvalue \/ FALSE)
      BY <2>2
    <3> QED
      BY <2>2, <2>5, <3>1, <3>2
  <2> QED
    BY <2>4, <2>5
<1>4. y \in [1..Len(v) -> LocalTypes]
  <2>1. \A i \in 1..Len(v) : y[i] \in LocalTypes
    BY <1>3
  <2>2. y = [i \in 1..Len(v) |-> y[i]]
    BY <1>1
  <2> HIDE DEF y
  <2> QED
    BY <2>1, <2>2
<1> HIDE DEF y
<1>5. y \in Seq(LocalTypes) /\ Len(y) = Len(v)
  BY <1>1, <1>4
<1>6. nums \in Seq(Nat)
  BY <1>1, AppendProperties
<1>7. [u EXCEPT !.localVars = y, !.upvalueNums = nums] \in UnitTypes
  BY <1>5, <1>6 DEF UnitTypes
<1> QED
  BY <1>1, <1>2, <1>3, <1>5, <1>7 DEF UnitTypes, v

LEMMA CapturedReads ==
  ASSUME NEW u, NEW ss, NEW t, ReadingOK(u, ss, t), NEW slots, Cardinality(slots) \in Nat
  PROVE  ReadingOK(Captured(u, slots), ss, t)
<1> DEFINE w == Captured(u, slots)
           v == u.localVars
           y == w.localVars
<1>1. u \in UnitTypes /\ v \in Seq(LocalTypes) /\ ScopesOK(u, ss)
  BY UnitFacts DEF ReadingOK, ScopesOK
<1>2. /\ w \in UnitTypes /\ w.isModule = u.isModule /\ w.scopeDepth = u.scopeDepth /\ w.loops = u.loops
      /\ Len(y) = Len(v) /\ Len(v) \in Nat
      /\ \A i \in 1..Len(v) : y[i].name = v[i].name /\ y[i].scopeDepth = v[i].scopeDepth
  BY <1>1, CapturedIs
<1>3. y \in Seq(LocalTypes)
  BY <1>2, UnitFacts
<1> HIDE DEF w
<1>4. NamesOf(y) = NamesOf(v)
  <2>1. NamesOf(v) \in Seq(Names) /\ Len(NamesOf(v)) = Len(v) /\ \A i \in 1..Len(v) : NamesOf(v)[i] = v[i].name
    BY <1>1, NamesOfIs
  <2>2. NamesOf(y) \in Seq(Names) /\ Len(NamesOf(y)) = Len(y) /\ \A i \in 1..Len(y) : NamesOf(y)[i] = y[i].name
    BY <1>3, NamesOfIs
  <2>3. \A i \in 1..Len(NamesOf(y)) : NamesOf(y)[i] = NamesOf(v)[i]
    BY <1>2, <2>1, <2>2
  <2> QED
    BY <1>2, <2>1, <2>2, <2>3, SeqEqual
<1>5. DepthsOK(y, ss)
  BY <1>1, <1>2 DEF ScopesOK, DepthsOK
<1>6. u.isModule => y = <<>>
  <2> SUFFICES ASSUME u.isModule PROVE y = <<>>
    OBVIOUS
  <2>1. Len(v) = 0
    BY <1>1, EmptySeq DEF ScopesOK
  <2> QED
    BY <1>2, <1>3, <2>1, EmptySeq
<1>7. ScopesOK(w, ss)
  BY <1>1, <1>2, <1>4, <1>5, <1>6 DEF ScopesOK
<1>8. ReadingOK(w, ss, t)
  BY <1>2, <1>7 DEF ReadingOK
<1> QED
  BY <1>8 DEF w

LEMMA VarDefinitionReads ==
  ASSUME ReadingOK(cu, scopes, todo), NEW n \in Name, VarDefinition(n)
  PROVE  ReadingOK(cu', scopes', todo')
<1> DEFINE e == Expression(cu)
           tt == Front(scopes)
           b == Last(scopes)
<1>1. ScopesOK(cu, scopes) /\ cu \in UnitTypes /\ ~cu.isModule /\ scopes \in Blocks /\ Len(scopes) > 0
  BY ScopesFacts DEF ReadingOK, ScopesOK, VarDefinition, MayDeclare
<1>2. scopes \in Seq(Seq(Names)) /\ scopes # <<>>
  BY <1>1, EmptySeq DEF Blocks
<1>3. /\ tt \in Blocks /\ b \in Seq(Names) /\ scopes = Append(tt, b) /\ n \in Names
      /\ Len(scopes) = Len(tt) + 1 /\ Len(tt) \in Nat
  <2>1. /\ tt \in Seq(Seq(Names)) /\ b \in Seq(Names) /\ scopes = Append(tt, b) /\ Len(tt) = Len(scopes) - 1
        /\ Len(scopes) \in Nat
    BY <1>2, LastIs
  <2> HIDE DEF tt, b
  <2> QED
    BY <1>1, <2>1 DEF Blocks, Names
<1>4. SameBut(cu, e)
  BY <1>1, WritersKeep
<1> HIDE DEF e, tt, b
<1>5. ReadingOK(e, scopes, todo) /\ ~e.isModule
  BY <1>1, <1>4, SimpleReads DEF SameBut
<1> DEFINE w == AddLocalVar(e, n)
           ss == Append(tt, Append(b, n))
<1>6. ScopesOK(w, ss)
  BY <1>3, <1>5, AddLocalVarIs DEF ReadingOK
<1>7. w.isModule = cu.isModule /\ w.loops = cu.loops
  BY <1>4 DEF AddLocalVar, SameBut, UnitTypes
<1>8. Append(b, n) \in Seq(Names)
  BY <1>3, AppendProperties
<1>9. Len(ss) = Len(scopes)
  BY <1>3, <1>8, UpToAppend
<1>10. scopes' = ss
  <2>1. scopes' = tt \o <<Append(b, n)>>
    BY DEF VarDefinition, tt, b
  <2> QED
    BY <1>3, <1>8, <2>1, AppendIsConcat DEF Blocks
<1>11. cu' = w /\ todo' = todo
  BY DEF VarDefinition, w, e
<1> HIDE DEF w, ss
<1>12. ReadingOK(w, ss, todo)
  BY <1>6, <1>7, <1>9 DEF ReadingOK
<1> QED
  BY <1>10, <1>11, <1>12

LEMMA ModuleVarDefinitionReads ==
  ASSUME ReadingOK(cu, scopes, todo), ModuleVarDefinition
  PROVE  ReadingOK(cu', scopes', todo')
<1> DEFINE a == Expression(cu)
           b == WriteShort(a, STORE_MODULE_VAR, 0)
           c == WriteOpCode(b, POP)
<1>1. cu \in UnitTypes
  BY DEF ReadingOK, ScopesOK
<1>2. SameBut(cu, a) /\ a \in UnitTypes
  BY <1>1, WritersKeep DEF SameBut
<1>3. SameBut(a, b) /\ b \in UnitTypes
  <2> HIDE DEF a
  <2>1. \A n \in Int : SameBut(a, WriteShort(a, STORE_MODULE_VAR, n))
    BY <1>2, WritersKeep, OpcodeTypes
  <2>2. SameBut(a, b)
    BY <2>1
  <2> QED
    BY <2>2 DEF SameBut
<1>4. SameBut(b, c)
  <2> HIDE DEF b
  <2> QED
    BY <1>3, WritersKeep, OpcodeTypes DEF SameBut
<1>5. SameBut(cu, c)
  <2> HIDE DEF a, b, c
  <2> QED
    BY <1>2, <1>3, <1>4, SameButTwice
<1>6. Simple(c)
  BY DEF ModuleVarDefinition, Plain
<1> QED
  BY <1>5, <1>6, SimpleIs

LEMMA CallWithBlockReads ==
  ASSUME ReadingOK(cu, scopes, todo), NEW ns \in SUBSET Name, CallWithBlock(ns)
  PROVE  ReadingOK(cu', scopes', todo')
<1> DEFINE slots == {FindLocal(cu, n) : n \in ns}
           u == Captured(cu, slots)
           pairs == [i \in 1..2 * Cardinality(slots) |-> IF i % 2 = 1 THEN 1 ELSE SetToSeq(slots)[i \div 2]]
           a == Expression(u)
           b == WriteShort(a, CREATE_CLOSURE, Len(cu.upvalueNums))
           c == WriteBytes(b, pairs)
           d == WriteShort(c, CALL1, 0)
           e == WriteOpCode(d, POP)
<1>1. cu \in UnitTypes /\ Len(cu.upvalueNums) \in Int
  <2>1. cu \in UnitTypes
    BY DEF ReadingOK, ScopesOK
  <2>2. cu.upvalueNums \in Seq(Nat)
    BY <2>1, UnitFacts
  <2> QED
    BY <2>1, <2>2, LenProperties
<1>2. IsFiniteSet(slots) /\ slots \subseteq Int
  <2>1. slots \in SUBSET (-1..Len(cu.localVars) - 1) /\ (ns # {} => Len(cu.localVars) \in Nat)
    BY <1>1, FindLocalIs
  <2>2. Len(cu.localVars) \in Nat
    BY <1>1, FindLocalIs
  <2>3. IsFiniteSet(-1..Len(cu.localVars) - 1)
    BY <2>2, FS_Interval
  <2>4. slots \subseteq Int
    BY <2>1
  <2>5. IsFiniteSet(slots)
    <3> HIDE DEF slots
    <3> QED
      BY <2>1, <2>3, FS_Subset
  <2> QED
    BY <2>4, <2>5
<1> HIDE DEF slots
<1>3. Cardinality(slots) \in Nat /\ SetToSeq(slots) \in [1..Cardinality(slots) -> slots]
  BY <1>2, SetToSeqIs
<1>4. pairs \in Seq(Int)
  <2> DEFINE k == Cardinality(slots)
  <2>0. k \in Nat
    BY <1>3
  <2> HIDE DEF k
  <2>1. ASSUME NEW i \in 1..2 * k PROVE IF i % 2 = 1 THEN TRUE ELSE i \div 2 \in 1..k
    BY <2>0
  <2>2. ASSUME NEW i \in 1..2 * k PROVE pairs[i] \in Int
    <3>1. pairs[i] = IF i % 2 = 1 THEN 1 ELSE SetToSeq(slots)[i \div 2]
      BY DEF k
    <3>2. CASE i % 2 = 1
      BY <3>1, <3>2
    <3>3. CASE i % 2 # 1
      <4>1. i \div 2 \in 1..Cardinality(slots)
        BY <2>1, <3>3 DEF k
      <4> QED
        BY <1>2, <1>3, <3>1, <3>3, <4>1
    <3> QED
      BY <3>2, <3>3
  <2>3. pairs = [i \in 1..2 * k |-> pairs[i]]
    BY DEF k
  <2> HIDE DEF pairs
  <2>4. pairs \in [1..2 * k -> Int]
    BY <2>2, <2>3
  <2>5. PICK m \in Nat : m = 2 * k
    BY <2>0
  <2> QED
    BY <2>4, <2>5
<1> HIDE DEF pairs
<1>5. ReadingOK(u, scopes, todo)
  BY <1>3, CapturedReads
<1>6. u \in UnitTypes
  BY <1>5 DEF ReadingOK, ScopesOK
<1>7. SameBut(u, a) /\ a \in UnitTypes
  <2> HIDE DEF u
  <2> QED
    BY <1>6, WritersKeep DEF SameBut
<1>8. SameBut(a, b) /\ b \in UnitTypes
  <2> HIDE DEF a
  <2>1. \A n \in Int : SameBut(a, WriteShort(a, CREATE_CLOSURE, n))
    BY <1>7, WritersKeep, OpcodeTypes
  <2>2. SameBut(a, b)
    BY <1>1, <2>1
  <2> QED
    BY <2>2 DEF SameBut
<1>9. SameBut(b, c) /\ c \in UnitTypes
  <2> HIDE DEF b
  <2> QED
    BY <1>4, <1>8, WritersKeep DEF SameBut
<1>10. SameBut(c, d) /\ d \in UnitTypes
  <2> HIDE DEF c
  <2>1. \A n \in Int : SameBut(c, WriteShort(c, CALL1, n))
    BY <1>9, WritersKeep, OpcodeTypes
  <2>2. SameBut(c, d)
    BY <2>1
  <2> QED
    BY <2>2 DEF SameBut
<1>11. SameBut(d, e)
  <2> HIDE DEF d
  <2> QED
    BY <1>10, WritersKeep, OpcodeTypes DEF SameBut
<1>12. SameBut(u, e)
  <2> HIDE DEF u, a, b, c, d, e
  <2> QED
    BY <1>7, <1>8, <1>9, <1>10, <1>11, SameButTwice
<1>13. Simple(e)
  BY DEF CallWithBlock, Captured, slots, pairs
<1> HIDE DEF u, e
<1>14. ReadingOK(e, scopes, todo)
  BY <1>5, <1>12, SimpleReads
<1> QED
  BY <1>13, <1>14 DEF Simple

LEMMA LogicReads ==
  ASSUME ReadingOK(cu, scopes, todo), NEW op \in {AND, OR}, Logic(op)
  PROVE  ReadingOK(cu', scopes', todo')
<1> DEFINE a == Expression(cu)
           left == EmitInstrWithPlaceholder(a, op)
           b == Expression(left)
           right == PatchPlaceholder(b, Placeholder(left))
           e == WriteOpCode(right, POP)
<1>1. cu \in UnitTypes /\ op \in Opcodes
  BY OpcodeTypes DEF ReadingOK, ScopesOK
<1>2. SameBut(cu, a) /\ a \in UnitTypes
  BY <1>1, WritersKeep DEF SameBut
<1>3. SameBut(a, left) /\ left \in UnitTypes
  <2> HIDE DEF a
  <2> QED
    BY <1>1, <1>2, WritersKeep DEF SameBut
<1>4. SameBut(left, b) /\ b \in UnitTypes /\ Placeholder(left) \in Int
  <2> HIDE DEF left
  <2> QED
    BY <1>3, WritersKeep DEF SameBut
<1>5. SameBut(b, right) /\ right \in UnitTypes
  <2> HIDE DEF b, left
  <2> QED
    BY <1>4, WritersKeep DEF SameBut
<1>6. SameBut(right, e)
  <2> HIDE DEF right
  <2> QED
    BY <1>5, WritersKeep, OpcodeTypes DEF SameBut
<1>7. SameBut(cu, e)
  <2> HIDE DEF a, left, b, right, e
  <2> QED
    BY <1>2, <1>3, <1>4, <1>5, <1>6, SameButTwice
<1>8. Simple(e)
  BY DEF Logic, Plain
<1> QED
  BY <1>7, <1>8, SimpleIs

LEMMA ConditionReads ==
  ASSUME ReadingOK(cu, scopes, todo), Condition
  PROVE  ReadingOK(cu', scopes', todo')
<1> DEFINE a == Expression(cu)
           test == EmitInstrWithPlaceholder(a, JUMP_IF_FALSE)
           b == Expression(test)
           yes == EmitInstrWithPlaceholder(b, JUMP)
           c == PatchPlaceholder(yes, Placeholder(test))
           no == Expression(c)
           d == PatchPlaceholder(no, Placeholder(yes))
           e == WriteOpCode(d, POP)
<1>1. cu \in UnitTypes
  BY DEF ReadingOK, ScopesOK
<1>2. SameBut(cu, a) /\ a \in UnitTypes
  BY <1>1, WritersKeep DEF SameBut
<1>3. SameBut(a, test) /\ test \in UnitTypes
  <2> HIDE DEF a
  <2> QED
    BY <1>2, WritersKeep, OpcodeTypes DEF SameBut
<1>4. SameBut(test, b) /\ b \in UnitTypes /\ Placeholder(test) \in Int
  <2> HIDE DEF test
  <2> QED
    BY <1>3, WritersKeep DEF SameBut
<1>5. SameBut(b, yes) /\ yes \in UnitTypes
  <2> HIDE DEF b
  <2> QED
    BY <1>4, WritersKeep, OpcodeTypes DEF SameBut
<1>6. SameBut(yes, c) /\ c \in UnitTypes /\ Placeholder(yes) \in Int
  <2> HIDE DEF test, yes
  <2> QED
    BY <1>4, <1>5, WritersKeep DEF SameBut
<1>7. SameBut(c, no) /\ no \in UnitTypes
  <2> HIDE DEF c
  <2> QED
    BY <1>6, WritersKeep DEF SameBut
<1>8. SameBut(no, d) /\ d \in UnitTypes
  <2> HIDE DEF no, yes
  <2> QED
    BY <1>6, <1>7, WritersKeep DEF SameBut
<1>9. SameBut(d, e)
  <2> HIDE DEF d
  <2> QED
    BY <1>8, WritersKeep, OpcodeTypes DEF SameBut
<1>10. SameBut(cu, e)
  <2> HIDE DEF a, test, b, yes, c, no, d, e
  <2> QED
    BY <1>2, <1>3, <1>4, <1>5, <1>6, <1>7, <1>8, <1>9, SameButTwice
<1>11. Simple(e)
  BY DEF Condition, Plain
<1> QED
  BY <1>10, <1>11, SimpleIs

LEMMA LastLoopIs ==
  ASSUME NEW u \in UnitTypes, u.loops # <<>>
  PROVE  Last(u.loops) \in LoopTypes /\ Last(u.loops).scopeDepth + 1 \in Int
<1>1. Last(u.loops) \in LoopTypes
  BY UnitFacts, LastIs
<1> QED
  BY <1>1 DEF LoopTypes

LEMMA SmallStatementsRead ==
  ASSUME ReadingOK(cu, scopes, todo), Return \/ Break \/ Continue
  PROVE  ReadingOK(cu', scopes', todo')
<1>1. cu \in UnitTypes
  BY DEF ReadingOK, ScopesOK
<1>2. CASE Return
  <2> DEFINE a == WriteOpCode(cu, PUSH_NULL)
             e == WriteOpCode(a, RETURN)
  <2>1. SameBut(cu, a) /\ a \in UnitTypes
    BY <1>1, WritersKeep, OpcodeTypes DEF SameBut
  <2>2. SameBut(a, e)
    <3> HIDE DEF a
    <3> QED
      BY <2>1, WritersKeep, OpcodeTypes DEF SameBut
  <2>3. SameBut(cu, e)
    <3> HIDE DEF a, e
    <3> QED
      BY <2>1, <2>2, SameButTwice
  <2>4. Simple(e)
    BY <1>2 DEF Return, Plain
  <2> QED
    BY <2>3, <2>4, SimpleIs
<1> DEFINE k == Last(cu.loops).scopeDepth + 1
           left == DiscardLocalVar(cu, k)
<1>3. cu.loops # <<>> => k \in Int /\ SameBut(cu, left) /\ left \in UnitTypes /\ left.loops = cu.loops
  BY <1>1, LastLoopIs, WritersKeep DEF SameBut
<1>4. CASE Break
  <2> DEFINE e == EmitInstrWithPlaceholder(left, END)
  <2>1. cu.loops # <<>> /\ Simple(e)
    BY <1>4 DEF Break
  <2> HIDE DEF left
  <2>2. SameBut(left, e)
    BY <1>3, <2>1, WritersKeep, OpcodeTypes
  <2> HIDE DEF e
  <2>3. SameBut(cu, e)
    BY <1>3, <2>1, <2>2, SameButTwice
  <2> QED
    BY <2>1, <2>3, SimpleIs
<1>5. CASE Continue
  <2> DEFINE e == JumpBack(left)
  <2>1. cu.loops # <<>> /\ Simple(e)
    BY <1>5 DEF Continue
  <2> HIDE DEF left
  <2>2. SameBut(left, e)
    BY <1>3, <2>1, JumpBackIs DEF Wrote
  <2> HIDE DEF e
  <2>3. SameBut(cu, e)
    BY <1>3, <2>1, <2>2, SameButTwice
  <2> QED
    BY <2>1, <2>3, SimpleIs
<1> QED
  BY <1>2, <1>4, <1>5

-----------------------------------------------------------------------------
(***************************************************************************)
(* The statements with a body.                                             *)
(***************************************************************************)
LEMMA EnterIs ==
  ASSUME NEW code, NEW kind \in Kinds, NEW at \in Int, NEW locals, NEW tt \in Blocks,
         ReadingOK(cu, scopes, todo), Enter(code, kind, at, locals),
         scopes \o locals = tt, ScopesOK(code, tt), code.isModule = cu.isModule,
         Len(tt) + 1 = Len(scopes) + Levels(kind),
         Len(code.loops) = Len(cu.loops) + IF kind \in LoopKinds THEN 1 ELSE 0
  PROVE  ReadingOK(cu', scopes', todo')
<1> DEFINE w == EnterScope(code)
           ss == Append(tt, <<>>)
           b == [kind |-> kind, at |-> at, outer |-> Len(scopes)]
<1>1. Len(scopes) \in Nat
  BY ScopesFacts DEF ReadingOK
<1>2. b \in TodoTypes /\ b.outer = Len(scopes) /\ b.kind = kind
  BY <1>1 DEF TodoTypes
<1>3. <<>> \in Seq(Names) /\ tt \in Seq(Seq(Names))
  BY EmptySeq DEF Blocks
<1>4. ScopesOK(w, ss) /\ Len(ss) = Len(tt) + 1
  BY <1>3, EnterScopeIs, UpToAppend
<1>5. w.isModule = cu.isModule /\ w.loops = code.loops
  BY DEF EnterScope, ScopesOK, UnitTypes
<1>6. scopes' = ss
  <2>1. scopes' = tt \o <<<<>>>>
    BY DEF Enter
  <2> QED
    BY <1>3, <2>1, AppendIsConcat
<1>7. cu' = w /\ todo' = Append(todo, b)
  BY DEF Enter
<1> HIDE DEF w, ss, b
<1>8. ReadingOK(w, ss, Append(todo, b))
  BY <1>2, <1>4, <1>5, EnterReads
<1> QED
  BY <1>6, <1>7, <1>8

LEMMA NoLocals ==
  ASSUME NEW ss \in Blocks
  PROVE  ss \o <<>> = ss
BY ConcatEmptySeq DEF Blocks

LEMMA BlockReads ==
  ASSUME ReadingOK(cu, scopes, todo), Block
  PROVE  ReadingOK(cu', scopes', todo')
<1>1. ScopesOK(cu, scopes) /\ scopes \in Blocks /\ Len(scopes) \in Nat /\ cu.loops \in Seq(LoopTypes)
  BY ScopesFacts, UnitFacts DEF ReadingOK
<1>2. "block" \in Kinds /\ Levels("block") = 1 /\ "block" \notin LoopKinds /\ 0 \in Int
  BY DEF Kinds, Levels, LoopKinds
<1>3. Len(cu.loops) = Len(cu.loops) + 0
  BY <1>1, LenProperties
<1>4. Enter(cu, "block", 0, <<>>)
  BY DEF Block
<1> QED
  BY <1>1, <1>2, <1>3, <1>4, EnterIs, NoLocals

LEMMA IfReads ==
  ASSUME ReadingOK(cu, scopes, todo), If
  PROVE  ReadingOK(cu', scopes', todo')
<1> DEFINE a == Expression(cu)
           test == EmitInstrWithPlaceholder(a, JUMP_IF_FALSE)
           at == Placeholder(test)
<1>1. ScopesOK(cu, scopes) /\ scopes \in Blocks /\ Len(scopes) \in Nat /\ cu \in UnitTypes /\ cu.loops \in Seq(LoopTypes)
  BY ScopesFacts, UnitFacts DEF ReadingOK
<1>2. SameBut(cu, a) /\ a \in UnitTypes
  BY <1>1, WritersKeep DEF SameBut
<1>3. SameBut(a, test) /\ test \in UnitTypes
  <2> HIDE DEF a
  <2> QED
    BY <1>2, WritersKeep, OpcodeTypes DEF SameBut
<1>4. Enter(test, "then", at, <<>>)
  BY DEF If
<1> HIDE DEF a, test
<1>5. SameBut(cu, test) /\ at \in Int
  BY <1>2, <1>3, SameButTwice, WritersKeep
<1> HIDE DEF at
<1>6. ScopesOK(test, scopes)
  BY <1>1, <1>5, ScopesSame
<1>7. "then" \in Kinds /\ Levels("then") = 1 /\ "then" \notin LoopKinds
  BY DEF Kinds, Levels, LoopKinds
<1>8. Len(test.loops) = Len(cu.loops) + 0 /\ test.isModule = cu.isModule
  BY <1>1, <1>5, LenProperties DEF SameBut
<1> QED
  BY <1>1, <1>4, <1>5, <1>6, <1>7, <1>8, EnterIs, NoLocals

\* The innermost loop changes, the number of loops does not.
LEMMA BodyBegins ==
  ASSUME NEW u \in UnitTypes, u.loops # <<>>
  PROVE  /\ SameVariables(u, MarkExit(u)) /\ Len(MarkExit(u).loops) = Len(u.loops) /\ MarkExit(u).loops # <<>>
         /\ SameVariables(u, BeginBody(u)) /\ Len(BeginBody(u).loops) = Len(u.loops) /\ BeginBody(u).loops # <<>>
<1>1. u.loops \in Seq(LoopTypes) /\ Len(u.loops) \in Nat /\ Front(u.loops) \in Seq(LoopTypes) /\ Len(Front(u.loops)) = Len(u.loops) - 1
  BY UnitFacts, LastIs
<1>2. ASSUME NEW l \in LoopTypes PROVE Len(Append(Front(u.loops), l)) = Len(u.loops) /\ Append(Front(u.loops), l) # <<>>
  BY <1>1, AppendProperties
<1>3. SameVariables(u, MarkExit(u)) /\ \E l \in LoopTypes : MarkExit(u).loops = Append(Front(u.loops), l)
  BY MarkExitIs
<1>4. SameVariables(u, BeginBody(u)) /\ \E l \in LoopTypes : BeginBody(u).loops = Append(Front(u.loops), l)
  BY BeginBodyIs
<1> QED
  BY <1>2, <1>3, <1>4

LEMMA SameVariablesTwice ==
  ASSUME NEW u, NEW w, NEW x
  PROVE  /\ SameVariables(u, w) /\ SameVariables(w, x) => SameVariables(u, x)
         /\ SameVariables(u, w) /\ SameBut(w, x) => SameVariables(u, x) /\ x.loops = w.loops
         /\ SameBut(u, w) => SameVariables(u, w)
BY DEF SameBut, SameVariables

LEMMA EnterLoopGrows ==
  ASSUME NEW u \in UnitTypes
  PROVE  /\ SameVariables(u, EnterLoop(u)) /\ Len(EnterLoop(u).loops) = Len(u.loops) + 1 /\ EnterLoop(u).loops # <<>>
         /\ EnterLoop(u) \in UnitTypes
<1>1. u.loops \in Seq(LoopTypes)
  BY UnitFacts
<1>2. SameVariables(u, EnterLoop(u)) /\ \E l \in LoopTypes : EnterLoop(u).loops = Append(u.loops, l)
  BY EnterLoopIs
<1> QED
  BY <1>1, <1>2, AppendProperties DEF SameVariables

LEMMA WhileReads ==
  ASSUME ReadingOK(cu, scopes, todo), While
  PROVE  ReadingOK(cu', scopes', todo')
<1> DEFINE l == EnterLoop(cu)
           a == Expression(l)
           test == EmitInstrWithPlaceholder(a, JUMP_IF_FALSE)
           b == MarkExit(test)
           e == BeginBody(b)
<1>1. ScopesOK(cu, scopes) /\ scopes \in Blocks /\ Len(scopes) \in Nat /\ cu \in UnitTypes /\ cu.loops \in Seq(LoopTypes) /\ Count(cu) \in Int
  BY ScopesFacts, UnitFacts DEF ReadingOK
<1>2. SameVariables(cu, l) /\ Len(l.loops) = Len(cu.loops) + 1 /\ l.loops # <<>> /\ l \in UnitTypes
  BY <1>1, EnterLoopGrows
<1>3. SameBut(l, a) /\ a \in UnitTypes
  <2> HIDE DEF l
  <2> QED
    BY <1>2, WritersKeep DEF SameBut
<1>4. SameBut(a, test) /\ test \in UnitTypes
  <2> HIDE DEF a
  <2> QED
    BY <1>3, WritersKeep, OpcodeTypes DEF SameBut
<1>5. SameVariables(cu, test) /\ test.loops = l.loops
  <2> HIDE DEF l, a, test
  <2> QED
    BY <1>2, <1>3, <1>4, SameVariablesTwice DEF SameBut
<1>6. SameVariables(test, b) /\ Len(b.loops) = Len(l.loops) /\ b.loops # <<>> /\ b \in UnitTypes
  <2> HIDE DEF test, l
  <2> QED
    BY <1>2, <1>4, <1>5, BodyBegins DEF SameVariables
<1>7. SameVariables(b, e) /\ Len(e.loops) = Len(b.loops)
  <2> HIDE DEF b
  <2> QED
    BY <1>6, BodyBegins
<1>8. Enter(e, "while", Count(cu), <<>>)
  BY DEF While
<1> HIDE DEF l, a, test, b, e
<1>9. SameVariables(cu, e)
  BY <1>5, <1>6, <1>7, SameVariablesTwice
<1>10. ScopesOK(e, scopes)
  BY <1>1, <1>9, ScopesSameVariables
<1>11. "while" \in Kinds /\ Levels("while") = 1 /\ "while" \in LoopKinds
  BY DEF Kinds, Levels, LoopKinds
<1>12. Len(e.loops) = Len(cu.loops) + 1 /\ e.isModule = cu.isModule
  BY <1>2, <1>6, <1>7, <1>9 DEF SameVariables
<1> QED
  BY <1>1, <1>8, <1>10, <1>11, <1>12, EnterIs, NoLocals

\* The loop variable is in a scope inside that of "seq " and "iter ".
LEMMA ForReads ==
  ASSUME ReadingOK(cu, scopes, todo), NEW n \in Name, For(n)
  PROVE  ReadingOK(cu', scopes', todo')
<1> DEFINE c1 == EnterScope(cu)
           c2 == Expression(c1)
           seq == AddLocalVar(c2, seqName)
           c3 == WriteOpCode(seq, PUSH_NULL)
           iter == AddLocalVar(c3, iterName)
           Slot(v) == FindLocal(iter, v)
           Load(unit, v) == WriteBytes(WriteOpCode(unit, LOAD_LOCAL_VAR), <<Slot(v)>>)
           Call(unit) == WriteShort(Load(Load(unit, seqName), iterName), CALL1, 0)
           c4 == EnterLoop(iter)
           c5 == Call(c4)
           c6 == WriteOpCode(c5, STORE_LOCAL_VAR)
           next == WriteBytes(c6, <<Slot(iterName)>>)
           c7 == EmitInstrWithPlaceholder(next, JUMP_IF_FALSE)
           test == MarkExit(c7)
           c8 == Call(test)
           c9 == EnterScope(c8)
           value == AddLocalVar(c9, n)
           e == BeginBody(value)
           two == Append(Append(<<>>, seqName), iterName)
           one == Append(<<>>, n)
           t1 == Append(scopes, two)
           t2 == Append(t1, one)
<1>1. ScopesOK(cu, scopes) /\ scopes \in Blocks /\ Len(scopes) \in Nat /\ cu \in UnitTypes /\ cu.loops \in Seq(LoopTypes)
      /\ Len(cu.loops) \in Nat
  <2>1. ScopesOK(cu, scopes) /\ scopes \in Blocks /\ Len(scopes) \in Nat /\ cu \in UnitTypes /\ cu.loops \in Seq(LoopTypes)
    BY ScopesFacts, UnitFacts DEF ReadingOK
  <2> QED
    BY <2>1, LenProperties
<1>2. ~cu.isModule
  BY DEF For, MayDeclare, ReadingOK
<1>3. /\ <<>> \in Seq(Names) /\ Append(<<>>, seqName) \in Seq(Names) /\ two \in Seq(Names) /\ one \in Seq(Names)
      /\ seqName \in Names /\ iterName \in Names /\ n \in Names
  BY EmptySeq, AppendProperties DEF Names
<1>4. t1 \in Blocks /\ Len(t1) = Len(scopes) + 1 /\ t2 \in Blocks /\ Len(t2) = Len(t1) + 1
  <2>1. t1 \in Blocks /\ Len(t1) = Len(scopes) + 1
    BY <1>1, <1>3, UpToAppend
  <2> HIDE DEF t1, one
  <2> QED
    BY <1>3, <2>1, UpToAppend
<1>5. Enter(e, "for", Count(iter), <<<<seqName, iterName>>, <<n>>>>)
  BY DEF For
<1>6. ScopesOK(c1, Append(scopes, <<>>)) /\ c1.isModule = cu.isModule /\ c1.loops = cu.loops
  <2>1. ScopesOK(c1, Append(scopes, <<>>))
    BY <1>1, EnterScopeIs
  <2> QED
    BY <1>1, <2>1 DEF EnterScope, UnitTypes
<1> HIDE DEF c1
<1>7. SameBut(c1, c2)
  BY <1>6, WritersKeep DEF ScopesOK
<1> HIDE DEF c2
<1>8. ScopesOK(seq, Append(scopes, Append(<<>>, seqName))) /\ seq.isModule = cu.isModule /\ seq.loops = cu.loops
  <2>1. ScopesOK(c2, Append(scopes, <<>>)) /\ ~c2.isModule
    BY <1>2, <1>6, <1>7, ScopesSame DEF SameBut
  <2>2. ScopesOK(seq, Append(scopes, Append(<<>>, seqName)))
    BY <1>1, <1>3, <2>1, AddLocalVarIs
  <2> QED
    BY <1>6, <1>7, <2>2 DEF AddLocalVar, SameBut, UnitTypes
<1> HIDE DEF seq
<1>9. SameBut(seq, c3)
  BY <1>8, WritersKeep, OpcodeTypes DEF ScopesOK
<1> HIDE DEF c3
<1>10. ScopesOK(iter, t1) /\ iter.isModule = cu.isModule /\ iter.loops = cu.loops
  <2>1. ScopesOK(c3, Append(scopes, Append(<<>>, seqName))) /\ ~c3.isModule
    BY <1>2, <1>8, <1>9, ScopesSame DEF SameBut
  <2>2. ScopesOK(iter, t1)
    BY <1>1, <1>3, <2>1, AddLocalVarIs
  <2> QED
    BY <1>8, <1>9, <2>2 DEF AddLocalVar, SameBut, UnitTypes
<1> HIDE DEF iter
<1>11. iter \in UnitTypes /\ Count(iter) \in Int /\ Slot(seqName) \in Int /\ Slot(iterName) \in Int
  <2>1. iter \in UnitTypes
    BY <1>10 DEF ScopesOK
  <2>2. \A v : FindLocal(iter, v) \in -1..Len(iter.localVars) - 1 /\ Len(iter.localVars) \in Nat
    BY <2>1, FindLocalIs
  <2>3. \A v : FindLocal(iter, v) \in Int
    BY <2>2
  <2> QED
    BY <2>1, <2>3, UnitFacts
<1> HIDE DEF Slot
<1>12. ASSUME NEW u \in UnitTypes, NEW v, Slot(v) \in Int PROVE SameBut(u, Load(u, v))
  <2> DEFINE x == WriteOpCode(u, LOAD_LOCAL_VAR)
  <2>1. SameBut(u, x) /\ x \in UnitTypes
    BY WritersKeep, OpcodeTypes DEF SameBut
  <2> HIDE DEF x
  <2>2. <<Slot(v)>> \in Seq(Int)
    BY <1>12
  <2>3. SameBut(x, WriteBytes(x, <<Slot(v)>>))
    BY <2>1, <2>2, WritersKeep
  <2> QED
    BY <2>1, <2>3, SameButTwice DEF x
<1>13. ASSUME NEW u \in UnitTypes PROVE SameBut(u, Call(u))
  <2> DEFINE x == Load(u, seqName)
             y == Load(x, iterName)
  <2>1. SameBut(u, x) /\ x \in UnitTypes
    <3>1. SameBut(u, Load(u, seqName))
      BY <1>11, <1>12
    <3> HIDE DEF Load
    <3> QED
      BY <3>1 DEF SameBut
  <2>2. SameBut(x, y) /\ y \in UnitTypes
    <3> HIDE DEF x
    <3>1. SameBut(x, Load(x, iterName))
      BY <1>11, <1>12, <2>1
    <3> HIDE DEF Load
    <3> QED
      BY <3>1 DEF SameBut
  <2> HIDE DEF x, y
  <2>3. \A m \in Int : SameBut(y, WriteShort(y, CALL1, m))
    BY <2>2, WritersKeep, OpcodeTypes
  <2>4. SameBut(y, WriteShort(y, CALL1, 0))
    BY <2>3
  <2>5. Call(u) = WriteShort(y, CALL1, 0)
    BY DEF x, y
  <2> QED
    BY <2>1, <2>2, <2>4, <2>5, SameButTwice
<1> HIDE DEF Call
<1>14. SameVariables(iter, c4) /\ Len(c4.loops) = Len(cu.loops) + 1 /\ c4.loops # <<>> /\ c4 \in UnitTypes
  BY <1>10, <1>11, EnterLoopGrows
<1> HIDE DEF c4
<1>15. SameBut(c4, c5) /\ c5 \in UnitTypes
  BY <1>13, <1>14 DEF SameBut
<1> HIDE DEF c5
<1>16. SameBut(c5, c6) /\ c6 \in UnitTypes
  BY <1>15, WritersKeep, OpcodeTypes DEF SameBut
<1> HIDE DEF c6
<1>17. SameBut(c6, next) /\ next \in UnitTypes
  <2>1. <<Slot(iterName)>> \in Seq(Int)
    BY <1>11
  <2> QED
    BY <1>16, <2>1, WritersKeep DEF SameBut
<1> HIDE DEF next
<1>18. SameBut(next, c7) /\ c7 \in UnitTypes
  BY <1>17, WritersKeep, OpcodeTypes DEF SameBut
<1> HIDE DEF c7
<1>19. SameVariables(iter, c7) /\ c7.loops = c4.loops
  BY <1>14, <1>15, <1>16, <1>17, <1>18, SameVariablesTwice
<1>20. SameVariables(c7, test) /\ Len(test.loops) = Len(c4.loops) /\ test.loops # <<>> /\ test \in UnitTypes
  BY <1>14, <1>18, <1>19, BodyBegins DEF SameVariables
<1> HIDE DEF test
<1>21. SameBut(test, c8)
  BY <1>13, <1>20
<1> HIDE DEF c8
<1>22. SameVariables(iter, c8) /\ Len(c8.loops) = Len(cu.loops) + 1 /\ c8.loops # <<>>
  BY <1>14, <1>19, <1>20, <1>21, SameVariablesTwice DEF SameBut
<1>23. ScopesOK(c8, t1) /\ c8.isModule = cu.isModule
  BY <1>10, <1>22, ScopesSameVariables DEF SameVariables
<1>24. ScopesOK(c9, Append(t1, <<>>)) /\ c9.isModule = cu.isModule /\ c9.loops = c8.loops
  <2>1. ScopesOK(c9, Append(t1, <<>>))
    BY <1>23, EnterScopeIs
  <2> QED
    BY <1>23, <2>1 DEF EnterScope, UnitTypes
<1> HIDE DEF c9, t1
<1>25. ScopesOK(value, t2) /\ value.isModule = cu.isModule /\ value.loops = c8.loops
  <2>1. ScopesOK(value, t2)
    BY <1>2, <1>3, <1>4, <1>24, AddLocalVarIs
  <2> QED
    BY <1>24, <2>1 DEF AddLocalVar, UnitTypes
<1> HIDE DEF value, t2
<1>26. SameVariables(value, e) /\ Len(e.loops) = Len(value.loops)
  BY <1>22, <1>25, BodyBegins DEF ScopesOK
<1>27. ScopesOK(e, t2) /\ e.isModule = cu.isModule /\ Len(e.loops) = Len(cu.loops) + 1
  BY <1>22, <1>25, <1>26, ScopesSameVariables DEF SameVariables
<1>28. "for" \in Kinds /\ Levels("for") = 3 /\ "for" \in LoopKinds
  BY DEF Kinds, Levels, LoopKinds
<1>29. scopes \o <<<<seqName, iterName>>, <<n>>>> = t2
  <2>1. <<seqName, iterName>> = two /\ <<n>> = one
    BY <1>3
  <2>2. <<two, one>> = <<two>> \o <<one>> /\ <<two>> \in Seq(Seq(Names)) /\ <<one>> \in Seq(Seq(Names))
    <3> HIDE DEF two, one
    <3>1. <<two>> \in Seq(Seq(Names)) /\ <<one>> \in Seq(Seq(Names))
      BY <1>3
    <3>2. <<two, one>> = Append(<<two>>, one)
      OBVIOUS
    <3> QED
      BY <1>3, <3>1, <3>2, AppendIsConcat
  <2>3. t1 = scopes \o <<two>> /\ t2 = t1 \o <<one>>
    <3>1. scopes \in Seq(Seq(Names)) /\ t1 \in Seq(Seq(Names))
      BY <1>1, <1>4 DEF Blocks
    <3> HIDE DEF two, one
    <3>2. t1 = Append(scopes, two) /\ t2 = Append(t1, one)
      BY DEF t1, t2
    <3> QED
      BY <1>3, <3>1, <3>2, AppendIsConcat
  <2>4. ASSUME NEW p \in Seq(Seq(Names)), NEW q \in Seq(Seq(Names)), NEW r \in Seq(Seq(Names)) PROVE (p \o q) \o r = p \o (q \o r)
    OBVIOUS
  <2> HIDE DEF two, one
  <2> QED
    BY <1>1, <2>1, <2>2, <2>3, <2>4 DEF Blocks
<1>30. Len(t2) + 1 = Len(scopes) + 3
  BY <1>1, <1>4
<1> QED
  BY <1>4, <1>5, <1>11, <1>27, <1>28, <1>29, <1>30, EnterIs

LEMMA LeaveOneScope ==
  ASSUME NEW u, NEW ss \in Blocks, NEW k \in 1..Len(ss), ScopesOK(u, SubSeq(ss, 1, k)), u.isModule \/ k > 1
  PROVE  /\ ScopesOK(LeaveScope(u), SubSeq(ss, 1, k - 1))
         /\ LeaveScope(u).isModule = u.isModule /\ LeaveScope(u).loops = u.loops
         /\ LeaveScope(u).upvalueNums = u.upvalueNums
<1> DEFINE j == k - 1
           tt == SubSeq(ss, 1, j)
           b == ss[k]
<1>1. j \in 0..Len(ss) /\ j < Len(ss) /\ j + 1 = k /\ ss \in Seq(Seq(Names)) /\ Len(ss) \in Nat
  BY UpToFacts DEF Blocks
<1> HIDE DEF j
<1>2. tt \in Seq(Seq(Names)) /\ Len(tt) = j /\ SubSeq(ss, 1, j + 1) = Append(tt, ss[j + 1])
  BY <1>1, SubSeqIs
<1>3. b \in Seq(Names) /\ tt \in Blocks /\ SubSeq(ss, 1, k) = Append(tt, b)
  BY <1>1, <1>2, ElementOfSeq DEF Blocks
<1>4. u.isModule \/ Len(tt) > 0
  BY <1>1, <1>2
<1> HIDE DEF tt, b
<1>5. ScopesOK(u, Append(tt, b))
  BY <1>3
<1>6. /\ ScopesOK(LeaveScope(u), tt) /\ LeaveScope(u).isModule = u.isModule
      /\ LeaveScope(u).loops = u.loops /\ LeaveScope(u).upvalueNums = u.upvalueNums
  BY <1>3, <1>4, <1>5, LeaveScopeIs
<1> QED
  BY <1>6 DEF tt, j

LEMMA LeaveIs ==
  ASSUME NEW code, NEW kind, ReadingOK(cu, scopes, todo), Leave(kind, code),
         ScopesOK(code, SubSeq(scopes, 1, Last(todo).outer)), code.isModule = cu.isModule,
         Len(code.loops) = Len(cu.loops) - IF kind \in LoopKinds THEN 1 ELSE 0
  PROVE  ReadingOK(cu', scopes', todo')
<1> DEFINE tt == SubSeq(scopes, 1, Last(todo).outer)
<1>1. todo # <<>> /\ Last(todo).kind = kind /\ cu' = code /\ todo' = Front(todo) /\ scopes' = tt
  BY DEF Leave
<1>2. Len(tt) = Last(todo).outer
  <2>1. /\ Last(todo).outer = Len(scopes) - Levels(Last(todo).kind) /\ Last(todo).outer \in Nat /\ Len(scopes) \in Nat
        /\ scopes \in Blocks
    BY <1>1, InnermostStatement
  <2>2. Levels(Last(todo).kind) \in Nat
    BY DEF Levels
  <2>3. Last(todo).outer \in 0..Len(scopes)
    BY <2>1, <2>2
  <2> QED
    BY <2>1, <2>3, SubSeqIs DEF Blocks
<1>3. ReadingOK(code, tt, Front(todo))
  <2> HIDE DEF tt
  <2>1. ScopesOK(code, tt)
    BY DEF tt
  <2> QED
    BY <1>1, <1>2, <2>1, LeaveReads
<1> QED
  BY <1>1, <1>3

\* The innermost block is left.
LEMMA LeaveInnermost ==
  ASSUME ReadingOK(cu, scopes, todo), todo # <<>>
  PROVE  LET w == LeaveScope(cu)
             k == Len(scopes)
         IN  /\ ScopesOK(w, SubSeq(scopes, 1, k - 1)) /\ w.isModule = cu.isModule /\ w.loops = cu.loops
             /\ w.upvalueNums = cu.upvalueNums
             /\ w \in UnitTypes /\ k \in Nat /\ k > 0 /\ (cu.isModule \/ k > 1)
             /\ Levels(Last(todo).kind) = 1 => Last(todo).outer = k - 1
<1>1. /\ Last(todo).outer = Len(scopes) - Levels(Last(todo).kind) /\ Last(todo).outer \in Nat /\ Len(scopes) \in Nat
      /\ scopes \in Blocks /\ (cu.isModule \/ Last(todo).outer > 0)
  BY InnermostStatement
<1>2. Levels(Last(todo).kind) \in 1..3
  BY DEF Levels
<1>3. Len(scopes) \in 1..Len(scopes) /\ (cu.isModule \/ Len(scopes) > 1)
  BY <1>1, <1>2
<1>4. SubSeq(scopes, 1, Len(scopes)) = scopes
  BY <1>1, SubSeqFull DEF Blocks
<1>5. ScopesOK(cu, SubSeq(scopes, 1, Len(scopes)))
  BY <1>4 DEF ReadingOK
<1>6. /\ ScopesOK(LeaveScope(cu), SubSeq(scopes, 1, Len(scopes) - 1)) /\ LeaveScope(cu).isModule = cu.isModule
      /\ LeaveScope(cu).loops = cu.loops /\ LeaveScope(cu).upvalueNums = cu.upvalueNums
  BY <1>1, <1>3, <1>5, LeaveOneScope
<1> QED
  BY <1>1, <1>3, <1>6 DEF ScopesOK

LEMMA LeaveBlocksRead ==
  ASSUME ReadingOK(cu, scopes, todo), EndBlock \/ EndIf \/ EndElse
  PROVE  ReadingOK(cu', scopes', todo')
<1> DEFINE w == LeaveScope(cu)
<1>1. todo # <<>> /\ Last(todo).kind \in {"block", "then", "else"}
  BY DEF EndBlock, EndIf, EndElse, Leave
<1>2. Levels(Last(todo).kind) = 1 /\ Last(todo).kind \notin LoopKinds
  BY <1>1 DEF Levels, LoopKinds
<1>3. /\ ScopesOK(w, SubSeq(scopes, 1, Last(todo).outer)) /\ w.isModule = cu.isModule /\ w.loops = cu.loops /\ w \in UnitTypes
  BY <1>1, <1>2, LeaveInnermost
<1>4. Last(todo).at \in Int /\ cu \in UnitTypes
  BY <1>1, InnermostStatement
<1>5. cu.loops \in Seq(LoopTypes)
  BY <1>4, UnitFacts
<1>6. Len(cu.loops) = Len(cu.loops) - 0
  BY <1>5, LenProperties
<1> HIDE DEF w
<1> DEFINE e == PatchPlaceholder(w, Last(todo).at)
<1>7. SameBut(w, e)
  BY <1>3, <1>4, WritersKeep
<1>8. ScopesOK(e, SubSeq(scopes, 1, Last(todo).outer)) /\ e.isModule = cu.isModule /\ e.loops = cu.loops
  BY <1>3, <1>7, ScopesSame DEF SameBut
<1>9. CASE EndBlock
  <2>1. Leave("block", w) /\ Last(todo).kind = "block"
    BY <1>9 DEF EndBlock, w, Leave
  <2> QED
    BY <1>2, <1>3, <1>6, <2>1, LeaveIs
<1>10. CASE EndIf \/ EndElse
  <2>1. Leave(Last(todo).kind, e)
    BY <1>10 DEF EndIf, EndElse, w, Leave
  <2> HIDE DEF e
  <2> QED
    BY <1>2, <1>6, <1>8, <2>1, LeaveIs
<1> QED
  BY <1>9, <1>10

LEMMA ElseReads ==
  ASSUME ReadingOK(cu, scopes, todo), Else
  PROVE  ReadingOK(cu', scopes', todo')
<1> DEFINE w == LeaveScope(cu)
           tt == SubSeq(scopes, 1, Len(scopes) - 1)
           r == Front(todo)
           skip == EmitInstrWithPlaceholder(w, JUMP)
           e == PatchPlaceholder(skip, Last(todo).at)
           b == [Last(todo) EXCEPT !.kind = "else", !.at = Placeholder(skip)]
<1>1. todo # <<>> /\ Last(todo).kind = "then" /\ cu' = EnterScope(e) /\ todo' = Append(r, b) /\ scopes' = Append(tt, <<>>)
  BY DEF Else, Front
<1>2. Levels("then") = 1 /\ "then" \notin LoopKinds /\ Levels("else") = 1 /\ "else" \notin LoopKinds /\ "else" \in Kinds
  BY DEF Levels, LoopKinds, Kinds
<1>3. /\ ScopesOK(w, tt) /\ w.isModule = cu.isModule /\ w.loops = cu.loops /\ w \in UnitTypes /\ Len(scopes) \in Nat
      /\ Last(todo).outer = Len(scopes) - 1 /\ Len(scopes) > 0
  BY <1>1, <1>2, LeaveInnermost
<1>4. Last(todo) \in TodoTypes /\ Last(todo).at \in Int /\ cu \in UnitTypes /\ scopes \in Blocks
  BY <1>1, InnermostStatement
<1>5. cu.loops \in Seq(LoopTypes) /\ Len(cu.loops) \in Nat
  <2>1. cu.loops \in Seq(LoopTypes)
    BY <1>4, UnitFacts
  <2> QED
    BY <2>1, LenProperties
<1>6. Len(tt) = Last(todo).outer /\ Len(tt) + 1 = Len(scopes)
  <2> DEFINE k == Len(scopes) - 1
  <2>1. k \in 0..Len(scopes) /\ k + 1 = Len(scopes)
    BY <1>3
  <2> HIDE DEF k
  <2>2. Len(SubSeq(scopes, 1, k)) = k
    BY <1>4, <2>1, SubSeqIs DEF Blocks
  <2> QED
    BY <1>3, <2>1, <2>2 DEF k
<1> HIDE DEF w, tt
<1>7. ReadingOK(w, tt, r)
  <2>1. Len(w.loops) = Len(cu.loops) - 0
    BY <1>3, <1>5
  <2> QED
    BY <1>1, <1>2, <1>3, <1>6, <2>1, LeaveReads
<1>8. SameBut(w, skip) /\ skip \in UnitTypes
  BY <1>3, WritersKeep, OpcodeTypes DEF SameBut
<1> HIDE DEF skip, r
<1>9. SameBut(skip, e) /\ Placeholder(skip) \in Int
  BY <1>4, <1>8, WritersKeep
<1> HIDE DEF e
<1>10. ReadingOK(e, tt, r) /\ e.isModule = cu.isModule
  <2>1. SameBut(w, e)
    BY <1>8, <1>9, SameButTwice
  <2> QED
    BY <1>3, <1>7, <2>1, SimpleReads DEF SameBut
<1>11. b \in TodoTypes /\ b.outer = Len(tt) /\ b.kind = "else"
  <2>1. PICK at \in Int : at = Placeholder(skip)
    BY <1>9
  <2>2. [Last(todo) EXCEPT !.kind = "else", !.at = at] \in TodoTypes
    BY <1>2, <1>4 DEF TodoTypes
  <2> QED
    BY <1>4, <1>6, <2>1, <2>2 DEF TodoTypes
<1> HIDE DEF b
<1> DEFINE x == EnterScope(e)
           ss == Append(tt, <<>>)
<1>12. ScopesOK(x, ss) /\ x.isModule = e.isModule /\ x.loops = e.loops
  <2>1. ScopesOK(e, tt)
    BY <1>10 DEF ReadingOK
  <2>2. ScopesOK(x, ss)
    BY <2>1, EnterScopeIs
  <2> QED
    BY <2>1, <2>2 DEF EnterScope, ScopesOK, UnitTypes
<1>13. Len(ss) = Len(tt) + 1
  <2>1. tt \in Blocks /\ <<>> \in Seq(Names)
    BY <1>3, EmptySeq DEF ScopesOK
  <2> QED
    BY <2>1, UpToAppend
<1>14. Len(x.loops) = Len(e.loops) + 0
  <2>1. e.loops \in Seq(LoopTypes)
    BY <1>10, UnitFacts DEF ReadingOK, ScopesOK
  <2> QED
    BY <1>12, <2>1, LenProperties
<1> HIDE DEF x, ss
<1>15. ReadingOK(x, ss, Append(r, b))
  BY <1>2, <1>10, <1>11, <1>12, <1>13, <1>14, EnterReads
<1> QED
  BY <1>1, <1>15 DEF x, ss

LEMMA EndWhileReads ==
  ASSUME ReadingOK(cu, scopes, todo), EndWhile
  PROVE  ReadingOK(cu', scopes', todo')
<1> DEFINE w == LeaveScope(cu)
           tt == SubSeq(scopes, 1, Last(todo).outer)
           left == LeaveLoopPatch(w)
<1>1. todo # <<>> /\ Last(todo).kind = "while" /\ Leave("while", left)
  BY DEF EndWhile, Leave
<1>2. Levels("while") = 1 /\ "while" \in LoopKinds
  BY DEF Levels, LoopKinds
<1>3. ScopesOK(w, tt) /\ w.isModule = cu.isModule /\ w.loops = cu.loops /\ w \in UnitTypes
  BY <1>1, <1>2, LeaveInnermost
<1>4. cu.loops # <<>> /\ cu \in UnitTypes
  BY <1>1, <1>2, InnermostStatement
<1>5. cu.loops \in Seq(LoopTypes) /\ Len(Front(cu.loops)) = Len(cu.loops) - 1
  <2>1. cu.loops \in Seq(LoopTypes)
    BY <1>4, UnitFacts
  <2> QED
    BY <1>4, <2>1, LastIs
<1> HIDE DEF w
<1>6. SameVariables(w, left) /\ left.loops = Front(cu.loops)
  BY <1>3, <1>4, LeaveLoopPatchKeeps
<1> HIDE DEF left
<1>7. ScopesOK(left, tt) /\ left.isModule = cu.isModule
  BY <1>3, <1>6, ScopesSameVariables DEF SameVariables
<1> QED
  BY <1>1, <1>2, <1>5, <1>6, <1>7, LeaveIs

LEMMA EndForReads ==
  ASSUME ReadingOK(cu, scopes, todo), EndFor
  PROVE  ReadingOK(cu', scopes', todo')
<1> DEFINE w == LeaveScope(cu)
           v == LeaveScope(w)
           left == LeaveLoopPatch(v)
           e == LeaveScope(left)
           k == Len(scopes)
           j == k - 1
           i == j - 1
<1>1. todo # <<>> /\ Last(todo).kind = "for" /\ Leave("for", e)
  BY DEF EndFor, Leave
<1>2. Levels("for") = 3 /\ "for" \in LoopKinds
  BY DEF Levels, LoopKinds
<1>3. /\ ScopesOK(w, SubSeq(scopes, 1, j)) /\ w.isModule = cu.isModule /\ w.loops = cu.loops /\ w \in UnitTypes
      /\ k \in Nat
  BY <1>1, LeaveInnermost
<1>4. /\ cu.loops # <<>> /\ cu \in UnitTypes /\ scopes \in Blocks /\ (cu.isModule \/ Last(todo).outer > 0)
      /\ Last(todo).outer = Len(scopes) - 3 /\ Last(todo).outer \in Nat
  BY <1>1, <1>2, InnermostStatement
<1>5. cu.loops \in Seq(LoopTypes) /\ Len(Front(cu.loops)) = Len(cu.loops) - 1
  <2>1. cu.loops \in Seq(LoopTypes)
    BY <1>4, UnitFacts
  <2> QED
    BY <1>4, <2>1, LastIs
<1>6. /\ j \in 1..Len(scopes) /\ (cu.isModule \/ j > 1) /\ i \in 1..Len(scopes) /\ (cu.isModule \/ i > 1)
      /\ i - 1 = Last(todo).outer
  BY <1>3, <1>4
<1> HIDE DEF w, k, j
<1>7. ScopesOK(v, SubSeq(scopes, 1, i)) /\ v.isModule = cu.isModule /\ v.loops = cu.loops /\ v \in UnitTypes
  <2>1. ScopesOK(v, SubSeq(scopes, 1, i)) /\ v.isModule = cu.isModule /\ v.loops = cu.loops
    BY <1>3, <1>4, <1>6, LeaveOneScope
  <2> QED
    BY <2>1 DEF ScopesOK
<1> HIDE DEF v, i
<1>8. SameVariables(v, left) /\ left.loops = Front(cu.loops)
  BY <1>4, <1>7, LeaveLoopPatchKeeps
<1> HIDE DEF left
<1>9. ScopesOK(left, SubSeq(scopes, 1, i)) /\ left.isModule = cu.isModule
  BY <1>7, <1>8, ScopesSameVariables DEF SameVariables
<1>10. ScopesOK(e, SubSeq(scopes, 1, i - 1)) /\ e.isModule = cu.isModule /\ e.loops = Front(cu.loops)
  BY <1>4, <1>6, <1>8, <1>9, LeaveOneScope
<1> HIDE DEF e
<1> QED
  BY <1>1, <1>2, <1>5, <1>6, <1>10, LeaveIs

-----------------------------------------------------------------------------
(***************************************************************************)
(* The variables in scope.                                                 *)
(***************************************************************************)
LEMMA ReadingInit ==
  ASSUME Init, TRUE \in Units => ~ModuleLocals
  PROVE  ReadingOK(cu, scopes, todo)
<1>1. PICK isModule \in Units : cu = InitCompileUnit(isModule)
  BY DEF Init
<1>2. isModule \in BOOLEAN /\ Len(<<>>) = 0
  BY <1>1, CodegenAssumption, EmptySeq
<1>3. /\ todo = <<>> /\ <<>> \in Seq(TodoTypes) /\ LoopsIn(todo) = {} /\ Cardinality(LoopsIn(todo)) = 0
      /\ \A n : NestOK(todo, isModule, n)
  BY <1>2, EmptySeq, FS_EmptySet DEF Init, LoopsIn, NestOK
<1>4. <<>> \in Seq(LoopTypes) /\ <<>> \in Seq(Int) /\ <<>> \in Seq(Nat) /\ <<>> \in Seq(LocalTypes) /\ <<>> \in Blocks
      /\ <<>> \in Seq(Names) /\ <<>> \in Seq(Seq(Names))
  BY EmptySeq DEF Blocks
<1>5. FlattenSeq(<<>>) = <<>>
  BY <1>4, FlattenAppend
<1>6. CASE isModule
  <2>1. cu = [isModule |-> TRUE, scopeDepth |-> -1, localVars |-> <<>>, stackSlotNum |-> 0, maxSlots |-> 0,
              code |-> <<>>, upvalueNums |-> <<>>, loops |-> <<>>]
    BY <1>1, <1>2, <1>6 DEF InitCompileUnit
  <2>2. cu \in UnitTypes /\ cu.isModule = TRUE /\ cu.localVars = <<>> /\ cu.scopeDepth = -1 /\ cu.loops = <<>>
    BY <1>4, <2>1 DEF UnitTypes
  <2>3. scopes = <<>>
    BY <2>2 DEF Init
  <2>4. NamesOf(<<>>) = <<>>
    <3>1. NamesOf(<<>>) \in Seq(Names) /\ Len(NamesOf(<<>>)) = 0
      BY <1>2, <1>4, NamesOfIs
    <3> QED
      BY <3>1, EmptySeq
  <2>5. DepthsOK(cu.localVars, scopes)
    BY <1>2, <2>2, <2>3 DEF DepthsOK
  <2>6. ScopesOK(cu, scopes)
    BY <1>2, <1>4, <1>5, <2>2, <2>3, <2>4, <2>5 DEF ScopesOK
  <2>7. ~ModuleLocals
    BY <1>6
  <2>8. NestOK(todo, cu.isModule, Len(scopes))
    BY <1>3 DEF NestOK, Init
  <2>9. Len(cu.loops) = Cardinality(LoopsIn(todo))
    BY <1>2, <1>3, <2>2
  <2> QED
    BY <1>3, <2>6, <2>7, <2>8, <2>9 DEF ReadingOK
<1>7. CASE ~isModule
  <2> DEFINE x == Local(NoName, -1)
             v == Append(<<>>, x)
             b == Append(<<>>, NoName)
             ss == Append(<<>>, b)
  <2>1. x \in LocalTypes /\ x.name = NoName /\ x.scopeDepth = -1 /\ NoName \in Names
    BY DEF Local, LocalTypes, Names
  <2>2. v \in Seq(LocalTypes) /\ Len(v) = 1 /\ v[1] = x /\ v = <<x>>
    <3> HIDE DEF x
    <3> QED
      BY <2>1
  <2>3. b \in Seq(Names) /\ Len(b) = 1 /\ b[1] = NoName /\ b = <<NoName>>
    BY <2>1
  <2>4. ss \in Blocks /\ Len(ss) = 1 /\ FlattenSeq(ss) = <<>> \o b /\ UpTo(ss, 1) = 1 /\ ss = <<b>>
    <3> HIDE DEF b
    <3>1. ss \in Blocks /\ Len(ss) = Len(<<>>) + 1 /\ FlattenSeq(ss) = FlattenSeq(<<>>) \o b /\ UpTo(ss, Len(ss)) = UpTo(<<>>, Len(<<>>)) + Len(b)
      BY <1>4, <2>3, UpToAppend
    <3>2. UpTo(<<>>, 0) = 0
      BY <1>4, UpToFacts
    <3>3. ss = <<b>>
      OBVIOUS
    <3> HIDE DEF ss
    <3> QED
      BY <1>2, <1>5, <2>3, <3>1, <3>2, <3>3
  <2>5. cu = [isModule |-> FALSE, scopeDepth |-> 0, localVars |-> <<x>>, stackSlotNum |-> Len(<<x>>), maxSlots |-> Len(<<x>>),
              code |-> <<>>, upvalueNums |-> <<>>, loops |-> <<>>]
    BY <1>1, <1>2, <1>7 DEF InitCompileUnit
  <2> HIDE DEF x, v, b, ss
  <2>6. cu \in UnitTypes /\ cu.isModule = FALSE /\ cu.localVars = v /\ cu.scopeDepth = 0 /\ cu.loops = <<>>
    BY <1>4, <2>2, <2>5 DEF UnitTypes
  <2>7. scopes = ss
    BY <2>3, <2>4, <2>6 DEF Init
  <2>8. NamesOf(v) = FlattenSeq(ss)
    <3>0. 1 \in 1..Len(v)
      BY <2>2
    <3>1. NamesOf(v) \in Seq(Names) /\ Len(NamesOf(v)) = 1 /\ NamesOf(v)[1] = NoName
      BY <2>1, <2>2, <3>0, NamesOfIs
    <3>2. \A i \in 1..Len(NamesOf(v)) : NamesOf(v)[i] = b[i]
      BY <2>3, <3>1
    <3>3. NamesOf(v) = b
      BY <2>3, <3>1, <3>2, SeqEqual
    <3> QED
      BY <2>3, <2>4, <3>3, ConcatEmptySeq
  <2>9. DepthsOK(v, ss)
    <3> SUFFICES ASSUME NEW k \in 1..1, NEW i \in 1..1 PROVE v[i].scopeDepth >= k <=> i > UpTo(ss, k)
      BY <2>2, <2>4 DEF DepthsOK
    <3> QED
      BY <2>1, <2>2, <2>4
  <2>10. ScopesOK(cu, scopes)
    BY <2>4, <2>6, <2>7, <2>8, <2>9 DEF ScopesOK
  <2>11. NestOK(todo, cu.isModule, Len(scopes))
    BY <1>2, <1>3 DEF NestOK
  <2>12. Len(cu.loops) = Cardinality(LoopsIn(todo))
    BY <1>2, <1>3, <2>6
  <2> QED
    BY <1>3, <2>6, <2>10, <2>11, <2>12 DEF ReadingOK
<1> QED
  BY <1>2, <1>6, <1>7

LEMMA ReadingStep ==
  ASSUME ReadingOK(cu, scopes, todo), [Next]_vars
  PROVE  ReadingOK(cu, scopes, todo)'
<1>1. ASSUME NEW n \in Name, VarDefinition(n) \/ For(n) PROVE ReadingOK(cu', scopes', todo')
  BY <1>1, VarDefinitionReads, ForReads
<1>2. ASSUME NEW ns \in SUBSET Name, CallWithBlock(ns) PROVE ReadingOK(cu', scopes', todo')
  BY <1>2, CallWithBlockReads
<1>3. ASSUME NEW op \in {AND, OR}, Logic(op) PROVE ReadingOK(cu', scopes', todo')
  BY <1>3, LogicReads
<1>4. CASE ModuleVarDefinition \/ Condition \/ Return \/ Break \/ Continue
  BY <1>4, ModuleVarDefinitionReads, ConditionReads, SmallStatementsRead
<1>5. CASE Block \/ If \/ While
  BY <1>5, BlockReads, IfReads, WhileReads
<1>6. CASE EndBlock \/ EndIf \/ Else \/ EndElse \/ EndWhile \/ EndFor
  BY <1>6, LeaveBlocksRead, ElseReads, EndWhileReads, EndForReads
<1>7. CASE EndUnit
  <2> DEFINE a == WriteOpCode(cu, PUSH_NULL)
             b == WriteOpCode(a, RETURN)
             e == WriteOpCode(b, END)
  <2>1. SameBut(cu, a) /\ a \in UnitTypes
    BY WritersKeep, OpcodeTypes DEF SameBut, ReadingOK, ScopesOK
  <2>2. SameBut(a, b) /\ b \in UnitTypes
    <3> HIDE DEF a
    <3> QED
      BY <2>1, WritersKeep, OpcodeTypes DEF SameBut
  <2>3. SameBut(b, e)
    <3> HIDE DEF b
    <3> QED
      BY <2>2, WritersKeep, OpcodeTypes
  <2>4. cu' = e /\ scopes' = scopes /\ todo' = todo
    BY <1>7 DEF EndUnit
  <2> HIDE DEF a, b, e
  <2> QED
    BY <2>1, <2>2, <2>3, <2>4, SameButTwice, SimpleReads
<1>8. CASE Run
  <2>1. cu' = cu /\ scopes' = scopes /\ todo' = todo
    BY <1>8 DEF Run, PushNull, LoadLocalVar, LoadModuleVar, StoreLocalVar, StoreModuleVar, Pop, Call1, Jump, Loop, JumpIfFalse,
       AndOr, CreateClosure, CloseUpvalue, AssertionFails, ReturnFrom, Over, Step, vars, source
  <2> QED
    BY <2>1
<1>9. CASE UNCHANGED vars
  BY <1>9 DEF vars, source
<1> QED
  BY <1>1, <1>2, <1>3, <1>4, <1>5, <1>6, <1>7, <1>8, <1>9 DEF Next, Compile

\* Where blocks of modules have no variables (see leaveScope()), the compiler finds the variables
\* in scope and no others, whatever the statements and however deep the blocks, with break and
\* continue anywhere in them (enterScope(), leaveScope(), discardLocalVar(), addLocalVar()).
THEOREM VariablesAreThoseInScope ==
  ASSUME TRUE \in Units => ~ModuleLocals
  PROVE  Spec => []LocalsAreLexical
<1>1. Init => ReadingOK(cu, scopes, todo)
  BY ReadingInit
<1>2. ReadingOK(cu, scopes, todo) /\ [Next]_vars => ReadingOK(cu, scopes, todo)'
  BY ReadingStep
<1>3. ReadingOK(cu, scopes, todo) => LocalsAreLexical
  BY DEF ReadingOK, ScopesOK, NamesOf, LocalsAreLexical, InScope
<1> QED
  BY <1>1, <1>2, <1>3, PTL DEF Spec

-----------------------------------------------------------------------------
(***************************************************************************)
(* The stack at each instruction.                                          *)
(***************************************************************************)
Bytes == 0..BYTE - 1

\* d slots are in use, and at most those of c have an open upvalue.
Stacks == {s \in [d : Nat, c : SUBSET Nat] : \A x \in s.c : x < s.d}

Straight == {PUSH_NULL, LOAD_LOCAL_VAR, STORE_LOCAL_VAR, LOAD_MODULE_VAR, STORE_MODULE_VAR, POP, CALL1, CLOSE_UPVALUE,
             CREATE_CLOSURE}
Branching == {JUMP_IF_FALSE, AND, OR}

Leads(s, t) == s.d = t.d /\ s.c \subseteq t.c

\* The slots that the closure created at address a refers to.
Captures(u, a) == {ByteAt(u, a + 2 + 2 * i) : i \in 1..u.upvalueNums[ShortAt(u, a + 1) + 1]}

\* The stack when the instruction at address a is done and does not jump.
Falls(u, a, s) ==
  [d |-> s.d + SlotsUsed(ByteAt(u, a)),
   c |-> IF ByteAt(u, a) = CLOSE_UPVALUE THEN {x \in s.c : x < s.d - 1}
         ELSE IF ByteAt(u, a) = CREATE_CLOSURE THEN s.c \union Captures(u, a) ELSE s.c]

\* The stack when it jumps.
Lands(op, s) == [d |-> s.d - (IF op = JUMP_IF_FALSE THEN 1 ELSE 0), c |-> s.c]

InstrOK(u, D, a) ==
  /\ ByteAt(u, a) \in 1..END
  /\ ByteAt(u, a) = CREATE_CLOSURE => ShortAt(u, a + 1) + 1 \in 1..Len(u.upvalueNums)
  /\ a + Width(u, a) \in D
  /\ \A b \in D : b <= a \/ b >= a + Width(u, a)

\* D are the addresses of the instructions, and that of the next one.
Chained(u, D) ==
  /\ D \subseteq 0..Count(u) /\ 0 \in D /\ Count(u) \in D
  /\ \A a \in D : a < Count(u) => InstrOK(u, D, a)

Target(u, a) == a + 3 + ShortAt(u, a + 1)
BackTarget(u, a) == a + 3 - ShortAt(u, a + 1)

\* Control goes from the instruction at address a to where T has its stack, but for the jumps P,
\* whose operands are placeholders.
FlowOK(u, T, P, a) ==
  LET op == ByteAt(u, a)
  IN  /\ op \in Straight \union Branching => Leads(Falls(u, a, T[a]), T[a + Width(u, a)])
      /\ op \in Branching \union {JUMP} /\ a \notin P =>
           Target(u, a) \in DOMAIN T /\ Leads(Lands(op, T[a]), T[Target(u, a)])
      /\ op = LOOP => BackTarget(u, a) \in DOMAIN T /\ Leads(T[a], T[BackTarget(u, a)])

RoomOK(u, T) ==
  /\ T[Count(u)].d <= u.stackSlotNum /\ u.stackSlotNum <= u.maxSlots
  /\ \A a \in DOMAIN T : T[a].d <= u.maxSlots

\* The code of u is one of whole instructions, and T gives the stack at each.
Sound(u, T, P) ==
  /\ u \in UnitTypes /\ u.code \in Seq(Bytes)
  /\ Chained(u, DOMAIN T) /\ T \in [DOMAIN T -> Stacks]
  /\ \A a \in DOMAIN T : a < Count(u) => FlowOK(u, T, P, a)
  /\ RoomOK(u, T)

\* The instruction at address a of u is in w as well.
Kept(u, w, a) == \A k \in 0..Width(u, a) - 1 : ByteAt(w, a + k) = ByteAt(u, a + k)

MoreUpvalues(u, w) ==
  \A i \in 1..Len(u.upvalueNums) : i \in 1..Len(w.upvalueNums) /\ w.upvalueNums[i] = u.upvalueNums[i]

LEMMA OpcodesDiffer ==
  /\ PUSH_NULL = 1 /\ LOAD_LOCAL_VAR = 2 /\ STORE_LOCAL_VAR = 3 /\ LOAD_MODULE_VAR = 4 /\ STORE_MODULE_VAR = 5 /\ POP = 6
  /\ CALL1 = 7 /\ JUMP = 8 /\ LOOP = 9 /\ JUMP_IF_FALSE = 10 /\ AND = 11 /\ OR = 12 /\ CLOSE_UPVALUE = 13 /\ RETURN = 14
  /\ CREATE_CLOSURE = 15 /\ END = 16
BY DEF PUSH_NULL, LOAD_LOCAL_VAR, STORE_LOCAL_VAR, LOAD_MODULE_VAR, STORE_MODULE_VAR, POP, CALL1, JUMP, LOOP,
       JUMP_IF_FALSE, AND, OR, CLOSE_UPVALUE, RETURN, CREATE_CLOSURE, END

LEMMA WidthIs ==
  ASSUME NEW u, NEW a, ByteAt(u, a) \in 1..END
  PROVE  /\ ByteAt(u, a) \in {RETURN, CLOSE_UPVALUE, PUSH_NULL, POP} => Width(u, a) = 1
         /\ ByteAt(u, a) \in {LOAD_LOCAL_VAR, STORE_LOCAL_VAR} => Width(u, a) = 2
         /\ ByteAt(u, a) \in {LOAD_MODULE_VAR, STORE_MODULE_VAR, CALL1, JUMP, LOOP, JUMP_IF_FALSE, AND, OR, END} => Width(u, a) = 3
         /\ ByteAt(u, a) = CREATE_CLOSURE => Width(u, a) = 1 + (2 + 2 * u.upvalueNums[ShortAt(u, a + 1) + 1])
<1> DEFINE op == ByteAt(u, a)
<1>1. op \in {RETURN, CLOSE_UPVALUE, PUSH_NULL, POP} => Width(u, a) = 1
  BY OpcodesDiffer DEF Width, BytesOfOperands
<1>2. op \in {LOAD_LOCAL_VAR, STORE_LOCAL_VAR} => Width(u, a) = 2
  BY OpcodesDiffer DEF Width, BytesOfOperands
<1>3. op \in {LOAD_MODULE_VAR, STORE_MODULE_VAR, CALL1, JUMP, LOOP, JUMP_IF_FALSE, AND, OR, END} => Width(u, a) = 3
  BY OpcodesDiffer DEF Width, BytesOfOperands
<1>4. op = CREATE_CLOSURE => Width(u, a) = 1 + (2 + 2 * u.upvalueNums[ShortAt(u, a + 1) + 1])
  BY OpcodesDiffer DEF Width, BytesOfOperands
<1> QED
  BY <1>1, <1>2, <1>3, <1>4

LEMMA WidthFacts ==
  ASSUME NEW u \in UnitTypes, NEW D, NEW a \in Nat, InstrOK(u, D, a)
  PROVE  /\ Width(u, a) \in Nat /\ Width(u, a) >= 1
         /\ ByteAt(u, a) \in Straight \union Branching \union {JUMP, LOOP, RETURN, END}
         /\ ByteAt(u, a) = CREATE_CLOSURE =>
              /\ u.upvalueNums[ShortAt(u, a + 1) + 1] \in Nat
              /\ Width(u, a) = 3 + 2 * u.upvalueNums[ShortAt(u, a + 1) + 1]
         /\ ByteAt(u, a) \in {LOAD_MODULE_VAR, STORE_MODULE_VAR, CALL1, JUMP, LOOP, JUMP_IF_FALSE, AND, OR, CREATE_CLOSURE, END}
              => Width(u, a) >= 3
<1> DEFINE op == ByteAt(u, a)
           n == u.upvalueNums[ShortAt(u, a + 1) + 1]
<1>1. op \in 1..16
  BY OpcodesDiffer DEF InstrOK
<1>2. op \in Straight \union Branching \union {JUMP, LOOP, RETURN, END}
  BY <1>1, OpcodesDiffer DEF Straight, Branching
<1>3. op = CREATE_CLOSURE => n \in Nat
  <2>1. u.upvalueNums \in Seq(Nat)
    BY UnitFacts
  <2> QED
    BY <2>1, ElementOfSeq DEF InstrOK
<1>4. CASE op = CREATE_CLOSURE
  <2>1. Width(u, a) = 1 + (2 + 2 * n) /\ n \in Nat
    BY <1>3, <1>4, WidthIs DEF InstrOK
  <2> HIDE DEF n
  <2>2. Width(u, a) = 3 + 2 * n /\ Width(u, a) >= 3 /\ Width(u, a) \in Nat
    BY <2>1
  <2> QED
    BY <1>2, <2>1, <2>2 DEF n
<1>5. CASE op # CREATE_CLOSURE
  <2>1. Width(u, a) = 1 \/ Width(u, a) = 2 \/ Width(u, a) = 3
    BY <1>1, <1>5, OpcodesDiffer, WidthIs DEF InstrOK
  <2>2. op \in {LOAD_MODULE_VAR, STORE_MODULE_VAR, CALL1, JUMP, LOOP, JUMP_IF_FALSE, AND, OR, END} => Width(u, a) = 3
    BY WidthIs DEF InstrOK
  <2> QED
    BY <1>2, <1>5, <2>1, <2>2
<1> QED
  BY <1>4, <1>5

LEMMA KeptIs ==
  ASSUME NEW u \in UnitTypes, NEW w \in UnitTypes, NEW D, NEW a \in Nat, InstrOK(u, D, a), Kept(u, w, a), MoreUpvalues(u, w)
  PROVE  /\ ByteAt(w, a) = ByteAt(u, a) /\ Width(w, a) = Width(u, a) /\ InstrOK(w, D, a)
         /\ Width(u, a) >= 3 => ShortAt(w, a + 1) = ShortAt(u, a + 1)
         /\ \A s : Falls(w, a, s) = Falls(u, a, s)
<1> DEFINE op == ByteAt(u, a)
           n == u.upvalueNums[ShortAt(u, a + 1) + 1]
<1>1. Width(u, a) \in Nat /\ Width(u, a) >= 1 /\ op \in 1..END
  BY WidthFacts DEF InstrOK
<1>2. ByteAt(w, a) = op
  <2>1. a + 0 = a /\ 0 \in 0..Width(u, a) - 1
    BY <1>1
  <2> QED
    BY <2>1 DEF Kept
<1>3. Width(u, a) >= 3 => ShortAt(w, a + 1) = ShortAt(u, a + 1)
  <2> SUFFICES ASSUME Width(u, a) >= 3 PROVE ShortAt(w, a + 1) = ShortAt(u, a + 1)
    OBVIOUS
  <2>1. 1 \in 0..Width(u, a) - 1 /\ 2 \in 0..Width(u, a) - 1 /\ (a + 1) + 1 = a + 2
    BY <1>1
  <2>2. ByteAt(w, a + 1) = ByteAt(u, a + 1) /\ ByteAt(w, a + 2) = ByteAt(u, a + 2)
    BY <2>1 DEF Kept
  <2> QED
    BY <2>1, <2>2 DEF ShortAt
<1>4. CASE op = CREATE_CLOSURE
  <2>1. Width(u, a) = 3 + 2 * n /\ n \in Nat /\ Width(u, a) >= 3
    BY <1>4, WidthFacts
  <2>2. ShortAt(w, a + 1) = ShortAt(u, a + 1) /\ ShortAt(u, a + 1) + 1 \in 1..Len(u.upvalueNums)
    BY <1>3, <1>4, <2>1 DEF InstrOK
  <2>3. ShortAt(w, a + 1) + 1 \in 1..Len(w.upvalueNums) /\ w.upvalueNums[ShortAt(w, a + 1) + 1] = n
    BY <2>2 DEF MoreUpvalues
  <2>4. Width(w, a) = 1 + (2 + 2 * n)
    BY <1>1, <1>2, <1>4, <2>3, WidthIs
  <2>5. Width(w, a) = Width(u, a)
    <3> HIDE DEF n
    <3> QED
      BY <2>1, <2>4
  <2>6. Captures(w, a) = Captures(u, a)
    <3>1. Captures(w, a) = {ByteAt(w, a + 2 + 2 * i) : i \in 1..n} /\ Captures(u, a) = {ByteAt(u, a + 2 + 2 * i) : i \in 1..n}
      BY <2>3 DEF Captures
    <3> HIDE DEF n
    <3>2. ASSUME NEW i \in 1..n PROVE ByteAt(w, a + 2 + 2 * i) = ByteAt(u, a + 2 + 2 * i)
      <4>1. 2 + 2 * i \in 0..Width(u, a) - 1 /\ a + (2 + 2 * i) = a + 2 + 2 * i
        BY <2>1
      <4> QED
        BY <4>1 DEF Kept
    <3> QED
      BY <3>1, <3>2
  <2>7. \A s : Falls(w, a, s) = Falls(u, a, s)
    BY <1>2, <2>6 DEF Falls
  <2> QED
    BY <1>2, <1>3, <2>3, <2>5, <2>7 DEF InstrOK
<1>5. CASE op # CREATE_CLOSURE
  <2>1. Width(w, a) = Width(u, a)
    BY <1>1, <1>2, <1>5 DEF Width, BytesOfOperands
  <2>2. \A s : Falls(w, a, s) = Falls(u, a, s)
    BY <1>2, <1>5 DEF Falls
  <2> QED
    BY <1>1, <1>2, <1>3, <1>5, <2>1, <2>2 DEF InstrOK
<1> QED
  BY <1>4, <1>5

-----------------------------------------------------------------------------
(***************************************************************************)
(* One more instruction.                                                   *)
(***************************************************************************)
Ext(T, n, e) == [a \in DOMAIN T \union {n} |-> IF a = n THEN e ELSE T[a]]

LEMMA BehindIs ==
  ASSUME NEW l \in Nat, NEW m \in Nat, NEW k \in 0..m - 1, NEW i, i = (l + k) + 1
  PROVE  i \in 1..l + m /\ ~(i <= l) /\ i - l = k + 1
OBVIOUS

\* The code of w is that of u with the bytes appended.
LEMMA AppendedIs ==
  ASSUME NEW u \in UnitTypes, NEW w \in UnitTypes, NEW bytes \in Seq(Int), w.code = u.code \o bytes
  PROVE  /\ Count(w) = Count(u) + Len(bytes) /\ Count(u) \in Nat /\ Len(bytes) \in Nat /\ Count(w) \in Nat
         /\ \A i \in 1..Count(u) : w.code[i] = u.code[i]
         /\ \A a \in 0..Count(u) - 1 : ByteAt(w, a) = ByteAt(u, a)
         /\ \A k \in 0..Len(bytes) - 1 : ByteAt(w, Count(u) + k) = bytes[k + 1]
         /\ u.code \in Seq(Bytes) /\ bytes \in Seq(Bytes) => w.code \in Seq(Bytes)
<1>1. u.code \in Seq(Int) /\ Count(u) = Len(u.code) /\ Count(u) \in Nat /\ Len(bytes) \in Nat
  BY UnitFacts, LenProperties
<1> DEFINE c == u.code
<1>2. /\ Len(c \o bytes) = Len(c) + Len(bytes)
      /\ \A i \in 1..Len(c) + Len(bytes) : (c \o bytes)[i] = IF i <= Len(c) THEN c[i] ELSE bytes[i - Len(c)]
  BY <1>1, ConcatProperties
<1>3. c \in Seq(Bytes) /\ bytes \in Seq(Bytes) => c \o bytes \in Seq(Bytes)
  BY ConcatProperties
<1>4. Count(w) = Len(c \o bytes)
  BY DEF Count
<1>5. \A i \in 1..Count(u) : w.code[i] = c[i]
  BY <1>1, <1>2
<1>6. \A k \in 0..Len(bytes) - 1 : w.code[(Count(u) + k) + 1] = bytes[k + 1]
  <2> TAKE k \in 0..Len(bytes) - 1
  <2>1. PICK i \in Int : i = (Count(u) + k) + 1
    BY <1>1
  <2>2. i \in 1..Len(c) + Len(bytes) /\ ~(i <= Len(c)) /\ i - Len(c) = k + 1
    <3>1. PICK m \in Nat, l \in Nat : m = Len(bytes) /\ l = Count(u) /\ l = Len(c)
      BY <1>1
    <3>2. k \in 0..m - 1 /\ i = (l + k) + 1
      BY <2>1, <3>1
    <3>3. i \in 1..l + m /\ ~(i <= l) /\ i - l = k + 1
      BY <3>2, BehindIs
    <3> QED
      BY <3>1, <3>3
  <2>3. (c \o bytes)[i] = bytes[k + 1]
    BY <1>2, <2>2
  <2> QED
    BY <2>1, <2>3
<1>7. \A a \in 0..Count(u) - 1 : a + 1 \in 1..Count(u)
  BY <1>1
<1>8. Count(w) = Count(u) + Len(bytes) /\ Count(w) \in Nat
  BY <1>1, <1>2, <1>4
<1>9. \A a \in 0..Count(u) - 1 : ByteAt(w, a) = ByteAt(u, a)
  BY <1>5, <1>7 DEF ByteAt
<1>10. \A k \in 0..Len(bytes) - 1 : ByteAt(w, Count(u) + k) = bytes[k + 1]
  BY <1>6 DEF ByteAt
<1> QED
  BY <1>1, <1>3, <1>5, <1>8, <1>9, <1>10

LEMMA EmitIs ==
  ASSUME NEW u, NEW T, NEW P, Sound(u, T, P), NEW w, NEW bytes \in Seq(Bytes), NEW op \in 1..END, NEW n \in Int,
         Wrote(u, w, bytes, n), Len(bytes) > 0, bytes[1] = op, Width(w, Count(u)) = Len(bytes),
         op = CREATE_CLOSURE => ShortAt(w, Count(u) + 1) + 1 \in 1..Len(w.upvalueNums),
         NEW e \in Stacks, e.d <= u.stackSlotNum + n, NEW Q, P \subseteq Q,
         op \in Straight \union Branching => Leads(Falls(w, Count(u), T[Count(u)]), e),
         op \in Branching \union {JUMP} => Count(u) \in Q,
         op = LOOP => /\ BackTarget(w, Count(u)) \in DOMAIN T
                      /\ Leads(T[Count(u)], T[BackTarget(w, Count(u))])
  PROVE  Sound(w, Ext(T, Count(w), e), Q)
<1> DEFINE N == Count(u)
           M == Count(w)
           D == DOMAIN T
           U == Ext(T, M, e)
<1>1. /\ u \in UnitTypes /\ u.code \in Seq(Bytes) /\ Chained(u, D) /\ T \in [D -> Stacks]
      /\ \A a \in D : a < N => FlowOK(u, T, P, a)
      /\ RoomOK(u, T)
  BY DEF Sound
<1>2. w \in UnitTypes /\ w.upvalueNums = u.upvalueNums /\ w.code = u.code \o bytes /\ w.stackSlotNum = u.stackSlotNum + n
      /\ w.maxSlots >= u.maxSlots /\ (u.maxSlots >= u.stackSlotNum => w.maxSlots >= w.stackSlotNum)
  BY DEF Wrote, SameBut
<1>3. bytes \in Seq(Int)
  BY ByteFacts, ElementOfSeq DEF Bytes
<1>4. /\ M = N + Len(bytes) /\ N \in Nat /\ Len(bytes) \in Nat /\ M \in Nat
      /\ \A a \in 0..N - 1 : ByteAt(w, a) = ByteAt(u, a)
      /\ \A k \in 0..Len(bytes) - 1 : ByteAt(w, N + k) = bytes[k + 1]
      /\ w.code \in Seq(Bytes)
  BY <1>1, <1>2, <1>3, AppendedIs
<1>5. ByteAt(w, N) = op
  <2>1. N + 0 = N /\ 0 \in 0..Len(bytes) - 1 /\ 0 + 1 = 1
    BY <1>4
  <2> QED
    BY <1>4, <2>1
<1>6. D \subseteq 0..N /\ 0 \in D /\ N \in D /\ \A a \in D : a < N => InstrOK(u, D, a)
  BY <1>1 DEF Chained
<1>7. MoreUpvalues(u, w)
  BY <1>2 DEF MoreUpvalues
<1>8. N < M
  BY <1>4
<1> HIDE DEF N, M
<1>9. DOMAIN U = D \union {M} /\ U[M] = e /\ \A a \in D : U[a] = T[a]
  <2>1. \A a \in D : a # M
    BY <1>4, <1>6, <1>8
  <2> QED
    BY <2>1 DEF Ext
<1> HIDE DEF U
<1>10. ASSUME NEW a \in D, a < N
       PROVE  /\ a \in Nat /\ Kept(u, w, a) /\ InstrOK(u, D, a) /\ Width(u, a) \in Nat /\ Width(u, a) >= 1 /\ a + Width(u, a) <= N
  <2>1. a \in 0..N /\ a \in Nat /\ InstrOK(u, D, a)
    BY <1>4, <1>6, <1>10
  <2>2. Width(u, a) \in Nat /\ Width(u, a) >= 1
    BY <1>1, <2>1, WidthFacts
  <2>3. a + Width(u, a) \in 0..N
    BY <1>6, <2>1 DEF InstrOK
  <2>4. \A k \in 0..Width(u, a) - 1 : a + k \in 0..N - 1
    BY <1>4, <2>1, <2>2, <2>3
  <2>5. Kept(u, w, a)
    BY <1>4, <2>4 DEF Kept
  <2> QED
    BY <1>4, <2>1, <2>2, <2>3, <2>5
<1>11. Chained(w, DOMAIN U)
  <2>1. DOMAIN U \subseteq 0..M /\ 0 \in DOMAIN U /\ M \in DOMAIN U
    BY <1>4, <1>6, <1>8, <1>9
  <2> SUFFICES ASSUME NEW a \in DOMAIN U, a < M PROVE InstrOK(w, DOMAIN U, a)
    BY <2>1 DEF Chained, M
  <2>2. CASE a \in D /\ a < N
    <3>1. a \in Nat /\ InstrOK(w, D, a) /\ Width(w, a) = Width(u, a) /\ a + Width(u, a) <= N /\ Width(u, a) \in Nat
      BY <1>1, <1>2, <1>7, <1>10, <2>2, KeptIs
    <3>2. M >= a + Width(w, a)
      BY <1>4, <1>8, <3>1
    <3> QED
      BY <1>9, <3>1, <3>2 DEF InstrOK
  <2>3. CASE ~(a \in D /\ a < N)
    <3>1. a = N
      BY <1>4, <1>6, <1>8, <1>9, <2>3
    <3>2. a + Width(w, a) = M
      BY <1>4, <3>1 DEF N
    <3>3. \A b \in DOMAIN U : b <= a \/ b >= a + Width(w, a)
      BY <1>4, <1>6, <1>9, <3>1, <3>2
    <3> QED
      BY <1>5, <1>9, <3>1, <3>2, <3>3 DEF InstrOK, N
  <2> QED
    BY <2>2, <2>3
<1>12. U \in [DOMAIN U -> Stacks]
  BY <1>1, <1>9 DEF Ext, U
<1>13. ASSUME NEW a \in DOMAIN U, a < M PROVE FlowOK(w, U, Q, a)
  <2>1. CASE a \in D /\ a < N
    <3>1. /\ InstrOK(u, D, a) /\ FlowOK(u, T, P, a) /\ a + Width(u, a) \in D /\ Width(w, a) = Width(u, a)
          /\ ByteAt(w, a) = ByteAt(u, a) /\ Falls(w, a, T[a]) = Falls(u, a, T[a])
          /\ Width(u, a) >= 3 => ShortAt(w, a + 1) = ShortAt(u, a + 1)
      BY <1>1, <1>2, <1>7, <1>10, <2>1, KeptIs DEF InstrOK
    <3>2. ByteAt(u, a) \in Branching \union {JUMP, LOOP} => Target(w, a) = Target(u, a) /\ BackTarget(w, a) = BackTarget(u, a)
      <4>1. ByteAt(u, a) \in Branching \union {JUMP, LOOP} => Width(u, a) >= 3
        BY <1>1, <1>10, <2>1, <3>1, WidthFacts DEF Branching
      <4> QED
        BY <3>1, <4>1 DEF Target, BackTarget
    <3> QED
      BY <1>9, <2>1, <3>1, <3>2 DEF FlowOK
  <2>2. CASE ~(a \in D /\ a < N)
    <3>0. a \in D /\ a \in 0..N /\ ~(a < N)
      BY <1>4, <1>6, <1>9, <1>13, <2>2
    <3>1. a = N
      BY <1>4, <3>0
    <3>2. a + Width(w, a) = M
      BY <1>4, <3>1 DEF N
    <3> QED
      BY <1>5, <1>6, <1>9, <3>1, <3>2 DEF FlowOK, N
  <2> QED
    BY <2>1, <2>2
<1>14. RoomOK(w, U)
  <2>1. u.maxSlots \in Int /\ w.maxSlots \in Int /\ u.stackSlotNum \in Int /\ w.stackSlotNum \in Int
    BY <1>1, <1>2, UnitFacts
  <2>2. u.stackSlotNum <= u.maxSlots /\ \A a \in D : T[a].d <= u.maxSlots
    BY <1>1 DEF RoomOK
  <2>3. \A a \in D : T[a].d \in Int
    BY <1>1 DEF Stacks
  <2>4. e.d \in Int
    BY DEF Stacks
  <2>5. w.stackSlotNum <= w.maxSlots
    BY <1>2, <2>1, <2>2
  <2>6. e.d <= w.stackSlotNum /\ e.d <= w.maxSlots
    BY <1>2, <2>1, <2>4, <2>5
  <2>7. \A a \in D : T[a].d <= w.maxSlots
    BY <1>2, <2>1, <2>2, <2>3
  <2> QED
    BY <1>9, <2>5, <2>6, <2>7 DEF RoomOK, M
<1> QED
  BY <1>2, <1>4, <1>11, <1>12, <1>13, <1>14 DEF Sound, M, U

\* From u to w code is appended which neither jumps back nor waits for the end of a loop, and at
\* each of its instructions m slots are in use.
Grew(u, T, w, U, m) ==
  /\ Count(u) <= Count(w) /\ \A i \in 1..Count(u) : w.code[i] = u.code[i]
  /\ DOMAIN T \subseteq DOMAIN U /\ \A a \in DOMAIN T : U[a] = T[a]
  /\ \A a \in DOMAIN U : a \in DOMAIN T \/ (a > Count(u) /\ U[a].d >= m)
  /\ \A a \in DOMAIN U : a >= Count(u) /\ a < Count(w) => ByteAt(w, a) # LOOP /\ ByteAt(w, a) # END

\* The instructions that only go on to the next one, without those about captured variables.
Ordinary == {PUSH_NULL, LOAD_LOCAL_VAR, STORE_LOCAL_VAR, LOAD_MODULE_VAR, STORE_MODULE_VAR, POP, CALL1}

WidthOf(op) == IF op \in {RETURN, CLOSE_UPVALUE, PUSH_NULL, POP} THEN 1
               ELSE IF op \in {LOAD_LOCAL_VAR, STORE_LOCAL_VAR} THEN 2 ELSE 3

\* k values above the stack f.
On(f, k) == [d |-> f.d + k, c |-> f.c]

LEMMA OnIs ==
  ASSUME NEW f \in Stacks, NEW k \in Nat
  PROVE  /\ On(f, k) \in Stacks /\ On(f, k).d = f.d + k /\ On(f, k).c = f.c /\ f.d \in Nat /\ On(f, 0) = f
         /\ \A x \in f.c : x \in Nat /\ x < f.d
<1>1. f \in [d : Nat, c : SUBSET Nat] /\ \A x \in f.c : x < f.d
  BY DEF Stacks
<1>2. f.d \in Nat /\ f.c \subseteq Nat /\ f = [d |-> f.d, c |-> f.c]
  BY <1>1
<1>3. f.d + k \in Nat /\ f.d + 0 = f.d /\ \A x \in f.c : x \in Nat /\ x < f.d /\ x < f.d + k
  BY <1>1, <1>2
<1>4. PICK n : n = f.d + k
  OBVIOUS
<1>5. [d |-> n, c |-> f.c] \in Stacks
  BY <1>2, <1>3, <1>4 DEF Stacks
<1> QED
  BY <1>2, <1>3, <1>4, <1>5 DEF On

LEMMA SoundFacts ==
  ASSUME NEW u, NEW T, NEW P, Sound(u, T, P)
  PROVE  /\ u \in UnitTypes /\ Count(u) \in Nat /\ Count(u) \in DOMAIN T /\ DOMAIN T \subseteq 0..Count(u) /\ 0 \in DOMAIN T
         /\ \A a \in DOMAIN T : a \in Nat /\ a <= Count(u) /\ T[a] \in Stacks /\ T[a].d \in Nat /\ T[a].c \subseteq Nat
         /\ u.stackSlotNum \in Int /\ u.maxSlots \in Int /\ T[Count(u)].d <= u.stackSlotNum
<1>1. u \in UnitTypes /\ Count(u) \in Nat /\ u.stackSlotNum \in Int /\ u.maxSlots \in Int
  BY UnitFacts DEF Sound
<1>2. Count(u) \in DOMAIN T /\ DOMAIN T \subseteq 0..Count(u) /\ 0 \in DOMAIN T
  BY DEF Sound, Chained
<1>3. \A a \in DOMAIN T : T[a] \in Stacks /\ T[a].d \in Nat /\ T[a].c \subseteq Nat
  BY DEF Sound, Stacks
<1>4. T[Count(u)].d <= u.stackSlotNum
  BY DEF Sound, RoomOK
<1> QED
  BY <1>1, <1>2, <1>3, <1>4

LEMMA BytesInt ==
  ASSUME NEW bytes \in Seq(Bytes)
  PROVE  bytes \in Seq(Int)
<1>0. Bytes \subseteq Int
  BY DEF Bytes
<1>1. \A i \in 1..Len(bytes) : bytes[i] \in Int
  BY <1>0, ElementOfSeq
<1> QED
  BY <1>1, LenProperties

LEMMA WroteFacts ==
  ASSUME NEW u, NEW w, NEW bytes \in Seq(Bytes), NEW n, Wrote(u, w, bytes, n)
  PROVE  bytes \in Seq(Int) /\ w \in UnitTypes /\ w.code = u.code \o bytes /\ SameBut(u, w)
BY BytesInt DEF Wrote, SameBut

\* The instruction op, written as the given bytes with n slots counted, is followed by the stack e.
Emission(u, T, P, w, bytes, op, n, e, Q) ==
  /\ Sound(u, T, P) /\ bytes \in Seq(Bytes) /\ op \in 1..END /\ n \in Int
  /\ Wrote(u, w, bytes, n) /\ Len(bytes) > 0 /\ bytes[1] = op /\ Width(w, Count(u)) = Len(bytes)
  /\ op = CREATE_CLOSURE => ShortAt(w, Count(u) + 1) + 1 \in 1..Len(w.upvalueNums)
  /\ e \in Stacks /\ e.d <= u.stackSlotNum + n /\ P \subseteq Q
  /\ op \in Straight \union Branching => Leads(Falls(w, Count(u), T[Count(u)]), e)
  /\ op \in Branching \union {JUMP} => Count(u) \in Q

LEMMA EmitGrew ==
  ASSUME NEW u, NEW T, NEW P, NEW w, NEW bytes, NEW op, NEW n, NEW e, NEW Q, Emission(u, T, P, w, bytes, op, n, e, Q),
         op # LOOP, op # END, NEW m \in Int, e.d >= m
  PROVE  \E U : Sound(w, U, Q) /\ Grew(u, T, w, U, m) /\ U[Count(w)] = e /\ ByteAt(w, Count(u)) = op
<1> DEFINE N == Count(u)
           M == Count(w)
           D == DOMAIN T
           U == Ext(T, M, e)
<1>0. /\ Sound(u, T, P) /\ bytes \in Seq(Bytes) /\ op \in 1..END /\ n \in Int /\ Wrote(u, w, bytes, n) /\ Len(bytes) > 0
      /\ bytes[1] = op /\ Width(w, Count(u)) = Len(bytes) /\ e \in Stacks /\ e.d <= u.stackSlotNum + n /\ P \subseteq Q
  BY DEF Emission
<1>1. Sound(w, U, Q)
  BY <1>0, EmitIs DEF Emission
<1>2. bytes \in Seq(Int) /\ u \in UnitTypes /\ w \in UnitTypes /\ w.code = u.code \o bytes
  BY <1>0, WroteFacts, SoundFacts
<1>3. /\ M = N + Len(bytes) /\ N \in Nat /\ Len(bytes) \in Nat /\ M \in Nat
      /\ \A i \in 1..N : w.code[i] = u.code[i]
      /\ \A k \in 0..Len(bytes) - 1 : ByteAt(w, N + k) = bytes[k + 1]
  BY <1>2, AppendedIs
<1>4. ByteAt(w, N) = op
  <2>1. N + 0 = N /\ 0 \in 0..Len(bytes) - 1 /\ 0 + 1 = 1
    BY <1>0, <1>3
  <2> QED
    BY <1>0, <1>3, <2>1
<1>5. N \in D /\ D \subseteq 0..N
  BY <1>0, SoundFacts
<1> HIDE DEF N, M
<1>6. N < M
  BY <1>0, <1>3
<1>7. DOMAIN U = D \union {M} /\ U[M] = e /\ \A a \in D : U[a] = T[a]
  <2>1. \A a \in D : a # M
    BY <1>3, <1>5, <1>6
  <2> QED
    BY <2>1 DEF Ext
<1> HIDE DEF U
<1>8. \A a \in DOMAIN U : a \in D \/ (a > N /\ U[a].d >= m)
  BY <1>6, <1>7
<1>9. \A a \in DOMAIN U : a >= N /\ a < M => ByteAt(w, a) # LOOP /\ ByteAt(w, a) # END
  <2> SUFFICES ASSUME NEW a \in DOMAIN U, a >= N, a < M PROVE a = N
    BY <1>4
  <2>1. a \in D
    BY <1>3, <1>7
  <2> QED
    BY <1>3, <1>5, <2>1
<1>10. Grew(u, T, w, U, m)
  BY <1>3, <1>6, <1>7, <1>8, <1>9 DEF Grew, N, M
<1> QED
  BY <1>1, <1>4, <1>7, <1>10 DEF N, M

LEMMA GrewTwice ==
  ASSUME NEW u, NEW T, NEW w, NEW U, NEW x, NEW X, NEW m \in Int, NEW Q, NEW R, Count(u) \in Nat, Sound(w, U, Q),
         Sound(x, X, R), Grew(u, T, w, U, m), Grew(w, U, x, X, m)
  PROVE  Grew(u, T, x, X, m)
<1>1. /\ Count(u) \in Nat /\ Count(w) \in Nat /\ Count(x) \in Nat /\ Count(w) \in DOMAIN U
      /\ \A a \in DOMAIN U : a \in Nat /\ a <= Count(w)
      /\ \A a \in DOMAIN X : a \in Nat /\ a <= Count(x)
  BY SoundFacts
<1>2. Count(u) <= Count(x) /\ \A i \in 1..Count(u) : x.code[i] = u.code[i]
  BY <1>1 DEF Grew
<1>3. DOMAIN T \subseteq DOMAIN X /\ \A a \in DOMAIN T : X[a] = T[a]
  BY DEF Grew
<1>4. \A a \in DOMAIN X : a \in DOMAIN T \/ (a > Count(u) /\ X[a].d >= m)
  BY <1>1 DEF Grew
<1>5. ASSUME NEW a \in DOMAIN X, a >= Count(u), a < Count(x) PROVE ByteAt(x, a) # LOOP /\ ByteAt(x, a) # END
  <2>1. CASE a >= Count(w)
    BY <1>5, <2>1 DEF Grew
  <2>2. CASE a < Count(w)
    <3>1. a \in DOMAIN U
      BY <1>1, <2>2 DEF Grew
    <3>2. a + 1 \in 1..Count(w)
      BY <1>1, <2>2
    <3>3. ByteAt(x, a) = ByteAt(w, a)
      BY <3>2 DEF Grew, ByteAt
    <3> QED
      BY <1>5, <2>2, <3>1, <3>3 DEF Grew
  <2> QED
    BY <1>1, <2>1, <2>2
<1> QED
  BY <1>2, <1>3, <1>4, <1>5 DEF Grew

LEMMA GrewSelf ==
  ASSUME NEW u, NEW T, NEW P, Sound(u, T, P), NEW w, w.code = u.code, NEW m
  PROVE  Grew(u, T, w, T, m)
<1>1. Count(w) = Count(u) /\ Count(u) \in Nat /\ \A a \in DOMAIN T : a \in Nat /\ a <= Count(u)
  BY SoundFacts DEF Count
<1> QED
  BY <1>1 DEF Grew

LEMMA EmitOrdinary ==
  ASSUME NEW u, NEW T, NEW P, Sound(u, T, P), NEW f \in Stacks, NEW k \in Nat, T[Count(u)] = On(f, k),
         NEW op \in Ordinary, k + SlotsUsed(op) >= 0, NEW w, NEW bytes \in Seq(Bytes), Wrote(u, w, bytes, SlotsUsed(op)),
         Len(bytes) = WidthOf(op), bytes[1] = op
  PROVE  \E U : Sound(w, U, P) /\ Grew(u, T, w, U, f.d) /\ U[Count(w)] = On(f, k + SlotsUsed(op))
<1> DEFINE N == Count(u)
           n == SlotsUsed(op)
           e == On(f, k + n)
<1>1. op \in 1..END /\ op \in Opcodes /\ op \in Straight /\ op # LOOP /\ op # END /\ op # CREATE_CLOSURE /\ op # CLOSE_UPVALUE /\ op # JUMP
      /\ op \notin Branching
  BY OpcodesDiffer DEF Ordinary, Straight, Branching, Opcodes
<1>2. n \in Int /\ k + n \in Nat
  BY <1>1, OpcodeFacts
<1>3. e \in Stacks /\ e.d = f.d + (k + n) /\ e.c = f.c /\ f.d \in Nat /\ On(f, k).d = f.d + k /\ On(f, k).c = f.c
  BY <1>2, OnIs
<1>4. ByteAt(w, N) = op /\ Len(bytes) > 0
  <2>1. Len(bytes) > 0
    BY DEF WidthOf
  <2>2. bytes \in Seq(Int) /\ u \in UnitTypes /\ w \in UnitTypes /\ w.code = u.code \o bytes
    BY WroteFacts, SoundFacts
  <2>3. N \in Nat /\ Len(bytes) \in Nat /\ \A j \in 0..Len(bytes) - 1 : ByteAt(w, N + j) = bytes[j + 1]
    BY <2>2, AppendedIs
  <2>4. N + 0 = N /\ 0 \in 0..Len(bytes) - 1 /\ 0 + 1 = 1
    BY <2>1, <2>3
  <2> QED
    BY <2>1, <2>3, <2>4
<1>5. Width(w, N) = Len(bytes)
  <2>1. ByteAt(w, N) \in 1..END
    BY <1>1, <1>4
  <2> QED
    BY <1>1, <1>4, <2>1, WidthIs, OpcodesDiffer DEF WidthOf, Ordinary
<1>6. Leads(Falls(w, N, T[N]), e)
  <2>1. Falls(w, N, On(f, k)) = [d |-> (f.d + k) + n, c |-> f.c]
    BY <1>1, <1>3, <1>4 DEF Falls
  <2>2. (f.d + k) + n = f.d + (k + n)
    BY <1>2, <1>3
  <2> HIDE DEF e, n
  <2> QED
    BY <1>3, <2>1, <2>2 DEF Leads
<1>7. e.d <= u.stackSlotNum + n /\ e.d >= f.d
  <2>1. T[N].d <= u.stackSlotNum /\ u.stackSlotNum \in Int
    BY SoundFacts
  <2> HIDE DEF e, n
  <2> QED
    BY <1>2, <1>3, <2>1
<1>8. Wrote(u, w, bytes, n) /\ P \subseteq P /\ e \in Stacks /\ f.d \in Int
  BY <1>3
<1> HIDE DEF e, n
<1>9. /\ op \in Straight \union Branching => Leads(Falls(w, Count(u), T[Count(u)]), e)
      /\ op \in Branching \union {JUMP} => Count(u) \in P
      /\ op = CREATE_CLOSURE => ShortAt(w, Count(u) + 1) + 1 \in 1..Len(w.upvalueNums)
      /\ Width(w, Count(u)) = Len(bytes)
  BY <1>1, <1>5, <1>6
<1>10. Emission(u, T, P, w, bytes, op, n, e, P)
  BY <1>1, <1>2, <1>4, <1>7, <1>8, <1>9 DEF Emission
<1>11. \E U : Sound(w, U, P) /\ Grew(u, T, w, U, f.d) /\ U[Count(w)] = e /\ ByteAt(w, Count(u)) = op
  BY <1>1, <1>7, <1>8, <1>10, EmitGrew
<1> QED
  BY <1>11 DEF e, n

\* Since the unit o, code was appended, and now there are k values above the stack f.
Above(o, O, u, T, P, f, k) ==
  /\ Sound(u, T, P) /\ Count(o) \in Nat /\ Grew(o, O, u, T, f.d)
  /\ f \in Stacks /\ k \in Nat /\ T[Count(u)] = On(f, k)

LEMMA AboveStep ==
  ASSUME NEW o, NEW O, NEW u, NEW T, NEW P, NEW f, NEW k, Above(o, O, u, T, P, f, k), NEW w, NEW U, NEW Q, NEW j \in Nat,
         Sound(w, U, Q), Grew(u, T, w, U, f.d), U[Count(w)] = On(f, j)
  PROVE  Above(o, O, w, U, Q, f, j)
<1>1. f \in Stacks /\ f.d \in Int
  BY DEF Above, Stacks
<1>2. Sound(u, T, P) /\ Grew(o, O, u, T, f.d) /\ Count(o) \in Nat
  BY DEF Above
<1>3. Grew(o, O, w, U, f.d)
  BY <1>1, <1>2, GrewTwice
<1> QED
  BY <1>1, <1>2, <1>3 DEF Above

LEMMA OrdinaryAbove ==
  ASSUME NEW o, NEW O, NEW u, NEW T, NEW P, NEW f, NEW k, Above(o, O, u, T, P, f, k),
         NEW op \in Ordinary, k + SlotsUsed(op) >= 0, NEW w, NEW bytes \in Seq(Bytes), Wrote(u, w, bytes, SlotsUsed(op)),
         Len(bytes) = WidthOf(op), bytes[1] = op
  PROVE  \E U : Above(o, O, w, U, P, f, k + SlotsUsed(op)) /\ Grew(u, T, w, U, f.d)
<1>1. Sound(u, T, P) /\ f \in Stacks /\ k \in Nat /\ T[Count(u)] = On(f, k)
  BY DEF Above
<1>2. PICK U : Sound(w, U, P) /\ Grew(u, T, w, U, f.d) /\ U[Count(w)] = On(f, k + SlotsUsed(op))
  BY <1>1, EmitOrdinary
<1>3. k + SlotsUsed(op) \in Nat
  <2>1. op \in Opcodes
    BY OpcodesDiffer DEF Ordinary, Opcodes
  <2>2. SlotsUsed(op) \in Int
    BY <2>1, OpcodeFacts
  <2> QED
    BY <1>1, <2>2
<1> QED
  BY <1>2, <1>3, AboveStep

LEMMA SlotsUsedIs ==
  /\ SlotsUsed(PUSH_NULL) = 1 /\ SlotsUsed(LOAD_LOCAL_VAR) = 1 /\ SlotsUsed(LOAD_MODULE_VAR) = 1 /\ SlotsUsed(CREATE_CLOSURE) = 1
  /\ SlotsUsed(POP) = -1 /\ SlotsUsed(CALL1) = -1 /\ SlotsUsed(JUMP_IF_FALSE) = -1 /\ SlotsUsed(AND) = -1 /\ SlotsUsed(OR) = -1
  /\ SlotsUsed(CLOSE_UPVALUE) = -1
  /\ SlotsUsed(STORE_LOCAL_VAR) = 0 /\ SlotsUsed(STORE_MODULE_VAR) = 0 /\ SlotsUsed(JUMP) = 0 /\ SlotsUsed(LOOP) = 0
  /\ SlotsUsed(RETURN) = 0 /\ SlotsUsed(END) = 0
<1>1. /\ SlotsUsed(PUSH_NULL) = 1 /\ SlotsUsed(LOAD_LOCAL_VAR) = 1 /\ SlotsUsed(LOAD_MODULE_VAR) = 1 /\ SlotsUsed(CREATE_CLOSURE) = 1
  BY OpcodesDiffer DEF SlotsUsed
<1>2. /\ SlotsUsed(POP) = -1 /\ SlotsUsed(CALL1) = -1 /\ SlotsUsed(JUMP_IF_FALSE) = -1 /\ SlotsUsed(AND) = -1 /\ SlotsUsed(OR) = -1
      /\ SlotsUsed(CLOSE_UPVALUE) = -1
  BY OpcodesDiffer DEF SlotsUsed
<1>3. /\ SlotsUsed(STORE_LOCAL_VAR) = 0 /\ SlotsUsed(STORE_MODULE_VAR) = 0 /\ SlotsUsed(JUMP) = 0 /\ SlotsUsed(LOOP) = 0
      /\ SlotsUsed(RETURN) = 0 /\ SlotsUsed(END) = 0
  BY OpcodesDiffer DEF SlotsUsed
<1> QED
  BY <1>1, <1>2, <1>3

LEMMA ByteTypes ==
  /\ 1..END \subseteq Bytes /\ BYTE - 1 \in Bytes /\ \A n \in Int : High(n) \in Bytes /\ Low(n) \in Bytes
  /\ \A n \in 0..END : n \in Bytes
BY ByteFacts, OpcodesDiffer DEF Bytes

LEMMA BytesAre ==
  /\ \A x \in Bytes : <<x>> \in Seq(Bytes) /\ Len(<<x>>) = 1 /\ <<x>>[1] = x
  /\ \A x, y \in Bytes : <<x, y>> \in Seq(Bytes) /\ Len(<<x, y>>) = 2 /\ <<x, y>>[1] = x /\ <<x, y>>[2] = y
  /\ \A x, y, z \in Bytes : <<x, y, z>> \in Seq(Bytes) /\ Len(<<x, y, z>>) = 3 /\ <<x, y, z>>[1] = x /\ <<x, y, z>>[2] = y
                            /\ <<x, y, z>>[3] = z
OBVIOUS

LEMMA WriteOpCodeAbove ==
  ASSUME NEW o, NEW O, NEW u, NEW T, NEW P, NEW f, NEW k, Above(o, O, u, T, P, f, k), NEW op \in {PUSH_NULL, POP},
         k + SlotsUsed(op) >= 0
  PROVE  \E U : Above(o, O, WriteOpCode(u, op), U, P, f, k + SlotsUsed(op)) /\ Grew(u, T, WriteOpCode(u, op), U, f.d)
<1>1. u \in UnitTypes
  BY SoundFacts DEF Above
<1>2. op \in Ordinary /\ op \in Opcodes /\ op \in 1..END /\ WidthOf(op) = 1
  BY OpcodesDiffer DEF Ordinary, Opcodes, WidthOf
<1>3. <<op>> \in Seq(Bytes) /\ Len(<<op>>) = 1 /\ <<op>>[1] = op
  BY <1>2, ByteTypes, BytesAre
<1>4. Wrote(u, WriteOpCode(u, op), <<op>>, SlotsUsed(op))
  BY <1>1, <1>2, WriteOpCodeIs
<1> DEFINE w == WriteOpCode(u, op)
           b == <<op>>
<1> HIDE DEF w, b
<1>5. \E U : Above(o, O, w, U, P, f, k + SlotsUsed(op)) /\ Grew(u, T, w, U, f.d)
  BY <1>2, <1>3, <1>4, OrdinaryAbove DEF w, b
<1> QED
  BY <1>5 DEF w

LEMMA WriteShortAbove ==
  ASSUME NEW o, NEW O, NEW u, NEW T, NEW P, NEW f, NEW k, Above(o, O, u, T, P, f, k),
         NEW op \in {LOAD_MODULE_VAR, STORE_MODULE_VAR, CALL1}, NEW n \in Int, k + SlotsUsed(op) >= 0
  PROVE  \E U : Above(o, O, WriteShort(u, op, n), U, P, f, k + SlotsUsed(op)) /\ Grew(u, T, WriteShort(u, op, n), U, f.d)
<1>1. u \in UnitTypes
  BY SoundFacts DEF Above
<1>2. op \in Ordinary /\ op \in Opcodes /\ op \in 1..END /\ WidthOf(op) = 3
  BY OpcodesDiffer DEF Ordinary, Opcodes, WidthOf
<1> DEFINE w == WriteShort(u, op, n)
           b == <<op, High(n), Low(n)>>
<1>3. b \in Seq(Bytes) /\ Len(b) = 3 /\ b[1] = op
  BY <1>2, ByteTypes, BytesAre
<1>4. Wrote(u, w, b, SlotsUsed(op))
  BY <1>1, <1>2, WriteShortIs
<1> HIDE DEF w, b
<1>5. \E U : Above(o, O, w, U, P, f, k + SlotsUsed(op)) /\ Grew(u, T, w, U, f.d)
  BY <1>2, <1>3, <1>4, OrdinaryAbove
<1> QED
  BY <1>5 DEF w

LEMMA ExpressionAbove ==
  ASSUME NEW o, NEW O, NEW u, NEW T, NEW P, NEW f, NEW k, Above(o, O, u, T, P, f, k)
  PROVE  \E U : Above(o, O, Expression(u), U, P, f, k + 1) /\ Grew(u, T, Expression(u), U, f.d)
<1>1. k \in Nat /\ SlotsUsed(LOAD_MODULE_VAR) = 1 /\ k + 1 >= 0 /\ 0 \in Int
  BY SlotsUsedIs DEF Above
<1>2. \E U : Above(o, O, WriteShort(u, LOAD_MODULE_VAR, 0), U, P, f, k + SlotsUsed(LOAD_MODULE_VAR))
             /\ Grew(u, T, WriteShort(u, LOAD_MODULE_VAR, 0), U, f.d)
  BY <1>1, WriteShortAbove
<1> QED
  BY <1>1, <1>2 DEF Expression

LEMMA ConcatPair ==
  ASSUME NEW x, NEW y
  PROVE  <<x>> \o <<y>> = <<x, y>>
<1> DEFINE S == {x, y}
           s == <<x>>
           t == <<y>>
           r == <<x, y>>
<1>1. s \in Seq(S) /\ t \in Seq(S) /\ r \in Seq(S) /\ Len(s) = 1 /\ Len(t) = 1 /\ Len(r) = 2
  OBVIOUS
<1>2. s[1] = x /\ t[1] = y /\ r[1] = x /\ r[2] = y
  OBVIOUS
<1> HIDE DEF S, s, t, r
<1>3. /\ s \o t \in Seq(S) /\ Len(s \o t) = Len(s) + Len(t)
      /\ \A i \in 1..Len(s) + Len(t) : (s \o t)[i] = IF i <= Len(s) THEN s[i] ELSE t[i - Len(s)]
  BY <1>1, ConcatProperties
<1>4. \A i \in 1..2 : (s \o t)[i] = r[i]
  <2>1. (s \o t)[1] = s[1] /\ (s \o t)[2] = t[1]
    BY <1>1, <1>3
  <2>2. \A i \in 1..2 : i = 1 \/ i = 2
    OBVIOUS
  <2> QED
    BY <1>2, <2>1, <2>2
<1>5. s \o t = r
  BY <1>1, <1>3, <1>4, SeqEqual
<1> QED
  BY <1>5 DEF s, t, r

\* LOAD_LOCAL_VAR or STORE_LOCAL_VAR with the slot behind it.
LEMMA LocalAbove ==
  ASSUME NEW o, NEW O, NEW u, NEW T, NEW P, NEW f, NEW k, Above(o, O, u, T, P, f, k), NEW slot \in Bytes,
         NEW op \in {LOAD_LOCAL_VAR, STORE_LOCAL_VAR}
  PROVE  \E U : /\ Above(o, O, WriteBytes(WriteOpCode(u, op), <<slot>>), U, P, f, k + SlotsUsed(op))
                /\ Grew(u, T, WriteBytes(WriteOpCode(u, op), <<slot>>), U, f.d)
<1>1. u \in UnitTypes /\ k \in Nat
  BY SoundFacts DEF Above
<1>2. op \in Ordinary /\ op \in Opcodes /\ op \in 1..END /\ WidthOf(op) = 2 /\ SlotsUsed(op) \in {0, 1}
  BY OpcodesDiffer, SlotsUsedIs DEF Ordinary, Opcodes, WidthOf
<1> DEFINE v == WriteOpCode(u, op)
           a == <<op>>
           c == <<slot>>
           w == WriteBytes(v, c)
           b == <<op, slot>>
           n == SlotsUsed(op)
<1>3. b \in Seq(Bytes) /\ Len(b) = 2 /\ b[1] = op /\ a \in Seq(Bytes) /\ c \in Seq(Bytes)
  BY <1>2, ByteTypes, BytesAre
<1>4. Wrote(u, v, a, n) /\ v \in UnitTypes
  BY <1>1, <1>2, WriteOpCodeIs DEF Wrote, SameBut
<1>5. a \o c = b
  BY ConcatPair
<1>6. \A s \in Seq(Bytes) : s \in Seq(Int)
  BY BytesInt
<1>7. n \in Int
  BY <1>2
<1> HIDE DEF v, a, c, b, n
<1>8. Wrote(v, w, c, 0)
  BY <1>3, <1>4, <1>6, WriteBytesIs
<1> HIDE DEF w
<1>9. Wrote(u, w, b, n)
  <2>1. w.code = u.code \o b
    <3>1. PICK s : s = u.code
      OBVIOUS
    <3>2. s \in Seq(Int) /\ a \in Seq(Int) /\ c \in Seq(Int)
      BY <1>1, <1>3, <1>6, <3>1, UnitFacts
    <3>3. (s \o a) \o c = s \o (a \o c)
      BY <3>2, ConcatTwice
    <3> QED
      BY <1>4, <1>5, <1>8, <3>1, <3>3 DEF Wrote
  <2>2. SameBut(u, w)
    BY <1>4, <1>8, SameButTwice DEF Wrote
  <2>3. /\ u.stackSlotNum \in Int /\ v.stackSlotNum \in Int /\ w.stackSlotNum \in Int
        /\ u.maxSlots \in Int /\ v.maxSlots \in Int /\ w.maxSlots \in Int
    BY <1>1, <1>4, <2>2, UnitFacts DEF SameBut
  <2>4. w.stackSlotNum = u.stackSlotNum + n
    BY <1>4, <1>7, <1>8, <2>3 DEF Wrote
  <2>5. w.maxSlots >= u.maxSlots /\ (u.maxSlots >= u.stackSlotNum => w.maxSlots >= w.stackSlotNum)
    BY <1>4, <1>8, <2>3 DEF Wrote
  <2> QED
    BY <2>1, <2>2, <2>4, <2>5 DEF Wrote
<1>10. k + n >= 0
  BY <1>1, <1>2 DEF n
<1>11. \E U : Above(o, O, w, U, P, f, k + n) /\ Grew(u, T, w, U, f.d)
  BY <1>2, <1>3, <1>9, <1>10, OrdinaryAbove DEF n
<1> QED
  BY <1>11 DEF w, v, c, n

\* An instruction with a placeholder: what follows is another instruction, three bytes behind.
LEMMA PlaceholderFacts ==
  ASSUME NEW u, NEW T, NEW P, Sound(u, T, P), NEW op \in Branching \union {JUMP, END}
  PROVE  LET w == EmitInstrWithPlaceholder(u, op)
             b == <<op, BYTE - 1, BYTE - 1>>
         IN  /\ b \in Seq(Bytes) /\ Len(b) = 3 /\ b[1] = op /\ op \in 1..END /\ Wrote(u, w, b, SlotsUsed(op)) /\ SlotsUsed(op) \in Int
             /\ Width(w, Count(u)) = 3 /\ Count(w) = Count(u) + 3 /\ ByteAt(w, Count(u)) = op
             /\ Placeholder(w) = Count(u) + 1 /\ \A i \in 1..Count(u) : w.code[i] = u.code[i]
<1> DEFINE w == EmitInstrWithPlaceholder(u, op)
           b == <<op, BYTE - 1, BYTE - 1>>
<1>1. u \in UnitTypes
  BY SoundFacts
<1>2. op \in Opcodes /\ op \in 1..END /\ SlotsUsed(op) \in Int
  <2>1. op \in Opcodes /\ op \in 1..END
    BY OpcodesDiffer DEF Branching, Opcodes
  <2> QED
    BY <2>1, OpcodeFacts
<1>3. b \in Seq(Bytes) /\ Len(b) = 3 /\ b[1] = op
  BY <1>2, ByteTypes, BytesAre
<1>4. Wrote(u, w, b, SlotsUsed(op)) /\ Placeholder(w) = Count(u) + 1
  BY <1>1, <1>2, EmitInstrWithPlaceholderIs
<1> HIDE DEF w, b
<1>5. /\ Count(w) = Count(u) + 3 /\ Count(u) \in Nat /\ \A i \in 1..Count(u) : w.code[i] = u.code[i]
      /\ \A k \in 0..2 : ByteAt(w, Count(u) + k) = b[k + 1]
  <2>1. b \in Seq(Int) /\ w \in UnitTypes /\ w.code = u.code \o b
    BY <1>3, <1>4, WroteFacts
  <2>2. /\ Count(w) = Count(u) + Len(b) /\ Count(u) \in Nat /\ \A i \in 1..Count(u) : w.code[i] = u.code[i]
        /\ \A k \in 0..Len(b) - 1 : ByteAt(w, Count(u) + k) = b[k + 1]
    BY <1>1, <2>1, AppendedIs
  <2>3. Len(b) - 1 = 2
    BY <1>3
  <2> QED
    BY <1>3, <2>2, <2>3
<1>6. ByteAt(w, Count(u)) = op
  <2>1. Count(u) + 0 = Count(u) /\ 0 \in 0..2 /\ 0 + 1 = 1
    BY <1>5
  <2> QED
    BY <1>3, <1>5, <2>1
<1>7. Width(w, Count(u)) = 3
  <2>1. ByteAt(w, Count(u)) \in 1..END
    BY <1>2, <1>6
  <2> QED
    BY <1>6, <2>1, WidthIs DEF Branching
<1> QED
  BY <1>2, <1>3, <1>4, <1>5, <1>6, <1>7 DEF w, b

LEMMA BranchAbove ==
  ASSUME NEW o, NEW O, NEW u, NEW T, NEW P, NEW f, NEW k \in Nat, Above(o, O, u, T, P, f, k + 1), NEW op \in Branching
  PROVE  LET w == EmitInstrWithPlaceholder(u, op)
         IN  \E U : Above(o, O, w, U, P \union {Count(u)}, f, k) /\ Grew(u, T, w, U, f.d)
<1> DEFINE w == EmitInstrWithPlaceholder(u, op)
           b == <<op, BYTE - 1, BYTE - 1>>
           N == Count(u)
           Q == P \union {N}
           e == On(f, k)
<1>1. Sound(u, T, P) /\ f \in Stacks /\ k + 1 \in Nat /\ T[N] = On(f, k + 1)
  BY DEF Above
<1>2. /\ b \in Seq(Bytes) /\ Len(b) = 3 /\ b[1] = op /\ op \in 1..END /\ Wrote(u, w, b, SlotsUsed(op))
      /\ Width(w, N) = 3 /\ ByteAt(w, N) = op
  BY <1>1, PlaceholderFacts
<1>3. SlotsUsed(op) = -1 /\ op # CREATE_CLOSURE /\ op # CLOSE_UPVALUE /\ op # LOOP /\ op # END
  BY OpcodesDiffer, SlotsUsedIs DEF Branching
<1>4. /\ e \in Stacks /\ e.d = f.d + k /\ e.c = f.c /\ f.d \in Nat
      /\ On(f, k + 1).d = f.d + (k + 1) /\ On(f, k + 1).c = f.c
  BY <1>1, OnIs
<1>5. Leads(Falls(w, N, T[N]), e)
  <2>1. Falls(w, N, On(f, k + 1)) = [d |-> (f.d + (k + 1)) + (-1), c |-> f.c]
    BY <1>2, <1>3, <1>4 DEF Falls
  <2>2. (f.d + (k + 1)) + (-1) = f.d + k
    BY <1>4
  <2> HIDE DEF e, w, N
  <2> QED
    BY <1>1, <1>4, <2>1, <2>2 DEF Leads
<1>6. e.d <= u.stackSlotNum + (-1) /\ e.d >= f.d
  <2>1. T[N].d <= u.stackSlotNum /\ u.stackSlotNum \in Int
    BY <1>1, SoundFacts
  <2> HIDE DEF e, N
  <2> QED
    BY <1>1, <1>4, <2>1
<1>7. P \subseteq Q /\ N \in Q /\ -1 \in Int
  OBVIOUS
<1> HIDE DEF e, w, b, Q
<1>8. Emission(u, T, P, w, b, op, -1, e, Q)
  BY <1>1, <1>2, <1>3, <1>4, <1>5, <1>6, <1>7 DEF Emission
<1>9. PICK U : Sound(w, U, Q) /\ Grew(u, T, w, U, f.d) /\ U[Count(w)] = e
  BY <1>3, <1>4, <1>6, <1>8, EmitGrew
<1>10. Above(o, O, w, U, Q, f, k)
  BY <1>9, AboveStep DEF e
<1> QED
  BY <1>9, <1>10 DEF w, Q

\* Behind a jump whose target is not known yet the stack may be taken to be any other.
LEMMA JumpAbove ==
  ASSUME NEW o, NEW O, NEW u, NEW T, NEW P, NEW f, NEW k, Above(o, O, u, T, P, f, k), NEW j \in Nat, f.d + j <= u.stackSlotNum
  PROVE  LET w == EmitInstrWithPlaceholder(u, JUMP)
         IN  \E U : Above(o, O, w, U, P \union {Count(u)}, f, j) /\ Grew(u, T, w, U, f.d)
<1> DEFINE w == EmitInstrWithPlaceholder(u, JUMP)
           b == <<JUMP, BYTE - 1, BYTE - 1>>
           N == Count(u)
           Q == P \union {N}
           e == On(f, j)
<1>1. Sound(u, T, P) /\ f \in Stacks /\ k \in Nat /\ T[N] = On(f, k)
  BY DEF Above
<1>2. /\ b \in Seq(Bytes) /\ Len(b) = 3 /\ b[1] = JUMP /\ JUMP \in 1..END /\ Wrote(u, w, b, SlotsUsed(JUMP))
      /\ Width(w, N) = 3
  BY <1>1, PlaceholderFacts
<1>3. /\ SlotsUsed(JUMP) = 0 /\ JUMP # CREATE_CLOSURE /\ JUMP # CLOSE_UPVALUE /\ JUMP # LOOP /\ JUMP # END
      /\ JUMP \notin Straight \union Branching
  BY OpcodesDiffer, SlotsUsedIs DEF Branching, Straight
<1>4. e \in Stacks /\ e.d = f.d + j /\ f.d \in Nat
  BY <1>1, OnIs
<1>5. e.d <= u.stackSlotNum + 0 /\ e.d >= f.d
  <2>1. u.stackSlotNum \in Int
    BY <1>1, SoundFacts
  <2> HIDE DEF e
  <2> QED
    BY <1>4, <2>1
<1>6. P \subseteq Q /\ N \in Q /\ 0 \in Int
  OBVIOUS
<1> HIDE DEF e, w, b, Q
<1>7. Emission(u, T, P, w, b, JUMP, 0, e, Q)
  BY <1>1, <1>2, <1>3, <1>4, <1>5, <1>6 DEF Emission
<1>8. PICK U : Sound(w, U, Q) /\ Grew(u, T, w, U, f.d) /\ U[Count(w)] = e
  BY <1>3, <1>4, <1>5, <1>7, EmitGrew
<1>9. Above(o, O, w, U, Q, f, j)
  BY <1>8, AboveStep DEF e
<1> QED
  BY <1>8, <1>9 DEF w, Q

\* Only the code and the counts of slots matter here.
LEMMA SoundSame ==
  ASSUME NEW u, NEW T, NEW P, Sound(u, T, P), NEW w \in UnitTypes, w.code = u.code, w.upvalueNums = u.upvalueNums,
         T[Count(u)].d <= w.stackSlotNum, w.stackSlotNum <= w.maxSlots, w.maxSlots = u.maxSlots
  PROVE  Sound(w, T, P) /\ Count(w) = Count(u) /\ \A a : ByteAt(w, a) = ByteAt(u, a)
<1>1. /\ Count(w) = Count(u) /\ \A a : ByteAt(w, a) = ByteAt(u, a)
      /\ \A a : ShortAt(w, a) = ShortAt(u, a) /\ Target(w, a) = Target(u, a) /\ BackTarget(w, a) = BackTarget(u, a)
  BY DEF Count, ByteAt, ShortAt, Target, BackTarget
<1>2. \A a : Captures(w, a) = Captures(u, a) /\ BytesOfOperands(w, a) = BytesOfOperands(u, a)
  BY <1>1 DEF Captures, BytesOfOperands
<1>3. \A a : Width(w, a) = Width(u, a) /\ \A s : Falls(w, a, s) = Falls(u, a, s)
  BY <1>1, <1>2 DEF Width, Falls
<1>4. Chained(w, DOMAIN T)
  <2>1. \A a : InstrOK(u, DOMAIN T, a) => InstrOK(w, DOMAIN T, a)
    BY <1>1, <1>3 DEF InstrOK
  <2> QED
    BY <1>1, <2>1 DEF Chained, Sound
<1>5. \A a : FlowOK(u, T, P, a) => FlowOK(w, T, P, a)
  BY <1>1, <1>3 DEF FlowOK
<1>6. RoomOK(w, T)
  BY <1>1 DEF Sound, RoomOK
<1> QED
  BY <1>1, <1>4, <1>5, <1>6 DEF Sound

-----------------------------------------------------------------------------
(***************************************************************************)
(* Operands written afterwards.                                            *)
(***************************************************************************)
LEMMA Division ==
  \A a \in Nat, b \in Nat \ {0} :
    /\ a \div b \in Nat /\ a % b \in 0..(b - 1)
    /\ a = b * (a \div b) + (a % b)
OBVIOUS

LEMMA QuotientSmall ==
  ASSUME NEW b \in Nat, NEW q \in Nat, NEW r \in Nat, b * q + r < b * b
  PROVE  q < b
<1> SUFFICES ASSUME q >= b PROVE FALSE
  OBVIOUS
<1>1. b * q >= b * b
  OBVIOUS
<1> QED
  BY <1>1

LEMMA RemainderSmall == \A b \in Nat, q \in Nat : q < b => q % b = q
OBVIOUS

LEMMA ShortIs ==
  ASSUME NEW n \in Nat, n < BYTE * BYTE
  PROVE  High(n) * BYTE + Low(n) = n
<1>1. BYTE \in Nat \ {0}
  BY ByteFacts, OpcodesDiffer
<1>2. PICK q, r : q = n \div BYTE /\ r = n % BYTE
  OBVIOUS
<1>3. q \in Nat /\ r \in 0..BYTE - 1 /\ n = BYTE * q + r
  BY <1>1, <1>2, Division
<1>4. q < BYTE
  BY <1>1, <1>3, QuotientSmall
<1>5. q % BYTE = q
  BY <1>1, <1>3, <1>4, RemainderSmall
<1>6. q * BYTE = BYTE * q
  BY <1>1, <1>3
<1> QED
  BY <1>2, <1>3, <1>5, <1>6 DEF High, Low

\* Of the instructions R, all jumps or placeholders of breaks, the operands are written.
Rewritten(u, w, D, R) ==
  /\ w \in UnitTypes /\ Count(w) = Count(u) /\ w.upvalueNums = u.upvalueNums
  /\ w.stackSlotNum = u.stackSlotNum /\ w.maxSlots = u.maxSlots /\ R \subseteq D
  /\ \A a \in R : /\ a < Count(u) /\ ByteAt(u, a) \in Branching \union {JUMP, END}
                  /\ ByteAt(w, a) \in Branching \union {JUMP}
                  /\ ByteAt(u, a) # END => ByteAt(w, a) = ByteAt(u, a)
                  /\ ByteAt(u, a) = END => ByteAt(w, a) = JUMP
  /\ \A i \in 1..Count(u) : w.code[i] = u.code[i] \/ \E a \in R : i \in {a + 1, a + 2, a + 3}

LEMMA RewrittenKeeps ==
  ASSUME NEW u \in UnitTypes, NEW w, NEW D, NEW R, Chained(u, D), Rewritten(u, w, D, R)
  PROVE  /\ Chained(w, D)
         /\ \A a \in D : a < Count(u) => Width(w, a) = Width(u, a) /\ (a \notin R => Kept(u, w, a))
         /\ \A a \in R : Width(u, a) = 3
<1>1. /\ D \subseteq 0..Count(u) /\ 0 \in D /\ Count(u) \in D /\ Count(u) \in Nat
      /\ \A a \in D : a < Count(u) => InstrOK(u, D, a)
  BY UnitFacts DEF Chained
<1>2. \A a \in D : a \in Nat
  BY <1>1
<1>3. ASSUME NEW a \in R
      PROVE  /\ a \in D /\ a < Count(u) /\ a \in Nat /\ InstrOK(u, D, a) /\ Width(u, a) = 3 /\ Width(w, a) = 3
             /\ InstrOK(w, D, a)
  <2>1. /\ a \in D /\ a < Count(u) /\ a \in Nat /\ InstrOK(u, D, a) /\ ByteAt(u, a) \in Branching \union {JUMP, END}
        /\ ByteAt(w, a) \in Branching \union {JUMP}
    BY <1>1, <1>2 DEF Rewritten
  <2>2. ByteAt(w, a) \in 1..END /\ ByteAt(u, a) \in 1..END /\ ByteAt(w, a) # CREATE_CLOSURE
    BY <2>1, OpcodesDiffer DEF Branching
  <2>3. Width(u, a) = 3 /\ Width(w, a) = 3
    BY <2>1, <2>2, WidthIs DEF Branching
  <2> QED
    BY <2>1, <2>2, <2>3 DEF InstrOK
<1>4. ASSUME NEW b \in D, b < Count(u), b \notin R PROVE Kept(u, w, b)
  <2>1. InstrOK(u, D, b) /\ Width(u, b) \in Nat /\ b \in Nat /\ b + Width(u, b) \in D
    BY <1>1, <1>2, <1>4, WidthFacts DEF InstrOK
  <2> SUFFICES ASSUME NEW k \in 0..Width(u, b) - 1 PROVE ByteAt(w, b + k) = ByteAt(u, b + k)
    BY DEF Kept
  <2>2. b + Width(u, b) <= Count(u)
    BY <1>1, <2>1
  <2>3. PICK i \in Int : i = (b + k) + 1
    BY <2>1
  <2>4. i \in 1..Count(u) /\ i > b /\ i <= b + Width(u, b)
    BY <1>1, <2>1, <2>2, <2>3
  <2>5. ASSUME NEW a \in R PROVE i \notin {a + 1, a + 2, a + 3}
    <3>1. a \in Nat /\ a \in D /\ InstrOK(u, D, a) /\ Width(u, a) = 3 /\ a # b
      BY <1>3, <1>4
    <3>2. a <= b \/ a >= b + Width(u, b)
      BY <2>1, <3>1 DEF InstrOK
    <3>3. b <= a \/ b >= a + 3
      BY <3>1 DEF InstrOK
    <3> QED
      BY <2>1, <2>4, <3>1, <3>2, <3>3
  <2>6. w.code[i] = u.code[i]
    BY <2>4, <2>5 DEF Rewritten
  <2> QED
    BY <2>3, <2>6 DEF ByteAt
<1>5. MoreUpvalues(u, w) /\ w \in UnitTypes /\ Count(w) = Count(u)
  BY DEF Rewritten, MoreUpvalues
<1>6. ASSUME NEW a \in D, a < Count(u) PROVE InstrOK(w, D, a) /\ Width(w, a) = Width(u, a)
  <2>1. CASE a \in R
    BY <1>3, <2>1
  <2>2. CASE a \notin R
    BY <1>1, <1>2, <1>4, <1>5, <1>6, <2>2, KeptIs
  <2> QED
    BY <2>1, <2>2
<1>7. Chained(w, D)
  BY <1>1, <1>5, <1>6 DEF Chained
<1> QED
  BY <1>3, <1>4, <1>6, <1>7

LEMMA RewrittenIsSound ==
  ASSUME NEW u, NEW T, NEW P, Sound(u, T, P), NEW w, NEW R, Rewritten(u, w, DOMAIN T, R), w.code \in Seq(Bytes),
         NEW Q, P \subseteq Q \union R,
         \A a \in R : a \notin Q => Target(w, a) \in DOMAIN T /\ Leads(Lands(ByteAt(w, a), T[a]), T[Target(w, a)])
  PROVE  Sound(w, T, Q)
<1> DEFINE D == DOMAIN T
<1>1. u \in UnitTypes /\ Chained(u, D) /\ w \in UnitTypes /\ Count(w) = Count(u) /\ Count(u) \in Nat
      /\ \A a \in D : a \in Nat
  BY SoundFacts DEF Sound, Rewritten
<1>2. /\ Chained(w, D)
      /\ \A a \in D : a < Count(u) => Width(w, a) = Width(u, a) /\ (a \notin R => Kept(u, w, a))
      /\ \A a \in R : Width(u, a) = 3
  BY <1>1, RewrittenKeeps
<1>3. MoreUpvalues(u, w)
  BY DEF Rewritten, MoreUpvalues
<1>4. ASSUME NEW a \in D, a < Count(u), a \notin R PROVE FlowOK(w, T, Q, a)
  <2>1. InstrOK(u, D, a) /\ a \in Nat /\ FlowOK(u, T, P, a) /\ Kept(u, w, a)
    BY <1>1, <1>2, <1>4 DEF Sound, Chained
  <2>2. /\ ByteAt(w, a) = ByteAt(u, a) /\ Width(w, a) = Width(u, a) /\ Falls(w, a, T[a]) = Falls(u, a, T[a])
        /\ Width(u, a) >= 3 => ShortAt(w, a + 1) = ShortAt(u, a + 1)
    BY <1>1, <1>3, <2>1, KeptIs
  <2>3. ByteAt(u, a) \in Branching \union {JUMP, LOOP} => Target(w, a) = Target(u, a) /\ BackTarget(w, a) = BackTarget(u, a)
    <3>1. ByteAt(u, a) \in Branching \union {JUMP, LOOP} => Width(u, a) >= 3
      BY <1>1, <2>1, WidthFacts DEF Branching
    <3> QED
      BY <2>2, <3>1 DEF Target, BackTarget
  <2>4. a \notin Q => a \notin P
    BY <1>4
  <2> QED
    BY <2>1, <2>2, <2>3, <2>4 DEF FlowOK
<1>5. ASSUME NEW a \in R PROVE FlowOK(w, T, Q, a)
  <2>1. a \in D /\ a < Count(u) /\ ByteAt(w, a) \in Branching \union {JUMP} /\ ByteAt(u, a) \in Branching \union {JUMP, END}
        /\ (ByteAt(u, a) # END => ByteAt(w, a) = ByteAt(u, a)) /\ (ByteAt(u, a) = END => ByteAt(w, a) = JUMP)
    BY DEF Rewritten
  <2>2. FlowOK(u, T, P, a) /\ Width(w, a) = Width(u, a)
    BY <1>2, <2>1 DEF Sound
  <2>3. ByteAt(w, a) \notin Straight /\ ByteAt(w, a) # LOOP /\ (ByteAt(w, a) \in Branching => ByteAt(u, a) = ByteAt(w, a))
    BY <2>1, OpcodesDiffer DEF Branching, Straight
  <2>4. ByteAt(w, a) \in Branching => Falls(w, a, T[a]) = Falls(u, a, T[a])
    BY <2>3, OpcodesDiffer DEF Branching, Falls
  <2> QED
    BY <2>1, <2>2, <2>3, <2>4 DEF FlowOK
<1>6. RoomOK(w, T)
  BY DEF RoomOK, Sound, Rewritten
<1> QED
  BY <1>1, <1>2, <1>4, <1>5, <1>6 DEF Sound

LEMMA PatchIs ==
  ASSUME NEW u, NEW T, NEW P, Sound(u, T, P), NEW a \in DOMAIN T, a < Count(u), ByteAt(u, a) \in Branching \union {JUMP},
         Leads(Lands(ByteAt(u, a), T[a]), T[Count(u)]), Count(u) < BYTE * BYTE
  PROVE  LET w == PatchPlaceholder(u, a + 1)
         IN  /\ Sound(w, T, P \ {a}) /\ SameBut(u, w) /\ w.stackSlotNum = u.stackSlotNum /\ w.maxSlots = u.maxSlots
             /\ Rewritten(u, w, DOMAIN T, {a}) /\ Count(w) = Count(u) /\ Target(w, a) = Count(u)
             /\ \A i \in 1..Count(u) : i # a + 2 /\ i # a + 3 => w.code[i] = u.code[i]
<1> DEFINE w == PatchPlaceholder(u, a + 1)
           n == Count(u) - (a + 1) - 2
<1>1. u \in UnitTypes /\ Count(u) \in Nat /\ a \in Nat /\ Chained(u, DOMAIN T) /\ u.code \in Seq(Bytes)
  BY SoundFacts DEF Sound
<1>2. InstrOK(u, DOMAIN T, a) /\ Width(u, a) = 3
  <2>1. InstrOK(u, DOMAIN T, a)
    BY <1>1 DEF Chained
  <2>2. ByteAt(u, a) \in 1..END
    BY <2>1 DEF InstrOK
  <2> QED
    BY <2>1, <2>2, WidthIs DEF Branching
<1>3. a + 3 <= Count(u)
  BY <1>1, <1>2, SoundFacts DEF InstrOK
<1>4. /\ SameBut(u, w) /\ w.stackSlotNum = u.stackSlotNum /\ w.maxSlots = u.maxSlots /\ Len(w.code) = Len(u.code)
      /\ \A i \in 1..Len(u.code) :
           w.code[i] = IF i = (a + 1) + 2 THEN Low(n) ELSE IF i = (a + 1) + 1 THEN High(n) ELSE u.code[i]
  BY <1>1, PatchPlaceholderIs
<1>5. n \in Nat /\ n < BYTE * BYTE /\ a + 3 + n = Count(u)
  <2>1. BYTE * BYTE \in Int
    BY ByteFacts
  <2> QED
    BY <1>1, <1>3, <2>1
<1> HIDE DEF w, n
<1>6. Count(w) = Count(u) /\ (a + 1) + 2 = a + 3 /\ (a + 1) + 1 = a + 2 /\ a + 2 # a + 3
      /\ a + 1 \in 1..Count(u) /\ a + 2 \in 1..Count(u) /\ a + 3 \in 1..Count(u) /\ a + 1 # a + 2 /\ a + 1 # a + 3
  BY <1>1, <1>3, <1>4 DEF Count
<1>7. /\ w.code[a + 1] = u.code[a + 1] /\ w.code[a + 2] = High(n) /\ w.code[a + 3] = Low(n)
      /\ \A i \in 1..Count(u) : i # a + 2 /\ i # a + 3 => w.code[i] = u.code[i]
  BY <1>4, <1>6 DEF Count
<1>8. ByteAt(w, a) = ByteAt(u, a) /\ ShortAt(w, a + 1) = n
  <2>1. ShortAt(w, a + 1) = High(n) * BYTE + Low(n)
    BY <1>6, <1>7 DEF ShortAt, ByteAt
  <2> QED
    BY <1>5, <1>7, <2>1, ShortIs DEF ByteAt
<1>9. Rewritten(u, w, DOMAIN T, {a})
  <2>1. w \in UnitTypes /\ w.upvalueNums = u.upvalueNums
    BY <1>4 DEF SameBut
  <2>2. ByteAt(u, a) # END
    BY OpcodesDiffer DEF Branching
  <2> QED
    BY <1>4, <1>6, <1>7, <1>8, <2>1, <2>2 DEF Rewritten
<1>10. w.code \in Seq(Bytes)
  <2>1. \A i \in 1..Len(w.code) : w.code[i] \in Bytes
    <3>1. High(n) \in Bytes /\ Low(n) \in Bytes
      BY <1>5, ByteTypes
    <3>2. \A i \in 1..Len(u.code) : u.code[i] \in Bytes
      BY <1>1, ElementOfSeq
    <3> QED
      BY <1>4, <3>1, <3>2
  <2>2. w.code \in Seq(Int)
    BY <1>4, UnitFacts DEF SameBut
  <2> QED
    BY <2>1, <2>2, LenProperties
<1>11. Target(w, a) = Count(u)
  BY <1>5, <1>8 DEF Target
<1>12. Sound(w, T, P \ {a})
  <2>1. Count(u) \in DOMAIN T /\ P \subseteq (P \ {a}) \union {a}
    BY SoundFacts
  <2>2. \A b \in {a} : Target(w, b) \in DOMAIN T /\ Leads(Lands(ByteAt(w, b), T[b]), T[Target(w, b)])
    BY <1>8, <1>11, <2>1
  <2> QED
    BY <1>9, <1>10, <2>1, <2>2, RewrittenIsSound
<1> QED
  BY <1>4, <1>6, <1>7, <1>9, <1>11, <1>12 DEF w

LEMMA PatchAbove ==
  ASSUME NEW o, NEW O, NEW u, NEW T, NEW P, NEW f, NEW k, Above(o, O, u, T, P, f, k), NEW a \in DOMAIN T, a >= Count(o),
         a < Count(u), ByteAt(u, a) \in Branching \union {JUMP}, Lands(ByteAt(u, a), T[a]) = On(f, k), Count(u) < BYTE * BYTE
  PROVE  LET w == PatchPlaceholder(u, a + 1)
         IN  /\ Above(o, O, w, T, P \ {a}, f, k) /\ SameBut(u, w) /\ Count(w) = Count(u)
             /\ w.stackSlotNum = u.stackSlotNum /\ w.maxSlots = u.maxSlots
             /\ \A b \in DOMAIN T : b < Count(u) => ByteAt(w, b) = ByteAt(u, b)
<1> DEFINE w == PatchPlaceholder(u, a + 1)
<1>1. Sound(u, T, P) /\ Grew(o, O, u, T, f.d) /\ T[Count(u)] = On(f, k) /\ Count(o) \in Nat /\ f \in Stacks /\ k \in Nat
  BY DEF Above
<1>2. Leads(Lands(ByteAt(u, a), T[a]), T[Count(u)])
  BY <1>1 DEF Leads
<1>3. /\ Sound(w, T, P \ {a}) /\ SameBut(u, w) /\ w.stackSlotNum = u.stackSlotNum /\ w.maxSlots = u.maxSlots
      /\ Rewritten(u, w, DOMAIN T, {a}) /\ Count(w) = Count(u)
      /\ \A i \in 1..Count(u) : i # a + 2 /\ i # a + 3 => w.code[i] = u.code[i]
  BY <1>1, <1>2, PatchIs
<1>4. /\ Count(u) \in Nat /\ \A b \in DOMAIN T : b \in Nat /\ b <= Count(u)
  BY <1>1, SoundFacts
<1> HIDE DEF w
<1>5. ASSUME NEW b \in DOMAIN T, b < Count(u) PROVE ByteAt(w, b) = ByteAt(u, b)
  <2>1. InstrOK(u, DOMAIN T, a) /\ u \in UnitTypes
    BY <1>1 DEF Sound, Chained
  <2>2. ByteAt(u, a) \in 1..END
    BY <2>1 DEF InstrOK
  <2>3. Width(u, a) = 3
    BY <2>2, WidthIs DEF Branching
  <2>4. b <= a \/ b >= a + 3
    BY <2>1, <2>3 DEF InstrOK
  <2>5. b + 1 \in 1..Count(u) /\ b + 1 # a + 2 /\ b + 1 # a + 3
    BY <1>4, <1>5, <2>4
  <2> QED
    BY <1>3, <2>5 DEF ByteAt
<1>6. Grew(o, O, w, T, f.d)
  <2>1. \A i \in 1..Count(o) : w.code[i] = u.code[i]
    <3>1. \A i \in 1..Count(o) : i \in 1..Count(u) /\ i # a + 2 /\ i # a + 3
      BY <1>1, <1>4
    <3> QED
      BY <1>3, <3>1
  <2> QED
    BY <1>1, <1>3, <1>5, <2>1 DEF Grew
<1> QED
  BY <1>1, <1>3, <1>5, <1>6 DEF Above, w

LEMMA AboveSelf ==
  ASSUME NEW u, NEW T, NEW P, Sound(u, T, P), NEW f, T[Count(u)] = f
  PROVE  Above(u, T, u, T, P, f, 0)
<1>1. f \in Stacks /\ Count(u) \in Nat
  BY SoundFacts
<1>2. On(f, 0) = f
  BY <1>1, OnIs
<1>3. Grew(u, T, u, T, f.d)
  BY GrewSelf
<1> QED
  BY <1>1, <1>2, <1>3 DEF Above

\* Only the code and the counts of slots matter here.
LEMMA AboveSame ==
  ASSUME NEW o, NEW O, NEW u, NEW T, NEW P, NEW f, NEW k, Above(o, O, u, T, P, f, k), NEW w \in UnitTypes, w.code = u.code,
         w.upvalueNums = u.upvalueNums, w.stackSlotNum = u.stackSlotNum, w.maxSlots = u.maxSlots
  PROVE  Above(o, O, w, T, P, f, k)
<1>1. Sound(u, T, P) /\ T[Count(u)].d <= w.stackSlotNum /\ w.stackSlotNum <= w.maxSlots
  BY DEF Above, Sound, RoomOK
<1>2. Sound(w, T, P) /\ Count(w) = Count(u) /\ \A a : ByteAt(w, a) = ByteAt(u, a)
  BY <1>1, SoundSame
<1> QED
  BY <1>2 DEF Above, Grew

\* More jumps may be left open.
LEMMA AboveWeaker ==
  ASSUME NEW o, NEW O, NEW u, NEW T, NEW P, NEW f, NEW k, Above(o, O, u, T, P, f, k), NEW Q, P \subseteq Q
  PROVE  Above(o, O, u, T, Q, f, k)
<1>1. Sound(u, T, Q)
  BY DEF Above, Sound, FlowOK
<1> QED
  BY <1>1 DEF Above

-----------------------------------------------------------------------------
(***************************************************************************)
(* The instructions that discard variables.                                *)
(***************************************************************************)
\* The slots of captured variables.
Held(u) == {s \in 0..Len(u.localVars) - 1 : u.localVars[s + 1].isUpvalue}

\* The stack between two statements: the variables in scope and nothing else.
Frame(u) == [d |-> Len(u.localVars), c |-> Held(u)]

\* What remains when the variables from slot n on are discarded.
Below(u, n) == [d |-> n, c |-> {s \in Held(u) : s < n}]

LEMMA FrameIs ==
  ASSUME NEW u \in UnitTypes
  PROVE  /\ Frame(u) \in Stacks /\ Frame(u).d = Len(u.localVars) /\ Frame(u).c = Held(u) /\ Len(u.localVars) \in Nat
         /\ Held(u) \subseteq Nat /\ Below(u, Len(u.localVars)) = Frame(u)
         /\ \A n \in Nat : Below(u, n) \in Stacks /\ Below(u, n).d = n /\ Below(u, n).c = {s \in Held(u) : s < n}
<1>1. Len(u.localVars) \in Nat
  BY UnitFacts, LenProperties
<1>2. Held(u) \subseteq Nat /\ \A s \in Held(u) : s < Len(u.localVars)
  BY <1>1 DEF Held
<1>3. Frame(u) \in Stacks
  BY <1>1, <1>2 DEF Frame, Stacks
<1>4. \A n \in Nat : Below(u, n) \in Stacks
  BY <1>2 DEF Below, Stacks
<1>5. Below(u, Len(u.localVars)) = Frame(u)
  BY <1>2 DEF Below, Frame
<1> QED
  BY <1>1, <1>2, <1>3, <1>4, <1>5 DEF Frame, Below

LEMMA AppendBytes ==
  ASSUME NEW c \in Seq(Int), NEW s \in Seq(Int), NEW x \in Int
  PROVE  c \o Append(s, x) = (c \o s) \o <<x>>
<1>1. Append(s, x) = s \o <<x>>
  OBVIOUS
<1>2. <<x>> \in Seq(Int)
  OBVIOUS
<1> QED
  BY <1>1, <1>2, ConcatTwice

\* The instructions b discard the last variables, a captured one by closing its upvalue.
LEMMA DiscardsAreSound ==
  ASSUME NEW u, NEW T, NEW P, Sound(u, T, P), T[Count(u)] = Frame(u), NEW b \in Seq(Bytes), NEW n \in 0..Len(u.localVars),
         Len(b) = n, \A i \in 1..n : b[i] = IF Len(u.localVars) - i \in Held(u) THEN CLOSE_UPVALUE ELSE POP
  PROVE  LET w == WriteBytes(u, b)
         IN  \E U : /\ Sound(w, U, P) /\ Grew(u, T, w, U, Len(u.localVars) - n)
                    /\ U[Count(w)] = Below(u, Len(u.localVars) - n)
<1> DEFINE L == Len(u.localVars)
           x(k) == WriteBytes(u, SubSeq(b, 1, k))
           m == L - n
           S == {k \in 0..n : \E U : Sound(x(k), U, P) /\ Grew(u, T, x(k), U, m) /\ U[Count(x(k))] = Below(u, L - k)}
<1>1. u \in UnitTypes /\ L \in Nat /\ n \in Nat /\ m \in Nat /\ b \in Seq(Int) /\ u.code \in Seq(Int) /\ Count(u) \in Nat
  <2>1. u \in UnitTypes
    BY SoundFacts
  <2> QED
    BY <2>1, FrameIs, BytesInt, UnitFacts
<1>2. \A k \in 0..n : /\ SubSeq(b, 1, k) \in Seq(Bytes) /\ SubSeq(b, 1, k) \in Seq(Int) /\ Len(SubSeq(b, 1, k)) = k
                      /\ k < n => SubSeq(b, 1, k + 1) = Append(SubSeq(b, 1, k), b[k + 1]) /\ k + 1 \in 1..n
                      /\ Wrote(u, x(k), SubSeq(b, 1, k), 0) /\ x(k).maxSlots = u.maxSlots
  <2> SUFFICES ASSUME NEW k \in 0..n
               PROVE  /\ SubSeq(b, 1, k) \in Seq(Bytes) /\ SubSeq(b, 1, k) \in Seq(Int) /\ Len(SubSeq(b, 1, k)) = k
                      /\ k < n => SubSeq(b, 1, k + 1) = Append(SubSeq(b, 1, k), b[k + 1]) /\ k + 1 \in 1..n
                      /\ Wrote(u, x(k), SubSeq(b, 1, k), 0) /\ x(k).maxSlots = u.maxSlots
    OBVIOUS
  <2>1. /\ SubSeq(b, 1, k) \in Seq(Bytes) /\ Len(SubSeq(b, 1, k)) = k
        /\ k < n => SubSeq(b, 1, k + 1) = Append(SubSeq(b, 1, k), b[k + 1])
    BY SubSeqIs
  <2>2. SubSeq(b, 1, k) \in Seq(Int)
    BY <2>1, BytesInt
  <2>3. Wrote(u, x(k), SubSeq(b, 1, k), 0) /\ x(k).maxSlots = u.maxSlots
    BY <1>1, <2>2, WriteBytesIs
  <2>4. k < n => k + 1 \in 1..n
    BY <1>1
  <2> QED
    BY <2>1, <2>2, <2>3, <2>4
<1> HIDE DEF x
<1>3. 0 \in S
  <2>1. 0 \in 0..n
    BY <1>1
  <2>2. SameBut(u, x(0)) /\ x(0).code = u.code /\ x(0).stackSlotNum = u.stackSlotNum /\ x(0).maxSlots = u.maxSlots
    <3>1. Wrote(u, x(0), SubSeq(b, 1, 0), 0) /\ x(0).maxSlots = u.maxSlots /\ SubSeq(b, 1, 0) \in Seq(Int) /\ Len(SubSeq(b, 1, 0)) = 0
      BY <1>2, <2>1
    <3>2. SubSeq(b, 1, 0) = <<>>
      BY <3>1, EmptySeq
    <3>3. u.code \o <<>> = u.code
      BY <1>1, ConcatEmptySeq
    <3>4. u.stackSlotNum + 0 = u.stackSlotNum
      BY <1>1, UnitFacts
    <3> QED
      BY <3>1, <3>2, <3>3, <3>4 DEF Wrote
  <2>3. T[Count(u)].d <= u.stackSlotNum /\ u.stackSlotNum <= u.maxSlots
    BY DEF Sound, RoomOK
  <2>4. Sound(x(0), T, P) /\ Count(x(0)) = Count(u)
    BY <2>2, <2>3, SoundSame DEF SameBut
  <2>5. Grew(u, T, x(0), T, m)
    BY <2>2, GrewSelf
  <2>6. T[Count(x(0))] = Below(u, L - 0)
    BY <1>1, <2>4, FrameIs
  <2> QED
    BY <2>1, <2>4, <2>5, <2>6
<1>4. ASSUME NEW k \in 0..n - 1, k \in S PROVE k + 1 \in S
  <2>1. k \in 0..n /\ k + 1 \in 0..n /\ k < n /\ k + 1 \in 1..n /\ k \in Nat
    BY <1>1
  <2>2. PICK U : Sound(x(k), U, P) /\ Grew(u, T, x(k), U, m) /\ U[Count(x(k))] = Below(u, L - k)
    BY <1>4
  <2> DEFINE v == x(k)
             w == x(k + 1)
             op == b[k + 1]
             e == Below(u, L - (k + 1))
  <2>3. op = (IF L - (k + 1) \in Held(u) THEN CLOSE_UPVALUE ELSE POP) /\ op \in {CLOSE_UPVALUE, POP}
    BY <2>1
  <2>4. op \in 1..END /\ op \in Bytes /\ op \in Int /\ op \in Straight /\ op \notin Branching /\ op # JUMP /\ op # LOOP
        /\ op # CREATE_CLOSURE /\ op # END /\ SlotsUsed(op) = -1 /\ POP # CLOSE_UPVALUE
    <3>1. op \in 1..END /\ op \in Straight /\ op \notin Branching /\ op # JUMP /\ op # LOOP /\ op # CREATE_CLOSURE /\ op # END
          /\ SlotsUsed(op) = -1 /\ POP # CLOSE_UPVALUE
      BY <2>3, OpcodesDiffer, SlotsUsedIs DEF Straight, Branching
    <3> QED
      BY <3>1, ByteTypes
  <2>5. <<op>> \in Seq(Bytes) /\ Len(<<op>>) = 1 /\ <<op>>[1] = op
    BY <2>4, BytesAre
  <2> HIDE DEF op
  <2>6. /\ Wrote(u, v, SubSeq(b, 1, k), 0) /\ v.maxSlots = u.maxSlots /\ SubSeq(b, 1, k) \in Seq(Int)
        /\ Wrote(u, w, Append(SubSeq(b, 1, k), op), 0) /\ w.maxSlots = u.maxSlots
    BY <1>2, <2>1 DEF op
  <2> HIDE DEF v, w
  <2>7. w.code = v.code \o <<op>> /\ SameBut(v, w) /\ w.stackSlotNum = v.stackSlotNum /\ w.maxSlots = v.maxSlots
    <3>1. w.code = (u.code \o SubSeq(b, 1, k)) \o <<op>>
      BY <1>1, <2>4, <2>6, AppendBytes DEF Wrote
    <3> QED
      BY <2>6, <3>1 DEF Wrote, SameBut
  <2>8. v \in UnitTypes /\ w \in UnitTypes /\ v.stackSlotNum \in Int /\ v.maxSlots \in Int
    BY <2>6, UnitFacts DEF Wrote, SameBut
  <2>9. Wrote(v, w, <<op>>, 0)
    BY <2>7, <2>8 DEF Wrote
  <2>10. ByteAt(w, Count(v)) = op /\ Width(w, Count(v)) = 1
    <3>1. <<op>> \in Seq(Int)
      BY <2>5, BytesInt
    <3>2. Count(v) \in Nat /\ \A j \in 0..Len(<<op>>) - 1 : ByteAt(w, Count(v) + j) = <<op>>[j + 1]
      BY <2>7, <2>8, <3>1, AppendedIs
    <3>3. Count(v) + 0 = Count(v) /\ 0 \in 0..Len(<<op>>) - 1 /\ 0 + 1 = 1
      BY <2>5, <3>2
    <3>4. ByteAt(w, Count(v)) = op
      BY <2>5, <3>2, <3>3
    <3> QED
      BY <2>3, <2>4, <3>4, WidthIs
  <2>11. /\ e \in Stacks /\ e.d = L - (k + 1) /\ e.c = {s \in Held(u) : s < L - (k + 1)}
         /\ U[Count(v)].d = L - k /\ U[Count(v)].c = {s \in Held(u) : s < L - k}
         /\ L - k \in Nat /\ L - (k + 1) \in Nat /\ (L - k) + (-1) = L - (k + 1) /\ (L - k) - 1 = L - (k + 1) /\ L - (k + 1) >= m
    <3>1. L - k \in Nat /\ L - (k + 1) \in Nat /\ (L - k) + (-1) = L - (k + 1) /\ (L - k) - 1 = L - (k + 1) /\ L - (k + 1) >= m
      BY <1>1, <2>1
    <3>2. U[Count(v)] = Below(u, L - k)
      BY <2>2 DEF v
    <3> QED
      BY <1>1, <3>1, <3>2, FrameIs
  <2>12. Held(u) \subseteq Nat
    BY <1>1, FrameIs
  <2> HIDE DEF e
  <2>13. Leads(Falls(w, Count(v), U[Count(v)]), e)
    <3>1. /\ Falls(w, Count(v), U[Count(v)]).d = (L - k) + (-1)
          /\ Falls(w, Count(v), U[Count(v)]).c =
               (IF op = CLOSE_UPVALUE THEN {y \in U[Count(v)].c : y < U[Count(v)].d - 1} ELSE U[Count(v)].c)
      BY <2>4, <2>10, <2>11 DEF Falls
    <3>2. CASE op = CLOSE_UPVALUE
      BY <2>11, <2>12, <3>1, <3>2 DEF Leads
    <3>3. CASE op # CLOSE_UPVALUE
      <4>1. L - (k + 1) \notin Held(u)
        BY <2>3, <3>3
      <4>2. {s \in Held(u) : s < L - k} \subseteq {s \in Held(u) : s < L - (k + 1)}
        BY <2>11, <2>12, <4>1
      <4> QED
        BY <2>11, <3>1, <3>3, <4>2 DEF Leads
    <3> QED
      BY <3>2, <3>3
  <2>14. e.d <= v.stackSlotNum + 0
    <3>1. U[Count(v)].d <= v.stackSlotNum
      BY <2>2, SoundFacts DEF v
    <3> QED
      BY <2>8, <2>11, <3>1
  <2>15. Emission(v, U, P, w, <<op>>, op, 0, e, P)
    BY <2>2, <2>4, <2>5, <2>9, <2>10, <2>11, <2>13, <2>14 DEF Emission, v
  <2>16. PICK V : Sound(w, V, P) /\ Grew(v, U, w, V, m) /\ V[Count(w)] = e
    BY <1>1, <2>4, <2>11, <2>15, EmitGrew
  <2>17. Grew(u, T, w, V, m)
    BY <1>1, <2>2, <2>16, GrewTwice DEF v
  <2> QED
    BY <2>1, <2>16, <2>17 DEF w, e
<1>5. n \in S
  <2> HIDE DEF S
  <2>1. n \in Nat /\ n \in 0..n
    BY <1>1
  <2>2. 0..n \subseteq S
    BY <1>3, <1>4, <2>1, InductionUpTo
  <2> QED
    BY <2>1, <2>2
<1>6. x(n) = WriteBytes(u, b)
  <2>1. SubSeq(b, 1, n) = b
    BY SubSeqFull
  <2> QED
    BY <2>1 DEF x
<1> QED
  BY <1>5, <1>6

\* discardLocalVar() at a boundary of the blocks.
LEMMA DiscardIs ==
  ASSUME NEW u, NEW ss, ScopesOK(u, ss), NEW T, NEW P, Sound(u, T, P), T[Count(u)] = Frame(u), NEW d \in 0..Len(ss),
         u.isModule \/ d > 0
  PROVE  LET w == DiscardLocalVar(u, d)
         IN  /\ \E U : /\ Sound(w, U, P) /\ Grew(u, T, w, U, UpTo(ss, d)) /\ U[Count(w)] = Below(u, UpTo(ss, d))
             /\ Len(Inner(u, d)) = Len(u.localVars) - UpTo(ss, d)
             /\ SameBut(u, w) /\ w.stackSlotNum = u.stackSlotNum /\ w.maxSlots = u.maxSlots
<1> DEFINE v == u.localVars
           L == Len(v)
           m == UpTo(ss, d)
           b == Discards(u, d)
           w == DiscardLocalVar(u, d)
<1>1. /\ u \in UnitTypes /\ ss \in Blocks /\ v \in Seq(LocalTypes) /\ L \in Nat /\ Len(ss) \in Nat /\ m \in 0..L /\ d \in Int
      /\ u.isModule \in BOOLEAN
  BY ScopesFacts, UnitFacts
<1>2. \A i \in 1..L : v[i].scopeDepth >= d <=> i > m
  <2>1. CASE u.isModule
    <3>1. L = 0
      BY <2>1, EmptySeq DEF ScopesOK
    <3> QED
      BY <3>1
  <2>2. CASE ~u.isModule
    <3>1. d \in 1..Len(ss)
      BY <1>1, <2>2
    <3> QED
      BY <3>1 DEF ScopesOK, DepthsOK
  <2> QED
    BY <1>1, <2>1, <2>2
<1> HIDE DEF m
<1>3. /\ Len(Inner(u, d)) = L - m /\ Inner(u, d) \in Seq(LocalTypes)
      /\ \A i \in 1..L - m : Inner(u, d)[i] = v[L - i + 1]
  BY <1>1, <1>2, InnerIs
<1>4. /\ b \in Seq(Int) /\ Len(b) = L - m /\ Wrote(u, w, b, 0) /\ w.maxSlots = u.maxSlots
  BY <1>1, <1>3, DiscardLocalVarIs
<1>5. w = WriteBytes(u, b)
  BY DEF DiscardLocalVar, Discards
<1>6. \A i \in 1..L - m : b[i] = IF L - i \in Held(u) THEN CLOSE_UPVALUE ELSE POP
  <2> SUFFICES ASSUME NEW i \in 1..L - m PROVE b[i] = IF L - i \in Held(u) THEN CLOSE_UPVALUE ELSE POP
    OBVIOUS
  <2>1. b[i] = IF Inner(u, d)[i].isUpvalue THEN CLOSE_UPVALUE ELSE POP
    <3>1. DOMAIN Inner(u, d) = 1..L - m
      BY <1>3, LenProperties
    <3> QED
      BY <3>1 DEF Discards
  <2>2. Inner(u, d)[i] = v[L - i + 1]
    BY <1>3
  <2>3. L - i \in 0..L - 1
    BY <1>1
  <2>4. L - i \in Held(u) <=> v[(L - i) + 1].isUpvalue
    BY <2>3 DEF Held
  <2> QED
    BY <2>1, <2>2, <2>4
<1> HIDE DEF b, w
<1>7. b \in Seq(Bytes)
  <2>1. CLOSE_UPVALUE \in Bytes /\ POP \in Bytes
    BY ByteTypes, OpcodesDiffer
  <2>2. \A i \in 1..Len(b) : b[i] \in Bytes
    BY <1>4, <1>6, <2>1
  <2> QED
    BY <1>4, <2>2, LenProperties
<1>8. \E U : Sound(w, U, P) /\ Grew(u, T, w, U, m) /\ U[Count(w)] = Below(u, m)
  <2> DEFINE n == L - m
  <2>1. n \in 0..L /\ L - n = m /\ Len(b) = n
    BY <1>1, <1>4
  <2>2. \A i \in 1..n : b[i] = IF L - i \in Held(u) THEN CLOSE_UPVALUE ELSE POP
    BY <1>6
  <2> HIDE DEF n
  <2>3. \E U : Sound(w, U, P) /\ Grew(u, T, w, U, L - n) /\ U[Count(w)] = Below(u, L - n)
    BY <1>5, <1>7, <2>1, <2>2, DiscardsAreSound
  <2> QED
    BY <2>1, <2>3
<1>9. SameBut(u, w) /\ w.stackSlotNum = u.stackSlotNum
  <2>1. u.stackSlotNum + 0 = u.stackSlotNum
    BY <1>1, UnitFacts
  <2> QED
    BY <1>4, <2>1 DEF Wrote
<1> QED
  BY <1>3, <1>4, <1>8, <1>9 DEF m, w

\* What leaveScope() leaves of the variables and of the counts of slots.
LEMMA LeaveScopeLeaves ==
  ASSUME NEW u, NEW tt \in Blocks, NEW b \in Seq(Names), ScopesOK(u, Append(tt, b)), u.isModule \/ Len(tt) > 0
  PROVE  LET w == LeaveScope(u)
             m == UpTo(tt, Len(tt))
             d == u.scopeDepth
         IN  /\ w \in UnitTypes /\ Len(w.localVars) = m /\ m \in 0..Len(u.localVars) /\ \A i \in 1..m : w.localVars[i] = u.localVars[i]
             /\ w.code = IF u.isModule THEN u.code ELSE DiscardLocalVar(u, d).code
             /\ w.maxSlots = u.maxSlots /\ w.upvalueNums = u.upvalueNums
             /\ w.stackSlotNum = u.stackSlotNum - (Len(u.localVars) - m)
             /\ d = Len(tt) /\ d \in 0..Len(Append(tt, b)) /\ UpTo(Append(tt, b), d) = m
<1> DEFINE d == u.scopeDepth
           v == u.localVars
           L == Len(v)
           n == Len(Inner(u, d))
           x == DiscardLocalVar(u, d)
           ss == Append(tt, b)
           m == UpTo(tt, Len(tt))
           w == LeaveScope(u)
<1>1. u \in UnitTypes /\ v \in Seq(LocalTypes) /\ d \in Int /\ u.isModule \in BOOLEAN /\ u.stackSlotNum \in Int /\ L \in Nat
      /\ u.maxSlots \in Int
  BY ScopesFacts, UnitFacts
<1>2. /\ ss \in Blocks /\ Len(ss) = Len(tt) + 1 /\ Len(tt) \in Nat /\ \A k \in 0..Len(tt) : UpTo(ss, k) = UpTo(tt, k)
  BY UpToAppend
<1>3. ScopesOK(u, ss) /\ Len(ss) = d + 1 /\ d = Len(tt)
  BY <1>1, <1>2 DEF ScopesOK
<1>4. d \in 0..Len(ss) /\ UpTo(ss, d) = m /\ m \in 0..L
  <2>1. d \in 0..Len(ss) /\ d \in 0..Len(tt)
    BY <1>2, <1>3
  <2> QED
    BY <1>2, <1>3, <2>1, ScopesFacts
<1>5. w \in UnitTypes /\ w.upvalueNums = u.upvalueNums /\ ScopesOK(w, tt)
  BY LeaveScopeIs DEF ScopesOK
<1> HIDE DEF ss, m
<1>6. CASE u.isModule
  <2>1. w = [u EXCEPT !.scopeDepth = d - 1]
    BY <1>6 DEF LeaveScope
  <2>2. L = 0
    BY <1>3, <1>6, EmptySeq DEF ScopesOK
  <2>3. m = 0 /\ u.stackSlotNum - (L - m) = u.stackSlotNum
    BY <1>1, <1>4, <2>2
  <2>4. w.localVars = v /\ w.code = u.code /\ w.stackSlotNum = u.stackSlotNum /\ w.maxSlots = u.maxSlots
    BY <1>1, <2>1 DEF UnitTypes
  <2> QED
    BY <1>3, <1>4, <1>5, <1>6, <2>2, <2>3, <2>4 DEF ss, m
<1>7. CASE ~u.isModule
  <2>0. d > 0
    BY <1>2, <1>3, <1>7
  <2> DEFINE y == SubSeq(v, 1, m)
  <2>1. SameBut(u, x) /\ x.stackSlotNum = u.stackSlotNum /\ x.maxSlots = u.maxSlots
    <3>1. Wrote(u, x, Discards(u, d), 0) /\ x.maxSlots = u.maxSlots
      BY <1>1, DiscardLocalVarIs
    <3>2. u.stackSlotNum + 0 = u.stackSlotNum
      BY <1>1
    <3> QED
      BY <3>1, <3>2 DEF Wrote
  <2>2. n = L - m
    <3>1. \A i \in 1..L : v[i].scopeDepth >= d <=> i > m
      <4>1. d \in 1..Len(ss)
        BY <1>2, <1>3, <2>0
      <4> QED
        BY <1>3, <1>4, <4>1 DEF ScopesOK, DepthsOK
    <3> QED
      BY <1>1, <1>4, <3>1, InnerIs
  <2>3. y \in Seq(LocalTypes) /\ Len(y) = m /\ \A i \in 1..m : y[i] = v[i]
    BY <1>1, <1>4, SubSeqIs
  <2>4. L - n = m /\ u.stackSlotNum - n = u.stackSlotNum - (L - m)
    BY <1>1, <1>4, <2>2
  <2> HIDE DEF x, n
  <2>5. x.localVars = v /\ x \in UnitTypes /\ SubSeq(x.localVars, 1, Len(x.localVars) - n) = y
    BY <2>1, <2>4 DEF SameBut
  <2>6. w = [[x EXCEPT !.localVars = SubSeq(x.localVars, 1, Len(x.localVars) - n), !.stackSlotNum = x.stackSlotNum - n]
               EXCEPT !.scopeDepth = x.scopeDepth - 1]
    BY <1>7, <2>5 DEF LeaveScope, UnitTypes, x, n
  <2> HIDE DEF y
  <2>7. PICK e, f : e = x.stackSlotNum - n /\ f = x.scopeDepth - 1
    OBVIOUS
  <2>8. w = [[x EXCEPT !.localVars = y, !.stackSlotNum = e] EXCEPT !.scopeDepth = f]
    BY <2>5, <2>6, <2>7
  <2> HIDE DEF w
  <2>9. w.localVars = y /\ w.code = x.code /\ w.stackSlotNum = e /\ w.maxSlots = x.maxSlots
    BY <2>5, <2>8 DEF UnitTypes
  <2>10. w.stackSlotNum = u.stackSlotNum - (L - m)
    BY <2>1, <2>4, <2>7, <2>9
  <2> QED
    BY <1>3, <1>4, <1>5, <1>7, <2>1, <2>3, <2>9, <2>10 DEF ss, m, x, w
<1> QED
  BY <1>1, <1>6, <1>7

\* A block ends, and the stack is that of the variables around it.
LEMMA LeaveScopeIsSound ==
  ASSUME NEW u, NEW tt \in Blocks, NEW b \in Seq(Names), ScopesOK(u, Append(tt, b)), u.isModule \/ Len(tt) > 0,
         NEW T, NEW P, Sound(u, T, P), T[Count(u)] = Frame(u)
  PROVE  LET w == LeaveScope(u)
         IN  /\ \E U : Sound(w, U, P) /\ Grew(u, T, w, U, Len(w.localVars)) /\ U[Count(w)] = Frame(w)
             /\ Len(w.localVars) = UpTo(tt, Len(tt)) /\ \A s : s \in Held(w) <=> s \in Held(u) /\ s < Len(w.localVars)
<1> DEFINE d == u.scopeDepth
           m == UpTo(tt, Len(tt))
           ss == Append(tt, b)
           x == DiscardLocalVar(u, d)
           w == LeaveScope(u)
<1>1. /\ w \in UnitTypes /\ Len(w.localVars) = m /\ m \in 0..Len(u.localVars) /\ \A i \in 1..m : w.localVars[i] = u.localVars[i]
      /\ w.code = IF u.isModule THEN u.code ELSE x.code
      /\ w.maxSlots = u.maxSlots /\ w.upvalueNums = u.upvalueNums
      /\ w.stackSlotNum = u.stackSlotNum - (Len(u.localVars) - m)
      /\ d = Len(tt) /\ d \in 0..Len(ss) /\ UpTo(ss, d) = m
  BY LeaveScopeLeaves
<1>2. u \in UnitTypes /\ Len(u.localVars) \in Nat /\ u.stackSlotNum \in Int /\ u.maxSlots \in Int /\ u.isModule \in BOOLEAN /\ ScopesOK(u, ss)
  BY ScopesFacts, UnitFacts
<1>3. T[Count(u)].d = Len(u.localVars) /\ T[Count(u)].d <= u.stackSlotNum /\ u.stackSlotNum <= u.maxSlots
  BY <1>2, FrameIs DEF Sound, RoomOK
<1>4. Len(tt) > 0 \/ u.isModule
  OBVIOUS
<1> HIDE DEF m, ss, w, d
<1>5. \A s : s \in Held(w) <=> s \in Held(u) /\ s < Len(w.localVars)
  <2> SUFFICES ASSUME NEW s PROVE s \in Held(w) <=> s \in Held(u) /\ s < m
    BY <1>1
  <2>1. s \in 0..m - 1 => s + 1 \in 1..m /\ s \in 0..Len(u.localVars) - 1 /\ s < m
    BY <1>1, <1>2
  <2>2. s \in 0..Len(u.localVars) - 1 /\ s < m => s \in 0..m - 1
    BY <1>1, <1>2
  <2>3. s \in Held(w) <=> s \in 0..m - 1 /\ w.localVars[s + 1].isUpvalue
    BY <1>1 DEF Held
  <2>4. s \in Held(u) <=> s \in 0..Len(u.localVars) - 1 /\ u.localVars[s + 1].isUpvalue
    BY DEF Held
  <2>5. s \in 0..m - 1 => w.localVars[s + 1] = u.localVars[s + 1]
    BY <1>1, <2>1
  <2> QED
    BY <2>1, <2>2, <2>3, <2>4, <2>5
<1>6. Frame(w) = Below(u, m) /\ Frame(w).d = m
  <2>1. Held(w) = {s \in Held(u) : s < m}
    BY <1>1, <1>5
  <2> QED
    BY <1>1, <2>1 DEF Frame, Below
<1>7. m <= w.stackSlotNum /\ w.stackSlotNum <= w.maxSlots
  BY <1>1, <1>2, <1>3
<1>8. CASE u.isModule
  <2>1. Len(u.localVars) = 0
    BY <1>8, EmptySeq DEF ScopesOK
  <2>2. m = 0 /\ T[Count(u)].d <= w.stackSlotNum
    BY <1>1, <1>2, <1>3, <1>7, <2>1
  <2>3. w.code = u.code
    BY <1>1, <1>8
  <2>4. Sound(w, T, P) /\ Count(w) = Count(u)
    BY <1>1, <1>7, <2>2, <2>3, SoundSame
  <2>5. Grew(u, T, w, T, m)
    BY <2>3, GrewSelf
  <2>6. T[Count(w)] = Frame(w)
    BY <1>2, <1>6, <2>1, <2>2, <2>4, FrameIs
  <2> QED
    BY <1>1, <1>5, <2>4, <2>5, <2>6 DEF w, m
<1>9. CASE ~u.isModule
  <2>1. d > 0
    BY <1>1, <1>9
  <2>2. PICK U : Sound(x, U, P) /\ Grew(u, T, x, U, m) /\ U[Count(x)] = Below(u, m)
    BY <1>1, <1>2, <2>1, DiscardIs DEF d
  <2>3. SameBut(u, x) /\ x.maxSlots = u.maxSlots
    BY <1>1, <1>2, <2>1, DiscardIs DEF d
  <2>4. w.code = x.code /\ w.upvalueNums = x.upvalueNums /\ w.maxSlots = x.maxSlots
    BY <1>1, <1>9, <2>3 DEF SameBut
  <2> HIDE DEF x
  <2>5. U[Count(x)].d <= w.stackSlotNum
    BY <1>6, <1>7, <2>2
  <2>6. Sound(w, U, P) /\ Count(w) = Count(x) /\ \A a : ByteAt(w, a) = ByteAt(x, a)
    BY <1>1, <1>7, <2>2, <2>4, <2>5, SoundSame
  <2>7. Grew(u, T, w, U, m)
    BY <2>2, <2>4, <2>6 DEF Grew
  <2> QED
    BY <1>1, <1>5, <1>6, <2>2, <2>6, <2>7 DEF w, m
<1> QED
  BY <1>2, <1>8, <1>9

-----------------------------------------------------------------------------
(***************************************************************************)
(* The walk of leaveLoopPatch() along the instructions.                    *)
(***************************************************************************)
\* From one address of D the walk goes on to the next one, and behind the last one it ends.
Walks(u, D) ==
  /\ D \subseteq 0..Count(u) - 1 /\ Count(u) \in Nat
  /\ \A a \in D : LET next == a + Width(u, a)
                  IN  \/ /\ next \in a + 1..Count(u) - 1 /\ next \in D
                         /\ \A b \in D : b <= a \/ b >= next
                      \/ next \notin a + 1..Count(u) - 1 /\ \A b \in D : b <= a

Onward(u, a) == a + Width(u, a) \in a + 1..Count(u) - 1

WalkFrom(u, f) ==
  f = [idx \in 0..Count(u) - 1 |-> {idx} \union (IF Onward(u, idx) THEN f[idx + Width(u, idx)] ELSE {})]

\* What is reached from an address is in every set that contains it and is closed under the steps.
LEMMA WalkExists ==
  ASSUME NEW u, Count(u) \in Nat
  PROVE  \E f : WalkFrom(u, f)
<1> DEFINE N == 0..Count(u) - 1
           Closed(S) == \A y \in S : Onward(u, y) => y + Width(u, y) \in S
           f == [idx \in N |-> {x \in N : \A S \in SUBSET N : idx \in S /\ Closed(S) => x \in S}]
<1>1. ASSUME NEW y \in N, Onward(u, y) PROVE y + Width(u, y) \in N
  <2>1. \A z \in y + 1..Count(u) - 1 : z \in N
    OBVIOUS
  <2> QED
    BY <1>1, <2>1 DEF Onward
<1>2. \A y \in N : f[y] \in SUBSET N /\ y \in f[y]
  OBVIOUS
<1>3. ASSUME NEW y \in N PROVE Closed(f[y])
  <2> SUFFICES ASSUME NEW z \in f[y], Onward(u, z) PROVE z + Width(u, z) \in f[y]
    OBVIOUS
  <2>1. z \in N /\ z + Width(u, z) \in N
    BY <1>1, <1>2
  <2>2. ASSUME NEW S \in SUBSET N, y \in S, Closed(S) PROVE z + Width(u, z) \in S
    BY <2>2
  <2> QED
    BY <2>1, <2>2
<1>4. ASSUME NEW y \in N, NEW S \in SUBSET N, y \in S, Closed(S) PROVE f[y] \subseteq S
  BY <1>4
<1> HIDE DEF f
<1>5. ASSUME NEW idx \in N PROVE f[idx] = {idx} \union (IF Onward(u, idx) THEN f[idx + Width(u, idx)] ELSE {})
  <2>1. CASE ~Onward(u, idx)
    <3>1. Closed({idx}) /\ {idx} \in SUBSET N
      BY <2>1
    <3>2. f[idx] \subseteq {idx}
      BY <1>4, <3>1
    <3> QED
      BY <1>2, <2>1, <3>2
  <2>2. CASE Onward(u, idx)
    <3> DEFINE n == idx + Width(u, idx)
               R == {idx} \union f[n]
    <3>1. n \in N
      BY <1>1, <2>2
    <3>2. R \in SUBSET N /\ n \in f[n]
      BY <1>2, <3>1
    <3>3. Closed(R)
      <4> SUFFICES ASSUME NEW y \in R, Onward(u, y) PROVE y + Width(u, y) \in R
        OBVIOUS
      <4>1. CASE y = idx
        BY <3>2, <4>1
      <4>2. CASE y \in f[n]
        BY <1>3, <3>1, <4>2
      <4> QED
        BY <4>1, <4>2
    <3>4. f[idx] \subseteq R
      <4>1. idx \in R
        OBVIOUS
      <4> HIDE DEF R
      <4> QED
        BY <1>4, <3>2, <3>3, <4>1
    <3>5. n \in f[idx]
      BY <1>2, <1>3, <2>2
    <3>6. f[n] \subseteq f[idx]
      BY <1>2, <1>3, <1>4, <3>1, <3>5
    <3> QED
      BY <1>2, <2>2, <3>4, <3>6
  <2> QED
    BY <2>1, <2>2
<1>6. f = [idx \in N |-> f[idx]]
  BY DEF f
<1>7. f = [idx \in N |-> {idx} \union (IF Onward(u, idx) THEN f[idx + Width(u, idx)] ELSE {})]
  BY <1>5, <1>6
<1>8. WalkFrom(u, f)
  BY <1>7 DEF WalkFrom
<1> QED
  BY <1>8

LEMMA AddressesAre ==
  ASSUME NEW u, NEW D, Walks(u, D), NEW a \in D
  PROVE  Addresses(u, a) = {x \in D : x >= a}
<1> DEFINE N == 0..Count(u) - 1
           Body(f) == [idx \in N |->
                         LET next == idx + Width(u, idx)
                         IN  {idx} \union (IF next \in idx + 1..Count(u) - 1 THEN f[next] ELSE {})]
           from == CHOOSE f : f = Body(f)
<1>1. Count(u) \in Nat /\ D \subseteq N /\ a \in N /\ a < Count(u) /\ N \subseteq Nat
  BY DEF Walks
<1>2. Addresses(u, a) = from[a]
  BY <1>1 DEF Addresses
<1>3. \E f : f = Body(f)
  <2>1. PICK f : WalkFrom(u, f)
    BY <1>1, WalkExists
  <2>2. f = Body(f)
    BY <2>1 DEF WalkFrom, Onward
  <2> QED
    BY <2>2
<1>4. from = Body(from)
  <2> HIDE DEF Body
  <2> QED
    BY <1>3
<1> HIDE DEF from
<1>5. ASSUME NEW x \in N PROVE from[x] = {x} \union (IF Onward(u, x) THEN from[x + Width(u, x)] ELSE {})
  BY <1>4 DEF Onward
<1> DEFINE Right == {n \in 0..Count(u) : \A x \in D : Count(u) - x <= n => from[x] = {y \in D : y >= x}}
<1>6. 0 \in Right
  BY <1>1
<1>7. ASSUME NEW n \in 0..Count(u) - 1, n \in Right PROVE n + 1 \in Right
  <2> SUFFICES ASSUME NEW x \in D, Count(u) - x <= n + 1 PROVE from[x] = {y \in D : y >= x}
    BY <1>1
  <2>1. x \in N /\ x \in Nat
    BY <1>1
  <2>2. CASE Onward(u, x)
    <3>1. PICK z : z = x + Width(u, x)
      OBVIOUS
    <3>2. z \in x + 1..Count(u) - 1 /\ z \in D /\ \A b \in D : b <= x \/ b >= z
      BY <2>2, <3>1 DEF Walks, Onward
    <3>3. from[z] = {y \in D : y >= z}
      <4>1. Count(u) - z <= n
        BY <1>1, <2>1, <3>2
      <4> QED
        BY <1>7, <3>2, <4>1
    <3>4. from[x] = {x} \union from[z]
      BY <1>5, <2>1, <2>2, <3>1
    <3>5. \A y \in D : y >= x <=> y = x \/ y >= z
      BY <1>1, <2>1, <3>2
    <3> QED
      BY <3>3, <3>4, <3>5
  <2>3. CASE ~Onward(u, x)
    <3>1. from[x] = {x}
      BY <1>5, <2>1, <2>3
    <3>2. \A b \in D : b <= x
      BY <2>3 DEF Walks, Onward
    <3>3. \A b \in D : b >= x <=> b = x
      BY <1>1, <2>1, <3>2
    <3> QED
      BY <3>1, <3>3
  <2> QED
    BY <2>2, <2>3
<1>8. 0..Count(u) \subseteq Right
  <2> HIDE DEF Right
  <2> QED
    BY <1>1, <1>6, <1>7, InductionUpTo
<1>9. Count(u) \in Right /\ Count(u) - a <= Count(u)
  <2>1. Count(u) \in 0..Count(u)
    BY <1>1
  <2> QED
    BY <1>1, <1>8, <2>1
<1> QED
  BY <1>2, <1>9

LEMMA ChainedWalks ==
  ASSUME NEW u \in UnitTypes, NEW D, Chained(u, D)
  PROVE  Walks(u, D \ {Count(u)})
<1> DEFINE E == D \ {Count(u)}
<1>1. Count(u) \in Nat /\ D \subseteq 0..Count(u) /\ Count(u) \in D
  BY UnitFacts DEF Chained
<1>2. E \subseteq 0..Count(u) - 1
  <2>1. PICK n \in Nat : n = Count(u)
    BY <1>1
  <2>2. \A a \in 0..n : a # n => a \in 0..n - 1
    OBVIOUS
  <2> QED
    BY <1>1, <2>1, <2>2
<1>3. ASSUME NEW a \in E
      PROVE  \/ /\ a + Width(u, a) \in a + 1..Count(u) - 1 /\ a + Width(u, a) \in E
                /\ \A b \in E : b <= a \/ b >= a + Width(u, a)
             \/ a + Width(u, a) \notin a + 1..Count(u) - 1 /\ \A b \in E : b <= a
  <2>1. a \in Nat /\ a < Count(u) /\ InstrOK(u, D, a)
    BY <1>1 DEF Chained
  <2>2. Width(u, a) \in Nat /\ Width(u, a) >= 1
    BY <2>1, WidthFacts
  <2>3. PICK n \in Nat : n = a + Width(u, a)
    BY <2>1, <2>2
  <2>4. n \in D /\ (\A b \in D : b <= a \/ b >= n) /\ n > a
    BY <2>1, <2>2, <2>3 DEF InstrOK
  <2>5. CASE n = Count(u)
    <3>1. n \notin a + 1..Count(u) - 1
      BY <1>1, <2>5
    <3>2. \A b \in E : b <= a
      BY <1>1, <2>4, <2>5
    <3> QED
      BY <2>3, <3>1, <3>2
  <2>6. CASE n # Count(u)
    <3>1. n \in a + 1..Count(u) - 1 /\ n \in E
      BY <1>1, <2>1, <2>4, <2>6
    <3> QED
      BY <2>3, <2>4, <3>1
  <2> QED
    BY <2>5, <2>6
<1> HIDE DEF E
<1>4. Walks(u, E)
  BY <1>1, <1>2, <1>3 DEF Walks
<1> QED
  BY <1>4 DEF E

\* The walk finds the instructions from one of them on, and no other addresses.
LEMMA BreaksFromIs ==
  ASSUME NEW u \in UnitTypes, NEW D, Chained(u, D), NEW a \in D
  PROVE  BreaksFrom(u, a) = {x \in D : x >= a /\ x < Count(u) /\ ByteAt(u, x) = END}
<1>1. Count(u) \in Nat /\ D \subseteq 0..Count(u)
  BY UnitFacts DEF Chained
<1>2. CASE a = Count(u)
  <2>1. Addresses(u, a) = {}
    BY <1>1, <1>2 DEF Addresses
  <2>2. \A x \in D : ~(x >= a /\ x < Count(u))
    BY <1>1, <1>2
  <2> QED
    BY <2>1, <2>2 DEF BreaksFrom
<1>3. CASE a # Count(u)
  <2>1. Addresses(u, a) = {x \in D \ {Count(u)} : x >= a}
    <3>1. PICK E : E = D \ {Count(u)}
      OBVIOUS
    <3>2. Walks(u, E) /\ a \in E
      BY <1>3, <3>1, ChainedWalks
    <3>3. Addresses(u, a) = {x \in E : x >= a}
      BY <3>2, AddressesAre
    <3> QED
      BY <3>1, <3>3
  <2>2. \A x \in D : x # Count(u) <=> x < Count(u)
    BY <1>1
  <2> QED
    BY <2>1, <2>2 DEF BreaksFrom
<1> QED
  BY <1>2, <1>3

\* The placeholders of breaks from address b on become jumps to the end of the code.
LEMMA BreaksPatched ==
  ASSUME NEW u, NEW T, NEW P, Sound(u, T, P), NEW b \in DOMAIN T, Count(u) < BYTE * BYTE,
         \A x \in DOMAIN T : x >= b /\ x < Count(u) /\ ByteAt(u, x) = END => Leads(Lands(END, T[x]), T[Count(u)])
  PROVE  LET w == PatchBreaks(u, BreaksFrom(u, b))
             R == {x \in DOMAIN T : x >= b /\ x < Count(u) /\ ByteAt(u, x) = END}
         IN  /\ Sound(w, T, P) /\ SameBut(u, w) /\ w.stackSlotNum = u.stackSlotNum /\ w.maxSlots = u.maxSlots
             /\ Rewritten(u, w, DOMAIN T, R) /\ Count(w) = Count(u)
             /\ \A x \in R : ByteAt(w, x) = JUMP /\ Target(w, x) = Count(u)
<1> DEFINE R == {x \in DOMAIN T : x >= b /\ x < Count(u) /\ ByteAt(u, x) = END}
           w == PatchBreaks(u, BreaksFrom(u, b))
<1>1. /\ u \in UnitTypes /\ Count(u) \in Nat /\ Chained(u, DOMAIN T) /\ u.code \in Seq(Bytes)
      /\ \A x \in DOMAIN T : x \in Nat /\ x <= Count(u)
  BY SoundFacts DEF Sound
<1>2. BreaksFrom(u, b) = R
  BY <1>1, BreaksFromIs
<1>3. /\ SameBut(u, w) /\ w.stackSlotNum = u.stackSlotNum /\ w.maxSlots = u.maxSlots /\ Len(w.code) = Len(u.code)
      /\ \A i \in 1..Len(u.code) : w.code[i] =
           CASE i - 1 \in R -> JUMP
             [] i - 2 \in R -> High(Count(u) - i - 1)
             [] i - 3 \in R -> Low(Count(u) - i)
             [] OTHER -> u.code[i]
  BY <1>1, <1>2, PatchBreaksIs
<1> HIDE DEF w
<1>4. Count(w) = Count(u) /\ Count(u) = Len(u.code)
  BY <1>3 DEF Count
<1>5. \A x \in R : /\ x \in DOMAIN T /\ x >= b /\ x < Count(u) /\ ByteAt(u, x) = END /\ x \in Nat
  BY <1>1
<1>6. ASSUME NEW x \in R PROVE InstrOK(u, DOMAIN T, x) /\ Width(u, x) = 3 /\ x + 3 <= Count(u) /\ x + 1 \notin R /\ x + 2 \notin R
  <2>1. InstrOK(u, DOMAIN T, x) /\ x \in Nat
    BY <1>1, <1>5 DEF Chained
  <2>2. Width(u, x) = 3
    <3>1. ByteAt(u, x) = END /\ ByteAt(u, x) \in 1..END
      BY <1>5, <2>1 DEF InstrOK
    <3> QED
      BY <3>1, WidthIs
  <2>3. x + 3 \in DOMAIN T /\ \A y \in DOMAIN T : y <= x \/ y >= x + 3
    BY <2>1, <2>2 DEF InstrOK
  <2>4. x + 1 \notin DOMAIN T /\ x + 2 \notin DOMAIN T
    BY <2>1, <2>3
  <2> QED
    BY <1>1, <1>5, <2>1, <2>2, <2>3, <2>4
<1> HIDE DEF R
<1>7. ASSUME NEW x \in R
      PROVE  w.code[x + 1] = JUMP /\ w.code[x + 2] = High(Count(u) - x - 3) /\ w.code[x + 3] = Low(Count(u) - x - 3)
  <2>1. /\ x \in Nat /\ x + 1 \in 1..Len(u.code) /\ x + 2 \in 1..Len(u.code) /\ x + 3 \in 1..Len(u.code)
        /\ x + 1 \notin R /\ x + 2 \notin R
    BY <1>1, <1>4, <1>5, <1>6
  <2>a. x - 1 \notin R /\ x - 2 \notin R
    <3>1. x - 1 \in R => (x - 1) + 1 \notin R
      BY <1>6
    <3>2. x - 2 \in R => (x - 2) + 2 \notin R
      BY <1>6
    <3>3. (x - 1) + 1 = x /\ (x - 2) + 2 = x
      BY <2>1
    <3> QED
      BY <3>1, <3>2, <3>3
  <2>2. /\ (x + 1) - 1 = x /\ (x + 2) - 1 = x + 1 /\ (x + 2) - 2 = x /\ (x + 3) - 1 = x + 2 /\ (x + 3) - 2 = x + 1 /\ (x + 3) - 3 = x
        /\ Count(u) - (x + 2) - 1 = Count(u) - x - 3 /\ Count(u) - (x + 3) = Count(u) - x - 3
    BY <1>1, <2>1
  <2>3. w.code[x + 1] = JUMP
    <3>1. PICK i : i = x + 1
      OBVIOUS
    <3>2. i \in 1..Len(u.code) /\ i - 1 \in R /\ i - 2 = x - 1 /\ i - 3 = x - 2
      BY <2>1, <2>2, <3>1
    <3>3. i - 2 \notin R /\ i - 3 \notin R
      BY <2>a, <3>2
    <3> QED
      BY <1>3, <3>1, <3>2, <3>3
  <2>4. w.code[x + 2] = High(Count(u) - (x + 2) - 1)
    <3>1. PICK i : i = x + 2
      OBVIOUS
    <3>2. i \in 1..Len(u.code) /\ i - 1 \notin R /\ i - 2 \in R /\ i - 3 = x - 1
      BY <2>1, <2>2, <3>1
    <3>3. i - 3 \notin R
      BY <2>a, <3>2
    <3> QED
      BY <1>3, <3>1, <3>2, <3>3
  <2>5. w.code[x + 3] = Low(Count(u) - (x + 3))
    <3>1. PICK i : i = x + 3
      OBVIOUS
    <3>2. i \in 1..Len(u.code) /\ i - 1 \notin R /\ i - 2 \notin R /\ i - 3 \in R
      BY <2>1, <2>2, <3>1
    <3> QED
      BY <1>3, <3>1, <3>2
  <2> QED
    BY <2>2, <2>3, <2>4, <2>5
<1>8. \A i \in 1..Count(u) : w.code[i] = u.code[i] \/ \E x \in R : i \in {x + 1, x + 2, x + 3}
  <2> TAKE i \in 1..Count(u)
  <2>1. i - 1 \in R => i \in {(i - 1) + 1, (i - 1) + 2, (i - 1) + 3}
    BY <1>1
  <2>2. i - 2 \in R => i \in {(i - 2) + 1, (i - 2) + 2, (i - 2) + 3}
    BY <1>1
  <2>3. i - 3 \in R => i \in {(i - 3) + 1, (i - 3) + 2, (i - 3) + 3}
    BY <1>1
  <2>4. i - 1 \notin R /\ i - 2 \notin R /\ i - 3 \notin R => w.code[i] = u.code[i]
    BY <1>3, <1>4
  <2> QED
    BY <2>1, <2>2, <2>3, <2>4
<1>9. ASSUME NEW x \in R PROVE ByteAt(w, x) = JUMP /\ Target(w, x) = Count(u)
  <2> DEFINE n == Count(u) - x - 3
  <2>1. x \in Nat /\ x + 3 <= Count(u)
    BY <1>5, <1>6
  <2>2. n \in Nat /\ n < BYTE * BYTE /\ x + 3 + n = Count(u)
    <3>1. BYTE * BYTE \in Int
      BY ByteFacts
    <3> QED
      BY <1>1, <2>1, <3>1
  <2>3. w.code[x + 1] = JUMP /\ w.code[x + 2] = High(n) /\ w.code[x + 3] = Low(n)
    BY <1>7
  <2> HIDE DEF n
  <2>4. (x + 1) + 1 = x + 2 /\ ((x + 1) + 1) + 1 = x + 3
    BY <2>1
  <2>5. ShortAt(w, x + 1) = n
    <3>1. ShortAt(w, x + 1) = High(n) * BYTE + Low(n)
      BY <2>3, <2>4 DEF ShortAt, ByteAt
    <3> QED
      BY <2>2, <3>1, ShortIs
  <2> QED
    BY <2>2, <2>3, <2>5 DEF Target, ByteAt
<1>10. Rewritten(u, w, DOMAIN T, R)
  <2>1. w \in UnitTypes /\ w.upvalueNums = u.upvalueNums
    BY <1>3 DEF SameBut
  <2>2. R \subseteq DOMAIN T
    BY <1>5
  <2> QED
    BY <1>3, <1>4, <1>5, <1>8, <1>9, <2>1, <2>2 DEF Rewritten
<1>11. w.code \in Seq(Bytes)
  <2>1. \A i \in 1..Len(w.code) : w.code[i] \in Bytes
    <3>1. \A n \in Int : High(n) \in Bytes /\ Low(n) \in Bytes
      BY ByteTypes
    <3>2. \A i \in 1..Len(u.code) : u.code[i] \in Bytes
      BY <1>1, ElementOfSeq
    <3>3. JUMP \in Bytes
      BY ByteTypes, OpcodeTypes DEF Opcodes
    <3>4. \A x \in R : w.code[x + 1] \in Bytes /\ w.code[x + 2] \in Bytes /\ w.code[x + 3] \in Bytes
      <4>1. \A x \in R : Count(u) - x - 3 \in Int
        BY <1>1, <1>5
      <4> QED
        BY <1>7, <3>1, <3>3, <4>1
    <3> QED
      BY <1>3, <1>4, <1>8, <3>2, <3>4
  <2>2. w.code \in Seq(Int)
    BY <1>3, UnitFacts DEF SameBut
  <2> QED
    BY <2>1, <2>2, LenProperties
<1>12. Sound(w, T, P)
  <2>1. Count(u) \in DOMAIN T /\ P \subseteq P \union R
    BY SoundFacts
  <2>2. \A x \in R : Target(w, x) \in DOMAIN T /\ Leads(Lands(ByteAt(w, x), T[x]), T[Target(w, x)])
    <3>1. \A x \in R : Leads(Lands(END, T[x]), T[Count(u)])
      BY <1>5
    <3>2. \A s : Lands(JUMP, s) = Lands(END, s)
      BY OpcodesDiffer DEF Lands
    <3> QED
      BY <1>9, <2>1, <3>1, <3>2
  <2> QED
    BY <1>10, <1>11, <2>1, <2>2, RewrittenIsSound
<1> QED
  BY <1>3, <1>4, <1>9, <1>10, <1>12 DEF w, R

-----------------------------------------------------------------------------
(***************************************************************************)
(* The instructions that belong to a loop.                                 *)
(***************************************************************************)
\* One instruction, op, has been added to the code; behind it the stack is e.
Added(u, T, w, U, op, e) ==
  /\ Count(w) = Count(u) + 3 /\ ByteAt(w, Count(u)) = op /\ \A i \in 1..Count(u) : w.code[i] = u.code[i]
  /\ DOMAIN U = DOMAIN T \union {Count(w)} /\ U[Count(w)] = e /\ \A a \in DOMAIN T : U[a] = T[a]



\* The placeholder of a break.
LEMMA EndAdded ==
  ASSUME NEW u, NEW T, NEW P, Sound(u, T, P), NEW e \in Stacks, e.d <= u.stackSlotNum
  PROVE  LET w == EmitInstrWithPlaceholder(u, END)
         IN  \E U : Sound(w, U, P) /\ Added(u, T, w, U, END, e)
<1> DEFINE w == EmitInstrWithPlaceholder(u, END)
           b == <<END, BYTE - 1, BYTE - 1>>
           U == Ext(T, Count(w), e)
<1>1. /\ b \in Seq(Bytes) /\ Len(b) = 3 /\ b[1] = END /\ END \in 1..END /\ Wrote(u, w, b, 0)
      /\ Width(w, Count(u)) = 3 /\ Count(w) = Count(u) + 3 /\ ByteAt(w, Count(u)) = END
      /\ \A i \in 1..Count(u) : w.code[i] = u.code[i]
  <2>1. END \in Branching \union {JUMP, END} /\ SlotsUsed(END) = 0
    BY SlotsUsedIs
  <2> QED
    BY <2>1, PlaceholderFacts
<1>2. END # CREATE_CLOSURE /\ END # LOOP /\ END \notin Straight \union Branching /\ END \notin Branching \union {JUMP}
  BY OpcodesDiffer DEF Branching, Straight
<1>3. e.d <= u.stackSlotNum + 0 /\ Len(b) > 0 /\ 0 \in Int /\ P \subseteq P /\ Count(u) \in Nat /\ Count(w) > Count(u) /\ Count(w) \in Nat
  <2>1. u.stackSlotNum \in Int /\ Count(u) \in Nat
    BY SoundFacts
  <2> HIDE DEF w, b
  <2> QED
    BY <1>1, <2>1
<1> HIDE DEF w, b
<1>4. Sound(w, U, P)
  BY <1>1, <1>2, <1>3, EmitIs
<1>5. Added(u, T, w, U, END, e)
  <2>1. DOMAIN U = DOMAIN T \union {Count(w)} /\ U[Count(w)] = e /\ \A a \in DOMAIN T : U[a] = T[a]
    <3>1. Count(w) \notin DOMAIN T
      BY <1>3, SoundFacts
    <3> QED
      BY <3>1 DEF Ext
  <2> HIDE DEF U
  <2> QED
    BY <1>1, <2>1 DEF Added
<1> QED
  BY <1>4, <1>5 DEF w

Start(l) == l.condStartIndex + 1

\* The jump back to the start of the innermost loop.
LEMMA JumpBackAdded ==
  ASSUME NEW u, NEW T, NEW P, Sound(u, T, P), u.loops # <<>>, Start(Last(u.loops)) \in DOMAIN T,
         Leads(T[Count(u)], T[Start(Last(u.loops))]), NEW e \in Stacks, e.d <= u.stackSlotNum, Count(u) + 3 < BYTE * BYTE
  PROVE  LET w == JumpBack(u)
         IN  /\ \E U : Sound(w, U, P) /\ Added(u, T, w, U, LOOP, e)
             /\ BackTarget(w, Count(u)) = Start(Last(u.loops)) /\ SameBut(u, w)
             /\ w.stackSlotNum = u.stackSlotNum /\ w.maxSlots >= u.maxSlots
<1> DEFINE w == JumpBack(u)
           n == Count(u) - Last(u.loops).condStartIndex + 2
           b == <<LOOP, High(n), Low(n)>>
           U == Ext(T, Count(w), e)
           s == Start(Last(u.loops))
<1>1. u \in UnitTypes /\ Count(u) \in Nat /\ u.stackSlotNum \in Int /\ s \in Nat /\ s <= Count(u)
  BY SoundFacts
<1>2. n \in Int /\ Last(u.loops) \in LoopTypes /\ Wrote(u, w, b, 0)
  BY <1>1, JumpBackIs
<1>3. n = Count(u) - s + 3 /\ n \in Nat /\ n < BYTE * BYTE
  <2>1. Last(u.loops).condStartIndex \in Int /\ s = Last(u.loops).condStartIndex + 1
    BY <1>2 DEF LoopTypes, Start
  <2>2. BYTE * BYTE \in Int
    BY ByteFacts
  <2> HIDE DEF s
  <2> QED
    BY <1>1, <2>1, <2>2
<1>4. High(n) \in Bytes /\ Low(n) \in Bytes /\ LOOP \in Bytes /\ LOOP \in 1..END /\ LOOP \in Int
  BY <1>2, ByteTypes, OpcodesDiffer
<1> HIDE DEF s, n
<1>5. b \in Seq(Bytes) /\ Len(b) = 3 /\ b[1] = LOOP /\ b[2] = High(n) /\ b[3] = Low(n)
  BY <1>4, BytesAre
<1> HIDE DEF w, b
<1>6. w \in UnitTypes /\ b \in Seq(Int) /\ w.code = u.code \o b /\ SameBut(u, w)
  BY <1>2, <1>5, WroteFacts
<1>7. /\ Count(w) = Count(u) + 3 /\ Count(w) \in Nat /\ \A i \in 1..Count(u) : w.code[i] = u.code[i]
      /\ \A k \in 0..3 - 1 : ByteAt(w, Count(u) + k) = b[k + 1]
  BY <1>1, <1>5, <1>6, AppendedIs
<1>8. /\ ByteAt(w, Count(u)) = LOOP /\ ByteAt(w, Count(u) + 1) = High(n) /\ ByteAt(w, (Count(u) + 1) + 1) = Low(n)
  <2>1. ByteAt(w, Count(u) + 0) = b[0 + 1] /\ ByteAt(w, Count(u) + 1) = b[1 + 1] /\ ByteAt(w, Count(u) + 2) = b[2 + 1]
    BY <1>7
  <2>2. Count(u) + 0 = Count(u) /\ Count(u) + 2 = (Count(u) + 1) + 1 /\ 0 + 1 = 1 /\ 1 + 1 = 2 /\ 2 + 1 = 3
    BY <1>1
  <2> QED
    BY <1>5, <2>1, <2>2
<1>9. ShortAt(w, Count(u) + 1) = n
  <2>1. ShortAt(w, Count(u) + 1) = High(n) * BYTE + Low(n)
    BY <1>8 DEF ShortAt
  <2> QED
    BY <1>3, <2>1, ShortIs
<1>10. BackTarget(w, Count(u)) = s
  BY <1>1, <1>3, <1>9 DEF BackTarget
<1>11. Width(w, Count(u)) = 3 /\ LOOP # CREATE_CLOSURE /\ LOOP \notin Straight \union Branching /\ LOOP \notin Branching \union {JUMP}
  <2>1. Width(w, Count(u)) = 3
    BY <1>4, <1>8, WidthIs
  <2> QED
    BY <2>1, OpcodesDiffer DEF Branching, Straight
<1>12. e.d <= u.stackSlotNum + 0 /\ Len(b) > 0 /\ 0 \in Int /\ P \subseteq P /\ Count(w) > Count(u)
  BY <1>1, <1>5, <1>7
<1>13. BackTarget(w, Count(u)) \in DOMAIN T /\ Leads(T[Count(u)], T[BackTarget(w, Count(u))])
  BY <1>10 DEF s
<1>14. Sound(w, U, P)
  BY <1>2, <1>4, <1>5, <1>11, <1>12, <1>13, EmitIs
<1>15. Added(u, T, w, U, LOOP, e)
  <2>1. DOMAIN U = DOMAIN T \union {Count(w)} /\ U[Count(w)] = e /\ \A a \in DOMAIN T : U[a] = T[a]
    <3>1. Count(w) \notin DOMAIN T
      BY <1>1, <1>7, <1>12, SoundFacts
    <3> QED
      BY <3>1 DEF Ext
  <2> HIDE DEF U
  <2> QED
    BY <1>7, <1>8, <2>1 DEF Added
<1>16. w.stackSlotNum = u.stackSlotNum /\ w.maxSlots >= u.maxSlots
  BY <1>1, <1>2 DEF Wrote
<1> QED
  BY <1>6, <1>10, <1>14, <1>15, <1>16 DEF w, s

-----------------------------------------------------------------------------
(***************************************************************************)
(* What the compiler remembers about loops, tests and breaks.              *)
(***************************************************************************)
Base(ss, l) == UpTo(ss, l.scopeDepth + 1)

Ifs(t) == {i \in 1..Len(t) : t[i].kind \in {"then", "else"}}

\* The jumps whose operands are written when a block ends.
Waiting(u, t) == {t[i].at - 1 : i \in Ifs(t)} \union {u.loops[j].exitIndex - 1 : j \in 1..Len(u.loops)}

\* The jump at address a is to go where n variables are in scope.
Pending(u, T, a, n) ==
  /\ a \in DOMAIN T /\ a < Count(u) /\ Lands(ByteAt(u, a), T[a]).d = n
  /\ \A s \in T[a].c : s \in Held(u) /\ s < n

\* The loop l is being read, and base variables are in scope around it.
LoopOK(u, T, l, base) ==
  /\ Start(l) \in DOMAIN T /\ l.bodyStartIndex \in DOMAIN T
  /\ Start(l) <= l.exitIndex - 1 /\ l.exitIndex - 1 < l.bodyStartIndex
  /\ T[Start(l)].d = base /\ \A s \in Held(u) : s < base => s \in T[Start(l)].c
  /\ ByteAt(u, l.exitIndex - 1) = JUMP_IF_FALSE /\ Pending(u, T, l.exitIndex - 1, base)
  /\ \A a \in DOMAIN T : a >= Start(l) => T[a].d >= base
  /\ \A a \in DOMAIN T : a >= Start(l) /\ a < Count(u) /\ ByteAt(u, a) = LOOP => BackTarget(u, a) >= Start(l)

IfOK(u, T, a, n) == ByteAt(u, a) \in Branching \union {JUMP} /\ Pending(u, T, a, n)

\* Address a is in the body of the loop with number j and in no inner one.
Belongs(u, a, j) ==
  /\ j \in 1..Len(u.loops) /\ a >= u.loops[j].bodyStartIndex
  /\ \A i \in 1..Len(u.loops) : i > j => a < Start(u.loops[i])

BreakOK(u, ss, T, a) == \E j \in 1..Len(u.loops) : Belongs(u, a, j) /\ Pending(u, T, a, Base(ss, u.loops[j]))

Shape(u, ss, t, T) ==
  /\ \A j \in 1..Len(u.loops) : LoopOK(u, T, u.loops[j], Base(ss, u.loops[j]))
  /\ \A i, j \in 1..Len(u.loops) : i < j => u.loops[i].bodyStartIndex <= Start(u.loops[j])
  /\ \A i \in Ifs(t) : IfOK(u, T, t[i].at - 1, UpTo(ss, t[i].outer))
  /\ \A a \in DOMAIN T : a < Count(u) /\ ByteAt(u, a) = END => BreakOK(u, ss, T, a)

\* A break of the source: its loop is being read, or it has become a jump behind its loop.
JumpOK(u, t, T, en, a, x) ==
  /\ a \in DOMAIN T /\ a < Count(u)
  /\ \/ ByteAt(u, a) = END /\ \E j \in 1..Len(u.loops) : Belongs(u, a, j) /\ x = Start(u.loops[j])
     \/ ByteAt(u, a) = JUMP /\ a \notin Waiting(u, t) /\ x \in DOMAIN en /\ Target(u, a) = en[x]

JumpsOK(u, t, T, jm, en) ==
  /\ \A x \in DOMAIN en : x \in Int /\ x < Count(u)
  /\ \A j \in 1..Len(u.loops) : Start(u.loops[j]) \notin DOMAIN en
  /\ \A a \in DOMAIN jm : JumpOK(u, t, T, en, a, jm[a])

-----------------------------------------------------------------------------
(***************************************************************************)
(* Code is appended.                                                       *)
(***************************************************************************)
\* The variables of both units are captured in both or in neither.
Alike(u, w) == \A s \in Nat : s < Len(u.localVars) /\ s < Len(w.localVars) => (s \in Held(u) <=> s \in Held(w))

\* Behind the code of u code is appended that does not reach below m slots.
Continues(u, T, P, w, U, Q, m) ==
  /\ Sound(u, T, P) /\ Sound(w, U, Q) /\ w.loops = u.loops /\ Alike(u, w)
  /\ Count(u) <= Count(w) /\ \A i \in 1..Count(u) : w.code[i] = u.code[i]
  /\ DOMAIN T \subseteq DOMAIN U /\ \A a \in DOMAIN T : U[a] = T[a]
  /\ \A a \in DOMAIN U : a \in DOMAIN T \/ (a > Count(u) /\ U[a].d >= m)
  /\ MoreUpvalues(u, w)

LEMMA OldCodeIs ==
  ASSUME NEW u, NEW T, NEW P, NEW w, NEW U, NEW Q, NEW m, Continues(u, T, P, w, U, Q, m), NEW a \in DOMAIN T, a < Count(u)
  PROVE  /\ a \in Nat /\ a \in DOMAIN U /\ U[a] = T[a] /\ a < Count(w) /\ ByteAt(w, a) = ByteAt(u, a)
         /\ Width(u, a) >= 3 => BackTarget(w, a) = BackTarget(u, a) /\ Target(w, a) = Target(u, a)
<1>1. /\ Sound(u, T, P) /\ Sound(w, U, Q) /\ Count(u) <= Count(w) /\ \A i \in 1..Count(u) : w.code[i] = u.code[i]
      /\ a \in DOMAIN U /\ U[a] = T[a] /\ MoreUpvalues(u, w)
  BY DEF Continues
<1>2. u \in UnitTypes /\ w \in UnitTypes /\ Count(u) \in Nat /\ Count(w) \in Nat /\ a \in Nat /\ DOMAIN T \subseteq 0..Count(u)
  BY <1>1, SoundFacts
<1>3. InstrOK(u, DOMAIN T, a)
  BY <1>1, <1>2 DEF Sound, Chained
<1>4. Kept(u, w, a) /\ a < Count(w)
  <2>1. Width(u, a) \in Nat /\ a + Width(u, a) <= Count(u)
    BY <1>2, <1>3, WidthFacts DEF InstrOK
  <2> SUFFICES ASSUME NEW k \in 0..Width(u, a) - 1 PROVE ByteAt(w, a + k) = ByteAt(u, a + k)
    BY <1>1, <1>2 DEF Kept
  <2>2. (a + k) + 1 \in 1..Count(u)
    BY <1>2, <2>1
  <2> QED
    BY <1>1, <2>2 DEF ByteAt
<1> QED
  BY <1>1, <1>2, <1>3, <1>4, KeptIs DEF BackTarget, Target

LEMMA PendingContinues ==
  ASSUME NEW u, NEW T, NEW P, NEW w, NEW U, NEW Q, NEW m, Continues(u, T, P, w, U, Q, m)
  PROVE  \A a, n : Pending(u, T, a, n) /\ n \in Nat /\ n <= Len(w.localVars) => Pending(w, U, a, n)
<1> SUFFICES ASSUME NEW a, NEW n \in Nat, Pending(u, T, a, n), n <= Len(w.localVars) PROVE Pending(w, U, a, n)
  OBVIOUS
<1>1. a \in DOMAIN T /\ a < Count(u) /\ Lands(ByteAt(u, a), T[a]).d = n /\ \A s \in T[a].c : s \in Held(u) /\ s < n
  BY DEF Pending
<1>2. a \in DOMAIN U /\ U[a] = T[a] /\ a < Count(w) /\ ByteAt(w, a) = ByteAt(u, a)
  BY <1>1, OldCodeIs
<1>3. u \in UnitTypes /\ w \in UnitTypes
  BY SoundFacts DEF Continues
<1>4. ASSUME NEW s \in T[a].c PROVE s \in Held(w) /\ s < n
  <2>1. s \in Held(u) /\ s < n
    BY <1>1
  <2>2. Len(u.localVars) \in Nat /\ Len(w.localVars) \in Nat
    BY <1>3, FrameIs
  <2>3. s \in Nat /\ s < Len(u.localVars) /\ s < Len(w.localVars)
    BY <2>1, <2>2 DEF Held
  <2> QED
    BY <2>1, <2>3 DEF Continues, Alike
<1> QED
  BY <1>1, <1>2, <1>4 DEF Pending

LEMMA LoopContinues ==
  ASSUME NEW u, NEW T, NEW P, NEW w, NEW U, NEW Q, NEW m \in Int, Continues(u, T, P, w, U, Q, m),
         NEW l \in LoopTypes, NEW base \in Nat, LoopOK(u, T, l, base), base <= m, base <= Len(u.localVars), base <= Len(w.localVars),
         \A a \in DOMAIN U : a >= Count(u) /\ a < Count(w) /\ ByteAt(w, a) = LOOP => BackTarget(w, a) >= Start(l)
  PROVE  LoopOK(w, U, l, base)
<1>1. /\ Sound(u, T, P) /\ Sound(w, U, Q) /\ DOMAIN T \subseteq DOMAIN U /\ \A a \in DOMAIN T : U[a] = T[a]
      /\ \A a \in DOMAIN U : a \in DOMAIN T \/ (a > Count(u) /\ U[a].d >= m)
  BY DEF Continues
<1>2. /\ u \in UnitTypes /\ w \in UnitTypes /\ Count(u) \in Nat /\ \A a \in DOMAIN U : a \in Nat /\ U[a].d \in Nat
      /\ \A a \in DOMAIN T : a \in Nat /\ a <= Count(u)
  BY <1>1, SoundFacts
<1>3. Len(u.localVars) \in Nat /\ Len(w.localVars) \in Nat
  BY <1>2, FrameIs
<1>4. /\ Start(l) \in DOMAIN T /\ l.bodyStartIndex \in DOMAIN T /\ T[Start(l)].d = base
      /\ \A s \in Held(u) : s < base => s \in T[Start(l)].c
      /\ ByteAt(u, l.exitIndex - 1) = JUMP_IF_FALSE /\ Pending(u, T, l.exitIndex - 1, base)
      /\ \A a \in DOMAIN T : a >= Start(l) => T[a].d >= base
      /\ \A a \in DOMAIN T : a >= Start(l) /\ a < Count(u) /\ ByteAt(u, a) = LOOP => BackTarget(u, a) >= Start(l)
  BY DEF LoopOK
<1>5. \A s \in Held(w) : s < base => s \in U[Start(l)].c
  <2> SUFFICES ASSUME NEW s \in Held(w), s < base PROVE s \in Held(u)
    BY <1>1, <1>4
  <2>1. s \in Nat /\ s < Len(w.localVars)
    BY <1>3 DEF Held
  <2>2. s < Len(u.localVars)
    BY <1>3, <2>1
  <2> QED
    BY <2>1, <2>2 DEF Continues, Alike
<1>6. Pending(w, U, l.exitIndex - 1, base)
  BY <1>4, PendingContinues
<1>7. ByteAt(w, l.exitIndex - 1) = JUMP_IF_FALSE
  <2>1. l.exitIndex - 1 \in DOMAIN T /\ l.exitIndex - 1 < Count(u)
    BY <1>4 DEF Pending
  <2> QED
    BY <1>4, <2>1, OldCodeIs
<1>8. \A a \in DOMAIN U : a >= Start(l) => U[a].d >= base
  <2> SUFFICES ASSUME NEW a \in DOMAIN U, a >= Start(l) PROVE U[a].d >= base
    OBVIOUS
  <2>1. CASE a \in DOMAIN T
    BY <1>1, <1>4, <2>1
  <2>2. CASE U[a].d >= m
    BY <1>2, <2>2
  <2> QED
    BY <1>1, <2>1, <2>2
<1>9. \A a \in DOMAIN U : a >= Start(l) /\ a < Count(w) /\ ByteAt(w, a) = LOOP => BackTarget(w, a) >= Start(l)
  <2> SUFFICES ASSUME NEW a \in DOMAIN U, a >= Start(l), a < Count(w), ByteAt(w, a) = LOOP PROVE BackTarget(w, a) >= Start(l)
    OBVIOUS
  <2>1. CASE a >= Count(u)
    BY <2>1
  <2>2. CASE a < Count(u)
    <3>1. a \in DOMAIN T
      BY <1>1, <1>2, <2>2
    <3>2. ByteAt(u, a) = LOOP /\ InstrOK(u, DOMAIN T, a) /\ a \in Nat
      BY <1>1, <1>2, <2>2, <3>1, OldCodeIs DEF Sound, Chained
    <3>3. Width(u, a) >= 3
      BY <1>2, <3>2, WidthFacts
    <3> QED
      BY <1>4, <2>2, <3>1, <3>2, <3>3, OldCodeIs
  <2> QED
    BY <1>2, <2>1, <2>2
<1> QED
  BY <1>1, <1>4, <1>5, <1>6, <1>7, <1>8, <1>9 DEF LoopOK

\* The blocks that loops and tests go back to are the same in ss and tt.
SameBases(u, t, ss, tt) ==
  /\ \A j \in 1..Len(u.loops) : /\ u.loops[j].scopeDepth + 1 \in 0..Len(ss) /\ u.loops[j].scopeDepth + 1 \in 0..Len(tt)
                                /\ Base(ss, u.loops[j]) = Base(tt, u.loops[j])
  /\ \A i \in Ifs(t) : t[i].outer \in 0..Len(ss) /\ t[i].outer \in 0..Len(tt) /\ UpTo(ss, t[i].outer) = UpTo(tt, t[i].outer)

\* The code that is appended belongs to the innermost loop.
GoesOn(u, ss, t, T, P, w, tt, U, Q, m) ==
  /\ Continues(u, T, P, w, U, Q, m) /\ m \in Int
  /\ ScopesOK(u, ss) /\ ScopesOK(w, tt) /\ SameBases(u, t, ss, tt)
  /\ \A j \in 1..Len(u.loops) : Base(ss, u.loops[j]) <= m
  /\ \A a \in DOMAIN U : a >= Count(u) /\ a < Count(w) /\ ByteAt(w, a) = LOOP =>
       \A j \in 1..Len(u.loops) : BackTarget(w, a) >= Start(u.loops[j])
  /\ \A a \in DOMAIN U : a >= Count(u) /\ a < Count(w) /\ ByteAt(w, a) = END => BreakOK(w, tt, U, a)

LEMMA BasesAre ==
  ASSUME NEW u, NEW t, NEW ss, NEW w, NEW tt, ScopesOK(u, ss), ScopesOK(w, tt), SameBases(u, t, ss, tt)
  PROVE  /\ \A j \in 1..Len(u.loops) :
              /\ Base(ss, u.loops[j]) \in Nat /\ Base(ss, u.loops[j]) <= Len(u.localVars) /\ Base(ss, u.loops[j]) <= Len(w.localVars)
              /\ Base(tt, u.loops[j]) = Base(ss, u.loops[j]) /\ u.loops[j] \in LoopTypes
         /\ \A i \in Ifs(t) : /\ UpTo(ss, t[i].outer) \in Nat /\ UpTo(ss, t[i].outer) <= Len(w.localVars)
                              /\ UpTo(tt, t[i].outer) = UpTo(ss, t[i].outer)
<1>1. \A k \in 0..Len(ss) : UpTo(ss, k) \in Nat /\ UpTo(ss, k) <= Len(u.localVars)
  BY ScopesFacts
<1>2. \A k \in 0..Len(tt) : UpTo(tt, k) \in Nat /\ UpTo(tt, k) <= Len(w.localVars)
  BY ScopesFacts
<1>3. ASSUME NEW j \in 1..Len(u.loops)
      PROVE  /\ Base(ss, u.loops[j]) \in Nat /\ Base(ss, u.loops[j]) <= Len(u.localVars) /\ Base(ss, u.loops[j]) <= Len(w.localVars)
             /\ Base(tt, u.loops[j]) = Base(ss, u.loops[j]) /\ u.loops[j] \in LoopTypes
  <2>1. u.loops \in Seq(LoopTypes)
    BY UnitFacts DEF ScopesOK
  <2>2. u.loops[j] \in LoopTypes
    BY <2>1, ElementOfSeq
  <2>3. PICK k : k = u.loops[j].scopeDepth + 1
    OBVIOUS
  <2>4. k \in 0..Len(ss) /\ k \in 0..Len(tt) /\ Base(ss, u.loops[j]) = UpTo(ss, k) /\ Base(tt, u.loops[j]) = UpTo(tt, k)
        /\ UpTo(ss, k) = UpTo(tt, k)
    BY <2>3 DEF SameBases, Base
  <2> QED
    BY <1>1, <1>2, <2>2, <2>4
<1>4. ASSUME NEW i \in Ifs(t)
      PROVE  UpTo(ss, t[i].outer) \in Nat /\ UpTo(ss, t[i].outer) <= Len(w.localVars) /\ UpTo(tt, t[i].outer) = UpTo(ss, t[i].outer)
  <2>1. PICK k : k = t[i].outer
    OBVIOUS
  <2>2. k \in 0..Len(ss) /\ k \in 0..Len(tt) /\ UpTo(ss, k) = UpTo(tt, k)
    BY <2>1 DEF SameBases
  <2> QED
    BY <1>1, <1>2, <2>1, <2>2
<1> QED
  BY <1>3, <1>4

LEMMA ShapeGoesOn ==
  ASSUME NEW u, NEW ss, NEW t, NEW T, NEW P, NEW w, NEW tt, NEW U, NEW Q, NEW m,
         GoesOn(u, ss, t, T, P, w, tt, U, Q, m), Shape(u, ss, t, T)
  PROVE  Shape(w, tt, t, U)
<1>1. /\ Continues(u, T, P, w, U, Q, m) /\ m \in Int /\ ScopesOK(u, ss) /\ ScopesOK(w, tt) /\ SameBases(u, t, ss, tt)
      /\ \A j \in 1..Len(u.loops) : Base(ss, u.loops[j]) <= m
      /\ \A a \in DOMAIN U : a >= Count(u) /\ a < Count(w) /\ ByteAt(w, a) = LOOP =>
           \A j \in 1..Len(u.loops) : BackTarget(w, a) >= Start(u.loops[j])
      /\ \A a \in DOMAIN U : a >= Count(u) /\ a < Count(w) /\ ByteAt(w, a) = END => BreakOK(w, tt, U, a)
  BY DEF GoesOn
<1>2. /\ \A j \in 1..Len(u.loops) :
           /\ Base(ss, u.loops[j]) \in Nat /\ Base(ss, u.loops[j]) <= Len(u.localVars) /\ Base(ss, u.loops[j]) <= Len(w.localVars)
           /\ Base(tt, u.loops[j]) = Base(ss, u.loops[j]) /\ u.loops[j] \in LoopTypes
      /\ \A i \in Ifs(t) : /\ UpTo(ss, t[i].outer) \in Nat /\ UpTo(ss, t[i].outer) <= Len(w.localVars)
                           /\ UpTo(tt, t[i].outer) = UpTo(ss, t[i].outer)
  BY <1>1, BasesAre
<1>3. /\ w.loops = u.loops /\ Sound(u, T, P) /\ Sound(w, U, Q) /\ \A a \in DOMAIN U : a \in DOMAIN T \/ a > Count(u)
  BY <1>1 DEF Continues
<1>4. /\ Count(u) \in Nat /\ \A a \in DOMAIN U : a \in Nat
  BY <1>3, SoundFacts
<1>5. ASSUME NEW j \in 1..Len(w.loops) PROVE LoopOK(w, U, w.loops[j], Base(tt, w.loops[j]))
  <2>1. PICK l : l = u.loops[j]
    OBVIOUS
  <2>2. PICK base : base = Base(ss, l)
    OBVIOUS
  <2>3. /\ l \in LoopTypes /\ base \in Nat /\ LoopOK(u, T, l, base) /\ base <= m /\ base <= Len(u.localVars)
        /\ base <= Len(w.localVars)
        /\ \A a \in DOMAIN U : a >= Count(u) /\ a < Count(w) /\ ByteAt(w, a) = LOOP => BackTarget(w, a) >= Start(l)
    BY <1>1, <1>2, <1>3, <2>1, <2>2 DEF Shape
  <2>4. LoopOK(w, U, l, base)
    BY <1>1, <2>3, LoopContinues
  <2> QED
    BY <1>2, <1>3, <2>1, <2>2, <2>4
<1>6. ASSUME NEW i \in Ifs(t) PROVE IfOK(w, U, t[i].at - 1, UpTo(tt, t[i].outer))
  <2>1. IfOK(u, T, t[i].at - 1, UpTo(ss, t[i].outer))
    BY DEF Shape
  <2>2. t[i].at - 1 \in DOMAIN T /\ t[i].at - 1 < Count(u)
    BY <2>1 DEF IfOK, Pending
  <2>3. ByteAt(w, t[i].at - 1) = ByteAt(u, t[i].at - 1)
    BY <1>1, <2>2, OldCodeIs
  <2>4. Pending(w, U, t[i].at - 1, UpTo(ss, t[i].outer))
    BY <1>1, <1>2, <2>1, PendingContinues DEF IfOK
  <2> QED
    BY <1>2, <2>1, <2>3, <2>4 DEF IfOK
<1>7. ASSUME NEW a \in DOMAIN U, a < Count(w), ByteAt(w, a) = END PROVE BreakOK(w, tt, U, a)
  <2>1. CASE a >= Count(u)
    BY <1>1, <1>7, <2>1
  <2>2. CASE ~(a >= Count(u))
    <3>1. a \in DOMAIN T /\ a < Count(u)
      BY <1>3, <1>4, <2>2
    <3>2. ByteAt(u, a) = END
      BY <1>1, <1>7, <3>1, OldCodeIs
    <3>3. PICK j \in 1..Len(u.loops) : Belongs(u, a, j) /\ Pending(u, T, a, Base(ss, u.loops[j]))
      BY <3>1, <3>2 DEF Shape, BreakOK
    <3>4. Pending(w, U, a, Base(ss, u.loops[j]))
      BY <1>1, <1>2, <3>3, PendingContinues
    <3>5. Belongs(w, a, j)
      BY <1>3, <3>3 DEF Belongs
    <3> QED
      BY <1>2, <1>3, <3>4, <3>5 DEF BreakOK
  <2> QED
    BY <2>1, <2>2
<1>8. \A i, j \in 1..Len(w.loops) : i < j => w.loops[i].bodyStartIndex <= Start(w.loops[j])
  BY <1>3 DEF Shape
<1> QED
  BY <1>5, <1>6, <1>7, <1>8 DEF Shape

LEMMA WaitingSame ==
  ASSUME NEW u, NEW w, w.loops = u.loops, NEW t
  PROVE  Waiting(w, t) = Waiting(u, t)
BY DEF Waiting

LEMMA JumpsGoOn ==
  ASSUME NEW u, NEW t, NEW T, NEW P, NEW w, NEW U, NEW Q, NEW m, Continues(u, T, P, w, U, Q, m)
  PROVE  \A jm, en : JumpsOK(u, t, T, jm, en) => JumpsOK(w, t, U, jm, en)
<1> SUFFICES ASSUME NEW jm, NEW en, JumpsOK(u, t, T, jm, en) PROVE JumpsOK(w, t, U, jm, en)
  OBVIOUS
<1>1. w.loops = u.loops /\ Sound(u, T, P) /\ Sound(w, U, Q) /\ Count(u) <= Count(w)
  BY DEF Continues
<1>2. Count(u) \in Nat /\ Count(w) \in Nat /\ u \in UnitTypes /\ \A a \in DOMAIN T : a \in Nat
  BY <1>1, SoundFacts
<1>3. ASSUME NEW a \in DOMAIN jm PROVE JumpOK(w, t, U, en, a, jm[a])
  <2>1. JumpOK(u, t, T, en, a, jm[a])
    BY DEF JumpsOK
  <2>2. a \in DOMAIN T /\ a < Count(u)
    BY <2>1 DEF JumpOK
  <2>3. /\ a \in DOMAIN U /\ a < Count(w) /\ ByteAt(w, a) = ByteAt(u, a)
        /\ Width(u, a) >= 3 => Target(w, a) = Target(u, a)
    BY <2>2, OldCodeIs
  <2>4. CASE ByteAt(u, a) = END
    <3>1. ByteAt(u, a) # JUMP
      BY <2>4, OpcodesDiffer
    <3>2. PICK j \in 1..Len(u.loops) : Belongs(u, a, j) /\ jm[a] = Start(u.loops[j])
      BY <2>1, <3>1 DEF JumpOK
    <3>3. Belongs(w, a, j) /\ jm[a] = Start(w.loops[j]) /\ j \in 1..Len(w.loops)
      BY <1>1, <3>2 DEF Belongs
    <3> QED
      BY <2>3, <2>4, <3>3 DEF JumpOK
  <2>5. CASE ByteAt(u, a) # END
    <3>1. ByteAt(u, a) = JUMP /\ a \notin Waiting(u, t) /\ jm[a] \in DOMAIN en /\ Target(u, a) = en[jm[a]]
      BY <2>1, <2>5 DEF JumpOK
    <3>2. InstrOK(u, DOMAIN T, a)
      BY <1>1, <2>2 DEF Sound, Chained
    <3>3. Width(u, a) >= 3
      BY <1>2, <2>2, <3>1, <3>2, WidthFacts
    <3>4. Waiting(w, t) = Waiting(u, t)
      BY <1>1, WaitingSame
    <3> QED
      BY <2>3, <3>1, <3>3, <3>4 DEF JumpOK
  <2> QED
    BY <2>4, <2>5
<1>4. \A x \in DOMAIN en : x \in Int /\ x < Count(u)
  BY DEF JumpsOK
<1>5. (\A x \in DOMAIN en : x \in Int /\ x < Count(w)) /\ \A j \in 1..Len(w.loops) : Start(w.loops[j]) \notin DOMAIN en
  BY <1>1, <1>2, <1>4 DEF JumpsOK
<1> QED
  BY <1>3, <1>5 DEF JumpsOK

-----------------------------------------------------------------------------
(***************************************************************************)
(* Operands are written.                                                   *)
(***************************************************************************)
Patched(u, T, P, w, Q, R) == Sound(u, T, P) /\ Sound(w, T, Q) /\ SameBut(u, w) /\ Rewritten(u, w, DOMAIN T, R)

LEMMA PatchedCodeIs ==
  ASSUME NEW u, NEW T, NEW P, NEW w, NEW Q, NEW R, Patched(u, T, P, w, Q, R), NEW a \in DOMAIN T, a < Count(u)
  PROVE  /\ a \in Nat /\ a < Count(w) /\ \A s : Lands(ByteAt(w, a), s) = Lands(ByteAt(u, a), s)
         /\ ByteAt(u, a) # END => ByteAt(w, a) = ByteAt(u, a)
         /\ ByteAt(u, a) = END /\ a \in R => ByteAt(w, a) = JUMP
         /\ a \notin R => /\ ByteAt(w, a) = ByteAt(u, a)
                          /\ Width(u, a) >= 3 => BackTarget(w, a) = BackTarget(u, a) /\ Target(w, a) = Target(u, a)
<1>1. Sound(u, T, P) /\ Rewritten(u, w, DOMAIN T, R)
  BY DEF Patched
<1>2. u \in UnitTypes /\ w \in UnitTypes /\ Count(u) \in Nat /\ Count(w) = Count(u) /\ a \in Nat /\ MoreUpvalues(u, w)
  BY <1>1, SoundFacts DEF Rewritten, MoreUpvalues
<1>3. InstrOK(u, DOMAIN T, a) /\ Chained(u, DOMAIN T)
  BY <1>1, <1>2 DEF Sound, Chained
<1>4. CASE a \notin R
  <2>1. Kept(u, w, a)
    BY <1>1, <1>2, <1>3, <1>4, RewrittenKeeps
  <2> QED
    BY <1>2, <1>3, <1>4, <2>1, KeptIs DEF BackTarget, Target
<1>5. CASE a \in R
  <2>1. (ByteAt(u, a) # END => ByteAt(w, a) = ByteAt(u, a)) /\ (ByteAt(u, a) = END => ByteAt(w, a) = JUMP)
    BY <1>1, <1>5 DEF Rewritten
  <2>2. \A s : Lands(JUMP, s) = Lands(END, s)
    BY OpcodesDiffer DEF Lands
  <2> QED
    BY <1>2, <1>5, <2>1, <2>2
<1> QED
  BY <1>4, <1>5

LEMMA ShapePatched ==
  ASSUME NEW u, NEW T, NEW P, NEW w, NEW Q, NEW R, Patched(u, T, P, w, Q, R)
  PROVE  \A ss, t : Shape(u, ss, t, T) => Shape(w, ss, t, T)
<1> SUFFICES ASSUME NEW ss, NEW t, Shape(u, ss, t, T) PROVE Shape(w, ss, t, T)
  OBVIOUS
<1>1. /\ Sound(u, T, P) /\ Rewritten(u, w, DOMAIN T, R) /\ w.loops = u.loops /\ w.localVars = u.localVars
  BY DEF Patched, SameBut
<1>2. u \in UnitTypes /\ w \in UnitTypes /\ Count(u) \in Nat /\ Count(w) = Count(u) /\ Held(w) = Held(u)
  BY <1>1, SoundFacts DEF Rewritten, Held
<1>3. ASSUME NEW a, NEW n, Pending(u, T, a, n) PROVE Pending(w, T, a, n)
  <2>1. a \in DOMAIN T /\ a < Count(u)
    BY <1>3 DEF Pending
  <2> QED
    BY <1>2, <1>3, <2>1, PatchedCodeIs DEF Pending
<1>4. ASSUME NEW j \in 1..Len(w.loops) PROVE LoopOK(w, T, w.loops[j], Base(ss, w.loops[j]))
  <2>1. PICK l : l = u.loops[j]
    OBVIOUS
  <2>2. PICK base : base = Base(ss, l)
    OBVIOUS
  <2>3. LoopOK(u, T, l, base)
    BY <1>1, <2>1, <2>2 DEF Shape
  <2>4. ByteAt(w, l.exitIndex - 1) = JUMP_IF_FALSE
    <3>1. ByteAt(u, l.exitIndex - 1) = JUMP_IF_FALSE /\ l.exitIndex - 1 \in DOMAIN T /\ l.exitIndex - 1 < Count(u)
      BY <2>3 DEF LoopOK, Pending
    <3> QED
      BY <3>1, PatchedCodeIs, OpcodesDiffer
  <2>5. ASSUME NEW a \in DOMAIN T, a >= Start(l), a < Count(w), ByteAt(w, a) = LOOP PROVE BackTarget(w, a) >= Start(l)
    <3>1. a < Count(u) /\ a \in Nat
      BY <1>1, <1>2, <2>5, SoundFacts
    <3>2. a \notin R /\ ByteAt(u, a) = LOOP
      <4>1. a \notin R
        BY <1>1, <2>5, OpcodesDiffer DEF Rewritten, Branching
      <4> QED
        BY <2>5, <3>1, <4>1, PatchedCodeIs
    <3>3. InstrOK(u, DOMAIN T, a)
      BY <1>1, <3>1 DEF Sound, Chained
    <3>4. Width(u, a) >= 3
      BY <1>2, <3>1, <3>2, <3>3, WidthFacts
    <3>5. BackTarget(w, a) = BackTarget(u, a)
      BY <3>1, <3>2, <3>4, PatchedCodeIs
    <3> QED
      BY <2>3, <2>5, <3>1, <3>2, <3>5 DEF LoopOK
  <2>6. Pending(w, T, l.exitIndex - 1, base)
    BY <1>3, <2>3 DEF LoopOK
  <2>7. LoopOK(w, T, l, base)
    BY <1>2, <2>3, <2>4, <2>5, <2>6 DEF LoopOK
  <2> QED
    BY <1>1, <2>1, <2>2, <2>7
<1>5. ASSUME NEW i \in Ifs(t) PROVE IfOK(w, T, t[i].at - 1, UpTo(ss, t[i].outer))
  <2>1. IfOK(u, T, t[i].at - 1, UpTo(ss, t[i].outer))
    BY DEF Shape
  <2>2. ByteAt(u, t[i].at - 1) # END /\ t[i].at - 1 \in DOMAIN T /\ t[i].at - 1 < Count(u)
    BY <2>1, OpcodesDiffer DEF IfOK, Pending, Branching
  <2>3. ByteAt(w, t[i].at - 1) = ByteAt(u, t[i].at - 1)
    BY <2>2, PatchedCodeIs
  <2> QED
    BY <1>3, <2>1, <2>3 DEF IfOK
<1>6. ASSUME NEW a \in DOMAIN T, a < Count(w), ByteAt(w, a) = END PROVE BreakOK(w, ss, T, a)
  <2>1. a < Count(u)
    BY <1>2, <1>6
  <2>2. ByteAt(u, a) = END
    BY <1>6, <2>1, PatchedCodeIs
  <2>3. PICK j \in 1..Len(u.loops) : Belongs(u, a, j) /\ Pending(u, T, a, Base(ss, u.loops[j]))
    BY <2>1, <2>2 DEF Shape, BreakOK
  <2>4. Belongs(w, a, j) /\ Pending(w, T, a, Base(ss, w.loops[j]))
    BY <1>1, <1>3, <2>3 DEF Belongs
  <2> QED
    BY <1>1, <2>4 DEF BreakOK
<1> QED
  BY <1>1, <1>4, <1>5, <1>6 DEF Shape

\* The jumps of breaks that are complete are not among the waiting ones.
LEMMA JumpPatched ==
  ASSUME NEW u, NEW T, NEW P, NEW w, NEW Q, NEW R, Patched(u, T, P, w, Q, R), NEW t, NEW en, NEW a, NEW x
  PROVE  JumpOK(u, t, T, en, a, x) /\ a \notin R => JumpOK(w, t, T, en, a, x)
<1> SUFFICES ASSUME JumpOK(u, t, T, en, a, x), a \notin R PROVE JumpOK(w, t, T, en, a, x)
  OBVIOUS
<1>1. /\ Sound(u, T, P) /\ w.loops = u.loops
  BY DEF Patched, SameBut
<1>2. u \in UnitTypes /\ a \in DOMAIN T /\ a < Count(u) /\ Waiting(w, t) = Waiting(u, t)
  BY <1>1, SoundFacts, WaitingSame DEF JumpOK
<1>3. /\ a \in Nat /\ a < Count(w) /\ ByteAt(w, a) = ByteAt(u, a)
      /\ Width(u, a) >= 3 => Target(w, a) = Target(u, a)
  BY <1>2, PatchedCodeIs
<1>4. InstrOK(u, DOMAIN T, a)
  BY <1>1, <1>2, <1>3 DEF Sound, Chained
<1>5. ByteAt(u, a) = JUMP => Target(w, a) = Target(u, a)
  BY <1>2, <1>3, <1>4, WidthFacts
<1>6. \A j : Belongs(u, a, j) => Belongs(w, a, j)
  BY <1>1 DEF Belongs
<1> QED
  BY <1>1, <1>2, <1>3, <1>5, <1>6 DEF JumpOK

LEMMA JumpsPatched ==
  ASSUME NEW u, NEW T, NEW P, NEW w, NEW Q, NEW p, Patched(u, T, P, w, Q, {p}), NEW t, NEW jm, NEW en, JumpsOK(u, t, T, jm, en),
         p \in Waiting(u, t), ByteAt(u, p) # END
  PROVE  JumpsOK(w, t, T, jm, en)
<1>1. w.loops = u.loops /\ Count(w) = Count(u)
  BY DEF Patched, SameBut, Rewritten
<1>2. ASSUME NEW a \in DOMAIN jm PROVE JumpOK(w, t, T, en, a, jm[a])
  <2>1. JumpOK(u, t, T, en, a, jm[a])
    BY DEF JumpsOK
  <2>2. a # p
    BY <2>1 DEF JumpOK
  <2> QED
    BY <2>1, <2>2, JumpPatched
<1> QED
  BY <1>1, <1>2 DEF JumpsOK

LEMMA SoundWeaker ==
  ASSUME NEW u, NEW T, NEW P, Sound(u, T, P), NEW Q, P \subseteq Q
  PROVE  Sound(u, T, Q)
<1>1. ASSUME NEW a \in DOMAIN T, a < Count(u) PROVE FlowOK(u, T, Q, a)
  <2>1. FlowOK(u, T, P, a) /\ (a \notin Q => a \notin P)
    BY <1>1 DEF Sound
  <2> QED
    BY <2>1 DEF FlowOK
<1> QED
  BY <1>1 DEF Sound

\* Only the code and the variables matter for what is remembered.
LEMMA SameCode ==
  ASSUME NEW u, NEW w, w.code = u.code, w.localVars = u.localVars
  PROVE  /\ Count(w) = Count(u) /\ Held(w) = Held(u) /\ Frame(w) = Frame(u)
         /\ \A a : ByteAt(w, a) = ByteAt(u, a) /\ Target(w, a) = Target(u, a) /\ BackTarget(w, a) = BackTarget(u, a)
         /\ \A T, a, n : /\ Pending(u, T, a, n) => Pending(w, T, a, n)
                         /\ IfOK(u, T, a, n) => IfOK(w, T, a, n)
                         /\ LoopOK(u, T, a, n) => LoopOK(w, T, a, n)
<1>1. /\ Count(w) = Count(u) /\ Held(w) = Held(u) /\ Frame(w) = Frame(u)
      /\ \A a : ByteAt(w, a) = ByteAt(u, a)
  BY DEF Count, Held, Frame, ByteAt
<1>2. \A a : Target(w, a) = Target(u, a) /\ BackTarget(w, a) = BackTarget(u, a)
  BY <1>1 DEF Target, BackTarget, ShortAt
<1>3. \A T, a, n : Pending(u, T, a, n) => Pending(w, T, a, n)
  BY <1>1 DEF Pending
<1>4. \A T, a, n : IfOK(u, T, a, n) => IfOK(w, T, a, n)
  BY <1>1, <1>3 DEF IfOK
<1>5. ASSUME NEW T, NEW l, NEW n, LoopOK(u, T, l, n) PROVE LoopOK(w, T, l, n)
  BY <1>1, <1>2, <1>3, <1>5 DEF LoopOK
<1> QED
  BY <1>1, <1>2, <1>3, <1>4, <1>5

LEMMA WaitingFacts ==
  ASSUME NEW u, NEW ss, NEW t, NEW T, Shape(u, ss, t, T), NEW a \in Waiting(u, t)
  PROVE  a \in DOMAIN T /\ a < Count(u) /\ ByteAt(u, a) \in Branching \union {JUMP} /\ ByteAt(u, a) # END
<1>1. CASE \E i \in Ifs(t) : a = t[i].at - 1
  BY <1>1, OpcodesDiffer DEF Shape, IfOK, Pending, Branching
<1>2. CASE \E j \in 1..Len(u.loops) : a = u.loops[j].exitIndex - 1
  BY <1>2, OpcodesDiffer DEF Shape, LoopOK, Pending, Branching
<1> QED
  BY <1>1, <1>2 DEF Waiting

\* What is remembered of the blocks being read when the innermost one is a loop's and ends.
LoopEnds(u, ss, t, T, jm, en) ==
  /\ Sound(u, T, Waiting(u, t)) /\ T[Count(u)] = Frame(u) /\ ScopesOK(u, ss) /\ Shape(u, ss, t, T) /\ JumpsOK(u, t, T, jm, en)
  /\ t \in Seq(TodoTypes) /\ t # <<>> /\ Last(t).kind \in LoopKinds /\ u.loops # <<>>
  /\ SameBases(u, t, ss, ss) /\ Base(ss, Last(u.loops)) = Len(u.localVars)
  /\ Count(u) + 3 < BYTE * BYTE

LEMMA LoopEndsFacts ==
  ASSUME NEW u, NEW ss, NEW t, NEW T, NEW jm, NEW en, LoopEnds(u, ss, t, T, jm, en)
  PROVE  LET n == Len(u.loops)
             l == Last(u.loops)
         IN  /\ u \in UnitTypes /\ u.loops \in Seq(LoopTypes) /\ n \in Nat /\ n \in 1..n /\ l = u.loops[n] /\ l \in LoopTypes
             /\ Len(Front(u.loops)) = n - 1 /\ \A j \in 1..n - 1 : Front(u.loops)[j] = u.loops[j]
             /\ LoopOK(u, T, l, Len(u.localVars)) /\ Len(u.localVars) \in Nat
             /\ \A j \in 1..n : Start(u.loops[j]) \in Nat /\ Start(l) >= Start(u.loops[j]) /\ (j # n => Start(l) # Start(u.loops[j]))
             /\ Start(l) <= l.bodyStartIndex /\ l.bodyStartIndex \in Nat
             /\ \A a : Belongs(u, a, n) => a >= l.bodyStartIndex
             /\ \A a \in Nat : \A j \in 1..n : Belongs(u, a, j) /\ a >= l.bodyStartIndex => j = n
<1> DEFINE n == Len(u.loops)
           l == Last(u.loops)
<1>1. u \in UnitTypes /\ u.loops \in Seq(LoopTypes) /\ Sound(u, T, Waiting(u, t))
  BY UnitFacts DEF LoopEnds, ScopesOK
<1>2. n \in Nat /\ n > 0 /\ l = u.loops[n] /\ l \in LoopTypes /\ Len(Front(u.loops)) = n - 1 /\ \A j \in 1..n - 1 : Front(u.loops)[j] = u.loops[j]
  BY <1>1, LastIs DEF LoopEnds
<1>3. n \in 1..n
  BY <1>2
<1> HIDE DEF n, l
<1>4. LoopOK(u, T, l, Len(u.localVars)) /\ Len(u.localVars) \in Nat
  BY <1>1, <1>2, <1>3, FrameIs DEF LoopEnds, Shape, n, l
<1>5. ASSUME NEW j \in 1..n PROVE Start(u.loops[j]) \in Nat /\ u.loops[j].bodyStartIndex \in Nat /\ Start(u.loops[j]) < u.loops[j].bodyStartIndex
  <2>1. PICK k : k = u.loops[j]
    OBVIOUS
  <2>2. k \in LoopTypes
    BY <1>1, <2>1, ElementOfSeq DEF n
  <2>3. LoopOK(u, T, k, Base(ss, k))
    BY <2>1 DEF LoopEnds, Shape, n
  <2>4. Start(k) \in Nat
    BY <1>1, <2>3, SoundFacts DEF LoopOK
  <2>5. k.exitIndex \in Int /\ k.bodyStartIndex \in Nat
    BY <2>2 DEF LoopTypes
  <2>6. Start(k) <= k.exitIndex - 1 /\ k.exitIndex - 1 < k.bodyStartIndex
    BY <2>3 DEF LoopOK
  <2> QED
    BY <2>1, <2>4, <2>5, <2>6
<1>6. ASSUME NEW j \in 1..n PROVE Start(l) >= Start(u.loops[j]) /\ (j # n => Start(l) # Start(u.loops[j]))
  <2>1. CASE j = n
    BY <1>2, <1>5, <2>1
  <2>2. CASE j # n
    <3>1. j < n
      BY <1>2, <2>2
    <3>2. u.loops[j].bodyStartIndex <= Start(l)
      BY <1>2, <1>3, <3>1 DEF LoopEnds, Shape, n
    <3> QED
      BY <1>2, <1>3, <1>5, <3>2
  <2> QED
    BY <2>1, <2>2
<1>7. Start(l) <= l.bodyStartIndex /\ l.bodyStartIndex \in Nat
  BY <1>2, <1>3, <1>5
<1>8. \A a : Belongs(u, a, n) => a >= l.bodyStartIndex
  BY <1>2 DEF Belongs
<1>9. ASSUME NEW a \in Nat, NEW j \in 1..n, Belongs(u, a, j), a >= l.bodyStartIndex PROVE j = n
  <2> SUFFICES ASSUME j # n PROVE FALSE
    OBVIOUS
  <2>1. n > j
    BY <1>2
  <2>2. a < Start(l)
    BY <1>2, <1>3, <1>9, <2>1 DEF Belongs, n
  <2> QED
    BY <1>3, <1>5, <1>7, <1>9, <2>2, <1>2
<1> QED
  BY <1>1, <1>2, <1>3, <1>4, <1>5, <1>6, <1>7, <1>8, <1>9 DEF n, l

\* The jump back at the end of a loop, or that of continue at a place where only the variables
\* around the loop are on the stack.
LEMMA LoopJumpsBack ==
  ASSUME NEW u, NEW ss, NEW t, NEW T, NEW jm, NEW en, LoopEnds(u, ss, t, T, jm, en)
  PROVE  LET x == JumpBack(u)
         IN  /\ SameBut(u, x) /\ x.stackSlotNum = u.stackSlotNum /\ x.maxSlots >= u.maxSlots /\ Count(x) = Count(u) + 3
             /\ \E U : /\ Sound(x, U, Waiting(u, t)) /\ U[Count(x)] = Frame(u) /\ Shape(x, ss, t, U) /\ JumpsOK(x, t, U, jm, en)
                       /\ DOMAIN T \subseteq DOMAIN U /\ \A a \in DOMAIN T : U[a] = T[a]
<1> DEFINE n == Len(u.loops)
           l == Last(u.loops)
           x == JumpBack(u)
           m == Len(u.localVars)
           W == Waiting(u, t)
<1>1. /\ u \in UnitTypes /\ l = u.loops[n] /\ LoopOK(u, T, l, m) /\ m \in Nat /\ n \in 1..n
      /\ \A j \in 1..n : Start(u.loops[j]) \in Nat /\ Start(l) >= Start(u.loops[j])
  BY LoopEndsFacts
<1>2. /\ Sound(u, T, W) /\ T[Count(u)] = Frame(u) /\ ScopesOK(u, ss) /\ Shape(u, ss, t, T) /\ JumpsOK(u, t, T, jm, en)
      /\ u.loops # <<>> /\ SameBases(u, t, ss, ss) /\ Count(u) + 3 < BYTE * BYTE
  BY DEF LoopEnds
<1>3. Frame(u) \in Stacks /\ Frame(u).d = m /\ Frame(u).c = Held(u) /\ \A s \in Held(u) : s \in Nat /\ s < m
  <2>1. \A s \in Held(u) : s \in Nat /\ s < m
    BY <1>1 DEF Held
  <2> QED
    BY <1>1, <2>1, FrameIs
<1>4. Start(l) \in DOMAIN T /\ Leads(T[Count(u)], T[Start(l)])
  BY <1>1, <1>2, <1>3 DEF LoopOK, Leads
<1>5. m <= u.stackSlotNum /\ Count(u) \in Nat /\ \A a \in DOMAIN T : a \in Nat /\ a <= Count(u)
  BY <1>2, <1>3, SoundFacts
<1>6. /\ \E U : Sound(x, U, W) /\ Added(u, T, x, U, LOOP, Frame(u))
      /\ BackTarget(x, Count(u)) = Start(l) /\ SameBut(u, x)
      /\ x.stackSlotNum = u.stackSlotNum /\ x.maxSlots >= u.maxSlots
  BY <1>2, <1>3, <1>4, <1>5, JumpBackAdded
<1> HIDE DEF n, l, x, W
<1>7. PICK U : Sound(x, U, W) /\ Added(u, T, x, U, LOOP, Frame(u))
  BY <1>6
<1>8. /\ Count(x) = Count(u) + 3 /\ ByteAt(x, Count(u)) = LOOP /\ \A i \in 1..Count(u) : x.code[i] = u.code[i]
      /\ DOMAIN U = DOMAIN T \union {Count(x)} /\ U[Count(x)] = Frame(u) /\ \A a \in DOMAIN T : U[a] = T[a]
  BY <1>7 DEF Added
<1>9. x.loops = u.loops /\ Alike(u, x) /\ MoreUpvalues(u, x)
  BY <1>6 DEF SameBut, Alike, Held, MoreUpvalues
<1>10. Continues(u, T, W, x, U, W, m)
  <2>1. \A a \in DOMAIN U : a \in DOMAIN T \/ (a > Count(u) /\ U[a].d >= m)
    BY <1>1, <1>3, <1>5, <1>8
  <2>2. Count(u) <= Count(x)
    BY <1>5, <1>8
  <2> QED
    BY <1>2, <1>7, <1>8, <1>9, <2>1, <2>2 DEF Continues
<1>11. ASSUME NEW a \in DOMAIN U, a >= Count(u), a < Count(x) PROVE a = Count(u)
  <2>1. a \in DOMAIN T
    BY <1>5, <1>8, <1>11
  <2> QED
    BY <1>5, <1>11, <2>1
<1>12. ScopesOK(x, ss)
  BY <1>2, <1>6, ScopesSame
<1>13. \A j \in 1..Len(u.loops) : Base(ss, u.loops[j]) <= m
  BY <1>2, BasesAre
<1>14. GoesOn(u, ss, t, T, W, x, ss, U, W, m)
  <2>1. \A a \in DOMAIN U : a >= Count(u) /\ a < Count(x) /\ ByteAt(x, a) = LOOP =>
          \A j \in 1..Len(u.loops) : BackTarget(x, a) >= Start(u.loops[j])
    BY <1>1, <1>6, <1>11 DEF n
  <2>2. \A a \in DOMAIN U : ~(a >= Count(u) /\ a < Count(x) /\ ByteAt(x, a) = END)
    BY <1>8, <1>11, OpcodesDiffer
  <2> QED
    BY <1>1, <1>2, <1>10, <1>12, <1>13, <2>1, <2>2 DEF GoesOn
<1>15. Shape(x, ss, t, U)
  BY <1>2, <1>14, ShapeGoesOn
<1>16. JumpsOK(x, t, U, jm, en)
  BY <1>2, <1>10, JumpsGoOn
<1> QED
  BY <1>6, <1>7, <1>8, <1>15, <1>16 DEF x, W

\* All but the exit of the innermost loop.
Others(u, t) == Waiting(u, t) \ {Last(u.loops).exitIndex - 1}

\* The exit of the loop is patched.
LEMMA LoopExits ==
  ASSUME NEW u, NEW ss, NEW t, NEW T, NEW jm, NEW en, LoopEnds(u, ss, t, T, jm, en)
  PROVE  LET l == Last(u.loops)
             y == PatchPlaceholder(JumpBack(u), l.exitIndex)
         IN  /\ SameBut(u, y) /\ y.stackSlotNum = u.stackSlotNum /\ y.maxSlots >= u.maxSlots /\ Count(y) = Count(u) + 3
             /\ \E U : /\ Sound(y, U, Others(u, t)) /\ U[Count(y)] = Frame(u)
                       /\ Shape(y, ss, t, U) /\ JumpsOK(y, t, U, jm, en)
                       /\ DOMAIN T \subseteq DOMAIN U /\ \A a \in DOMAIN T : U[a] = T[a]
<1> DEFINE n == Len(u.loops)
           l == Last(u.loops)
           x == JumpBack(u)
           m == Len(u.localVars)
           W == Waiting(u, t)
           y == PatchPlaceholder(x, l.exitIndex)
           p == l.exitIndex - 1
<1>1. /\ u \in UnitTypes /\ l = u.loops[n] /\ l \in LoopTypes /\ n \in 1..n /\ m \in Nat /\ Base(ss, l) = m
  BY LoopEndsFacts DEF LoopEnds

<1>2. /\ SameBut(u, x) /\ x.stackSlotNum = u.stackSlotNum /\ x.maxSlots >= u.maxSlots /\ Count(x) = Count(u) + 3
      /\ \E U : /\ Sound(x, U, W) /\ U[Count(x)] = Frame(u) /\ Shape(x, ss, t, U) /\ JumpsOK(x, t, U, jm, en)
                /\ DOMAIN T \subseteq DOMAIN U /\ \A a \in DOMAIN T : U[a] = T[a]
  BY LoopJumpsBack
<1> HIDE DEF n, l, x, W, y
<1>3. PICK U : /\ Sound(x, U, W) /\ U[Count(x)] = Frame(u) /\ Shape(x, ss, t, U) /\ JumpsOK(x, t, U, jm, en)
               /\ DOMAIN T \subseteq DOMAIN U /\ \A a \in DOMAIN T : U[a] = T[a]
  BY <1>2
<1>4. x.loops = u.loops /\ x.localVars = u.localVars /\ W = Waiting(x, t)
  <2>1. x.loops = u.loops /\ x.localVars = u.localVars
    BY <1>2 DEF SameBut
  <2> QED
    BY <2>1, WaitingSame DEF W
<1>5. ByteAt(x, p) = JUMP_IF_FALSE /\ Pending(x, U, p, m)
  BY <1>1, <1>3, <1>4 DEF Shape, LoopOK, n
<1>6. /\ p \in DOMAIN U /\ p < Count(x) /\ ByteAt(x, p) \in Branching \union {JUMP} /\ ByteAt(x, p) # END
      /\ Lands(ByteAt(x, p), U[p]).d = m /\ \A s \in U[p].c : s \in Held(x)
  BY <1>5, OpcodesDiffer DEF Pending, Branching
<1>7. Leads(Lands(ByteAt(x, p), U[p]), U[Count(x)])
  <2>1. Held(x) = Held(u)
    BY <1>4 DEF Held
  <2>2. Lands(ByteAt(x, p), U[p]).c = U[p].c
    BY DEF Lands
  <2>3. U[Count(x)].d = m /\ U[Count(x)].c = Held(u)
    BY <1>1, <1>3, FrameIs
  <2> QED
    BY <1>6, <2>1, <2>2, <2>3 DEF Leads
<1>8. p + 1 = l.exitIndex
  BY <1>1 DEF LoopTypes
<1>9. Count(x) < BYTE * BYTE
  BY <1>2 DEF LoopEnds
<1> HIDE DEF p
<1>10. /\ Sound(y, U, W \ {p}) /\ SameBut(x, y) /\ y.stackSlotNum = x.stackSlotNum /\ y.maxSlots = x.maxSlots
       /\ Rewritten(x, y, DOMAIN U, {p}) /\ Count(y) = Count(x)
  <2>1. Sound(x, U, W) /\ p \in DOMAIN U /\ p < Count(x) /\ ByteAt(x, p) \in Branching \union {JUMP}
    BY <1>3, <1>6
  <2> DEFINE z == PatchPlaceholder(x, p + 1)
  <2>2. /\ Sound(z, U, W \ {p}) /\ SameBut(x, z) /\ z.stackSlotNum = x.stackSlotNum /\ z.maxSlots = x.maxSlots
        /\ Rewritten(x, z, DOMAIN U, {p}) /\ Count(z) = Count(x)
    <3> HIDE DEF z
    <3> QED
      BY <2>1, <1>7, <1>9, PatchIs DEF z
  <2>3. z = y
    BY <1>8 DEF y
  <2> HIDE DEF z
  <2> QED
    BY <2>2, <2>3
<1>11. Patched(x, U, W, y, W \ {p}, {p})
  BY <1>3, <1>10 DEF Patched
<1>12. Shape(y, ss, t, U)
  BY <1>3, <1>11, ShapePatched
<1>13. p \in Waiting(x, t)
  BY <1>1, <1>4 DEF Waiting, n, p
<1>14. JumpsOK(y, t, U, jm, en)
  BY <1>3, <1>6, <1>11, <1>13, JumpsPatched
<1>15. SameBut(u, y)
  BY <1>2, <1>10, SameButTwice
<1>16. Others(u, t) = W \ {p}
  BY DEF Others, W, p, l
<1> QED
  BY <1>2, <1>3, <1>10, <1>12, <1>14, <1>15, <1>16 DEF x, y, l

-----------------------------------------------------------------------------
\* What does not belong to the loop that ends is waiting as before.
LEMMA WaitingLeft ==
  ASSUME NEW u, NEW ss, NEW t, NEW T, NEW jm, NEW en, LoopEnds(u, ss, t, T, jm, en),
         NEW v, v.loops = Front(u.loops)
  PROVE  /\ Others(u, t) \subseteq Waiting(v, Front(t))
         /\ Waiting(v, Front(t)) \subseteq Waiting(u, t)
         /\ Ifs(Front(t)) = Ifs(t) /\ \A i \in Ifs(t) : Front(t)[i] = t[i]
<1> DEFINE n == Len(u.loops)
<1>1. n \in Nat /\ n \in 1..n /\ Last(u.loops) = u.loops[n] /\ Len(v.loops) = n - 1 /\ \A j \in 1..n - 1 : v.loops[j] = u.loops[j]
  BY LoopEndsFacts
<1>2. /\ Len(t) \in Nat /\ Len(t) > 0 /\ Last(t) = t[Len(t)] /\ Len(Front(t)) = Len(t) - 1
      /\ \A i \in 1..Len(t) - 1 : Front(t)[i] = t[i]
  BY LastIs DEF LoopEnds
<1>3. Len(t) \notin Ifs(t)
  BY <1>2 DEF Ifs, LoopEnds, LoopKinds
<1>4. Ifs(Front(t)) = Ifs(t) /\ \A i \in Ifs(t) : Front(t)[i] = t[i]
  <2>1. ASSUME NEW i \in Ifs(t) PROVE i \in 1..Len(t) - 1 /\ i \in Ifs(Front(t))
    <3>1. i \in 1..Len(t) /\ i # Len(t)
      BY <1>3 DEF Ifs
    <3>2. i \in 1..Len(t) - 1
      BY <1>2, <3>1
    <3> QED
      BY <1>2, <3>2 DEF Ifs
  <2>2. ASSUME NEW i \in Ifs(Front(t)) PROVE i \in Ifs(t)
    BY <1>2 DEF Ifs
  <2> QED
    BY <1>2, <2>1, <2>2
<1>5. ASSUME NEW j \in 1..n, j # n PROVE j \in 1..n - 1
  BY <1>1, <1>5
<1>6. \A j \in 1..n - 1 : j \in 1..n
  BY <1>1
<1> QED
  BY <1>1, <1>4, <1>5, <1>6 DEF Others, Waiting, n

\* leaveLoopPatch(): the breaks of the loop become jumps, and the loop is forgotten.
LEMMA LoopIsLeft ==
  ASSUME NEW u, NEW ss, NEW t, NEW T, NEW jm, NEW en, LoopEnds(u, ss, t, T, jm, en)
  PROVE  LET v == LeaveLoopPatch(u)
             fin == Noted(en, Start(Last(u.loops)), Count(v))
         IN  /\ SameVariables(u, v) /\ v.loops = Front(u.loops) /\ v.stackSlotNum = u.stackSlotNum /\ v.maxSlots >= u.maxSlots
             /\ \E U : /\ Sound(v, U, Waiting(v, Front(t))) /\ U[Count(v)] = Frame(v)
                       /\ Shape(v, ss, Front(t), U) /\ JumpsOK(v, Front(t), U, jm, fin)
                       /\ DOMAIN T \subseteq DOMAIN U /\ \A a \in DOMAIN T : U[a] = T[a]
<1> DEFINE n == Len(u.loops)
           l == Last(u.loops)
           m == Len(u.localVars)
           y == PatchPlaceholder(JumpBack(u), l.exitIndex)
           b == l.bodyStartIndex
           z == PatchBreaks(y, BreaksFrom(y, b))
           v == LeaveLoopPatch(u)
           p == l.exitIndex - 1
           fin == Noted(en, Start(l), Count(v))
<1>1. /\ u \in UnitTypes /\ l = u.loops[n] /\ l \in LoopTypes /\ n \in Nat /\ n \in 1..n /\ m \in Nat /\ Base(ss, l) = m
      /\ Len(Front(u.loops)) = n - 1 /\ \A j \in 1..n - 1 : Front(u.loops)[j] = u.loops[j]
      /\ \A j \in 1..n : Start(u.loops[j]) \in Nat /\ (j # n => Start(l) # Start(u.loops[j]))
      /\ \A a : Belongs(u, a, n) => a >= b
      /\ \A a \in Nat : \A j \in 1..n : Belongs(u, a, j) /\ a >= b => j = n
  BY LoopEndsFacts DEF LoopEnds
<1>2. /\ SameBut(u, y) /\ y.stackSlotNum = u.stackSlotNum /\ y.maxSlots >= u.maxSlots /\ Count(y) = Count(u) + 3
      /\ \E U : /\ Sound(y, U, Others(u, t)) /\ U[Count(y)] = Frame(u) /\ Shape(y, ss, t, U) /\ JumpsOK(y, t, U, jm, en)
                /\ DOMAIN T \subseteq DOMAIN U /\ \A a \in DOMAIN T : U[a] = T[a]
  BY LoopExits
<1>3. v = [z EXCEPT !.loops = Front(@)]
  BY DEF LeaveLoopPatch
<1>4. SameVariables(u, v) /\ v.loops = Front(u.loops)
  BY <1>1, LeaveLoopPatchKeeps DEF LoopEnds
<1> HIDE DEF y
<1>5. PICK U : /\ Sound(y, U, Others(u, t)) /\ U[Count(y)] = Frame(u) /\ Shape(y, ss, t, U) /\ JumpsOK(y, t, U, jm, en)
               /\ DOMAIN T \subseteq DOMAIN U /\ \A a \in DOMAIN T : U[a] = T[a]
  BY <1>2
<1>6. y.loops = u.loops /\ y.localVars = u.localVars /\ Waiting(y, t) = Waiting(u, t)
  <2>1. y.loops = u.loops /\ y.localVars = u.localVars
    BY <1>2 DEF SameBut
  <2> QED
    BY <2>1, WaitingSame
<1>7. b \in DOMAIN U /\ \A a, j : Belongs(y, a, j) <=> Belongs(u, a, j)
  BY <1>1, <1>5, <1>6 DEF Shape, LoopOK, Belongs, n
<1> DEFINE R == {x \in DOMAIN U : x >= b /\ x < Count(y) /\ ByteAt(y, x) = END}
<1>8. \A x \in DOMAIN U : x \in Nat /\ x <= Count(y)
  BY <1>5, SoundFacts
<1>9. ASSUME NEW x \in R PROVE Leads(Lands(END, U[x]), U[Count(y)])
  <2>1. PICK j \in 1..n : Belongs(u, x, j) /\ Pending(y, U, x, Base(ss, u.loops[j]))
    BY <1>5, <1>6, <1>7 DEF Shape, BreakOK, n
  <2>2. j = n
    BY <1>1, <1>8, <2>1
  <2>3. Pending(y, U, x, m)
    BY <1>1, <2>1, <2>2
  <2>4. U[Count(y)].d = m /\ U[Count(y)].c = Held(u) /\ Held(y) = Held(u)
    BY <1>1, <1>5, <1>6, FrameIs DEF Held
  <2>5. Lands(END, U[x]).d = m /\ \A s \in U[x].c : s \in Held(u)
    BY <2>3, <2>4 DEF Pending
  <2>6. Lands(END, U[x]).c = U[x].c
    BY DEF Lands
  <2> QED
    BY <2>4, <2>5, <2>6 DEF Leads
<1>10. /\ Sound(z, U, Others(u, t)) /\ SameBut(y, z) /\ z.stackSlotNum = y.stackSlotNum /\ z.maxSlots = y.maxSlots
       /\ Rewritten(y, z, DOMAIN U, R) /\ Count(z) = Count(y)
       /\ \A x \in R : ByteAt(z, x) = JUMP /\ Target(z, x) = Count(y)
  <2>1. \A x \in DOMAIN U : x >= b /\ x < Count(y) /\ ByteAt(y, x) = END => Leads(Lands(END, U[x]), U[Count(y)])
    BY <1>9
  <2>2. Count(y) < BYTE * BYTE
    BY <1>2 DEF LoopEnds
  <2> HIDE DEF b
  <2> QED
    BY <1>5, <1>7, <2>1, <2>2, BreaksPatched
<1> HIDE DEF z, v, R, b
<1>11. /\ v.code = z.code /\ v.localVars = z.localVars /\ v.upvalueNums = z.upvalueNums
       /\ v.stackSlotNum = z.stackSlotNum /\ v.maxSlots = z.maxSlots /\ z.loops = u.loops /\ v.localVars = u.localVars
  <2>1. z \in UnitTypes /\ z.loops = u.loops /\ z.localVars = u.localVars
    BY <1>6, <1>10 DEF SameBut
  <2> QED
    BY <1>3, <2>1 DEF UnitTypes
<1>12. /\ Count(v) = Count(z) /\ Count(v) = Count(y) /\ Frame(v) = Frame(u) /\ Count(v) \in Nat
       /\ \A a : ByteAt(v, a) = ByteAt(z, a) /\ Target(v, a) = Target(z, a)
       /\ \A a, k : /\ Pending(z, U, a, k) => Pending(v, U, a, k)
                    /\ IfOK(z, U, a, k) => IfOK(v, U, a, k)
                    /\ LoopOK(z, U, a, k) => LoopOK(v, U, a, k)
  <2>1. Frame(v) = Frame(u)
    BY <1>11 DEF Frame, Held
  <2>2. Count(z) = Count(y) /\ Count(y) \in Nat
    BY <1>5, <1>10, SoundFacts
  <2>3. /\ Count(v) = Count(z) /\ \A a : ByteAt(v, a) = ByteAt(z, a) /\ Target(v, a) = Target(z, a)
    BY <1>11, SameCode
  <2>4. \A a, k : /\ Pending(z, U, a, k) => Pending(v, U, a, k)
                  /\ IfOK(z, U, a, k) => IfOK(v, U, a, k)
                  /\ LoopOK(z, U, a, k) => LoopOK(v, U, a, k)
    BY <1>11, SameCode
  <2> QED
    BY <2>1, <2>2, <2>3, <2>4
<1>13. /\ Others(u, t) \subseteq Waiting(v, Front(t)) /\ Waiting(v, Front(t)) \subseteq Waiting(u, t)
       /\ Ifs(Front(t)) = Ifs(t) /\ \A i \in Ifs(t) : Front(t)[i] = t[i]
  BY <1>4, WaitingLeft
<1>14. Sound(v, U, Waiting(v, Front(t)))
  <2>1. Sound(z, U, Waiting(v, Front(t)))
    BY <1>10, <1>13, SoundWeaker
  <2>2. v \in UnitTypes
    BY <1>4 DEF SameVariables
  <2>3. U[Count(z)].d <= z.stackSlotNum /\ z.stackSlotNum <= z.maxSlots
    BY <1>10 DEF Sound, RoomOK
  <2> QED
    BY <1>11, <2>1, <2>2, <2>3, SoundSame
<1>15. Patched(y, U, Others(u, t), z, Others(u, t), R)
  BY <1>5, <1>10 DEF Patched
<1>16. Shape(z, ss, t, U)
  BY <1>5, <1>15, ShapePatched
<1>17. /\ Len(v.loops) = n - 1 /\ \A j \in 1..n - 1 : v.loops[j] = u.loops[j] /\ j \in 1..n /\ j # n /\ j < n
  BY <1>1, <1>4
<1>18. ASSUME NEW a, NEW j, j # n, Belongs(u, a, j) PROVE j \in 1..n - 1 /\ Belongs(v, a, j)
  <2>1. j \in 1..n
    BY <1>18 DEF Belongs, n
  <2>2. j \in 1..n - 1
    BY <1>1, <1>18, <2>1
  <2>3. \A i \in 1..n - 1 : i \in 1..n
    BY <1>1
  <2> QED
    BY <1>17, <1>18, <2>2, <2>3 DEF Belongs, n
<1> QED
  <2>1. Shape(v, ss, Front(t), U)
    <3>1. ASSUME NEW j \in 1..Len(v.loops) PROVE LoopOK(v, U, v.loops[j], Base(ss, v.loops[j]))
      <4>1. j \in 1..n /\ v.loops[j] = z.loops[j]
        BY <1>11, <1>17
      <4>2. LoopOK(z, U, z.loops[j], Base(ss, z.loops[j]))
        BY <1>11, <1>16, <4>1 DEF Shape, n
      <4> QED
        BY <1>12, <4>1, <4>2
    <3>2. ASSUME NEW i \in 1..Len(v.loops), NEW j \in 1..Len(v.loops), i < j
          PROVE  v.loops[i].bodyStartIndex <= Start(v.loops[j])
      <4>1. j \in 1..n /\ v.loops[j] = z.loops[j] /\ i \in 1..n /\ v.loops[i] = z.loops[i]
        BY <1>11, <1>17
      <4> QED
        BY <1>11, <1>16, <3>2, <4>1 DEF Shape, n
    <3>3. ASSUME NEW i \in Ifs(Front(t)) PROVE IfOK(v, U, Front(t)[i].at - 1, UpTo(ss, Front(t)[i].outer))
      <4>1. i \in Ifs(t) /\ Front(t)[i] = t[i]
        BY <1>13
      <4>2. IfOK(z, U, t[i].at - 1, UpTo(ss, t[i].outer))
        BY <1>16, <4>1 DEF Shape
      <4> QED
        BY <1>12, <4>1, <4>2
    <3>4. ASSUME NEW a \in DOMAIN U, a < Count(v), ByteAt(v, a) = END PROVE BreakOK(v, ss, U, a)
      <4>1. ByteAt(z, a) = END /\ a < Count(z) /\ a < Count(y)
        BY <1>12, <3>4
      <4>2. PICK j \in 1..n : Belongs(z, a, j) /\ Pending(z, U, a, Base(ss, z.loops[j]))
        BY <1>11, <1>16, <4>1 DEF Shape, BreakOK, n
      <4>3. a \notin R
        BY <1>10, <4>1, OpcodesDiffer
      <4>4. ByteAt(y, a) = END
        BY <1>15, <4>1, <4>3, PatchedCodeIs
      <4>5. Belongs(u, a, j)
        BY <1>11, <4>2 DEF Belongs
      <4>6. j # n
        BY <1>1, <4>1, <4>3, <4>4, <4>5 DEF R
      <4>7. j \in 1..n - 1 /\ Belongs(v, a, j)
        BY <1>18, <4>5, <4>6
      <4>8. Pending(v, U, a, Base(ss, v.loops[j]))
        BY <1>11, <1>12, <1>17, <4>2, <4>7
      <4> QED
        BY <1>17, <4>7, <4>8 DEF BreakOK
    <3> QED
      BY <3>1, <3>2, <3>3, <3>4 DEF Shape
  <2>2. /\ DOMAIN fin = DOMAIN en \union {Start(l)} /\ \A x \in DOMAIN en : fin[x] = en[x]
        /\ Start(l) \notin DOMAIN en /\ fin[Start(l)] = Count(v) /\ \A j \in 1..n : Start(u.loops[j]) \notin DOMAIN en
    <3>1. \A j \in 1..n : Start(u.loops[j]) \notin DOMAIN en
      BY DEF LoopEnds, JumpsOK, n
    <3>2. Start(l) \notin DOMAIN en
      BY <1>1, <3>1
    <3> QED
      BY <3>1, <3>2 DEF Noted
  <2> HIDE DEF fin, l
  <2>3. JumpsOK(v, Front(t), U, jm, fin)
    <3>1. \A x \in DOMAIN fin : x \in Int /\ x < Count(v)
      <4>1. \A x \in DOMAIN en : x \in Int /\ x < Count(y)
        BY <1>5 DEF JumpsOK
      <4>2. Start(l) \in Nat /\ Start(l) < Count(y)
        <5>1. LoopOK(u, T, l, m) /\ Count(u) \in Nat
          BY <1>1, LoopEndsFacts, UnitFacts DEF l
        <5>2. Start(l) \in DOMAIN T /\ Sound(u, T, Waiting(u, t))
          BY <5>1 DEF LoopOK, LoopEnds
        <5>3. Start(l) <= Count(u)
          BY <5>2, SoundFacts
        <5> QED
          BY <1>1, <1>2, <5>1, <5>3
      <4> QED
        BY <1>12, <2>2, <4>1, <4>2
    <3>2. \A j \in 1..Len(v.loops) : Start(v.loops[j]) \notin DOMAIN fin
      BY <1>1, <1>17, <2>2
    <3>3. ASSUME NEW a \in DOMAIN jm PROVE JumpOK(v, Front(t), U, fin, a, jm[a])
      <4>1. JumpOK(y, t, U, en, a, jm[a])
        BY <1>5 DEF JumpsOK
      <4>2. a \in DOMAIN U /\ a < Count(y) /\ a < Count(v) /\ a \in Nat
        BY <1>8, <1>12, <4>1 DEF JumpOK
      <4>3. CASE ByteAt(y, a) = END /\ \E j \in 1..n : Belongs(y, a, j) /\ jm[a] = Start(u.loops[j])
        <5>1. PICK j \in 1..n : Belongs(u, a, j) /\ jm[a] = Start(u.loops[j])
          BY <1>7, <4>3
        <5>2. CASE j = n
          <6>1. a \in R
            BY <1>1, <4>2, <4>3, <5>1, <5>2 DEF R
          <6>2. ByteAt(v, a) = JUMP /\ Target(v, a) = Count(v)
            BY <1>10, <1>12, <6>1
          <6>3. a \notin Waiting(v, Front(t))
            <7>1. a \notin Waiting(y, t)
              BY <1>5, <4>3, WaitingFacts
            <7> QED
              BY <1>6, <1>13, <7>1
          <6>4. jm[a] = Start(l)
            BY <1>1, <5>1, <5>2
          <6> QED
            BY <2>2, <4>2, <6>2, <6>3, <6>4 DEF JumpOK
        <5>3. CASE j # n
          <6>1. a \notin R
            BY <1>1, <4>2, <5>1, <5>3 DEF R
          <6>2. ByteAt(v, a) = END
            BY <1>12, <1>15, <4>2, <4>3, <6>1, PatchedCodeIs
          <6>3. j \in 1..Len(v.loops) /\ Belongs(v, a, j) /\ v.loops[j] = u.loops[j]
            BY <1>17, <1>18, <5>1, <5>3
          <6> QED
            BY <4>2, <5>1, <6>2, <6>3 DEF JumpOK
        <5> QED
          BY <5>2, <5>3
      <4>4. CASE ByteAt(y, a) = JUMP /\ a \notin Waiting(y, t) /\ jm[a] \in DOMAIN en /\ Target(y, a) = en[jm[a]]
        <5>1. a \notin R
          BY <4>4, OpcodesDiffer DEF R
        <5>2. InstrOK(y, DOMAIN U, a) /\ y \in UnitTypes
          BY <1>5, <4>2 DEF Sound, Chained
        <5>3. Width(y, a) >= 3
          BY <4>2, <4>4, <5>2, WidthFacts
        <5>4. ByteAt(v, a) = JUMP /\ Target(v, a) = Target(y, a)
          BY <1>12, <1>15, <4>2, <4>4, <5>1, <5>3, PatchedCodeIs
        <5>5. a \notin Waiting(v, Front(t))
          BY <1>6, <1>13, <4>4
        <5> QED
          BY <2>2, <4>2, <4>4, <5>4, <5>5 DEF JumpOK
      <4> QED
        BY <1>6, <4>1, <4>3, <4>4 DEF JumpOK, n
    <3> QED
      BY <3>1, <3>2, <3>3 DEF JumpsOK
  <2>4. v.stackSlotNum = u.stackSlotNum /\ v.maxSlots >= u.maxSlots
    BY <1>2, <1>10, <1>11
  <2>5. U[Count(v)] = Frame(v)
    BY <1>5, <1>12
  <2>6. \E X : /\ Sound(v, X, Waiting(v, Front(t))) /\ X[Count(v)] = Frame(v)
               /\ Shape(v, ss, Front(t), X) /\ JumpsOK(v, Front(t), X, jm, fin)
               /\ DOMAIN T \subseteq DOMAIN X /\ \A a \in DOMAIN T : X[a] = T[a]
    BY <1>5, <1>14, <2>1, <2>3, <2>5
  <2> QED
    BY <1>4, <2>4, <2>6 DEF v, fin, l

(***************************************************************************)
(* What holds in the middle of a function: T is the stack at each          *)
(* instruction, P are the jumps whose targets are not known yet.           *)
(***************************************************************************)
MarksOK(T, mk) == \A a \in DOMAIN mk : a \in DOMAIN T /\ T[a].d = mk[a]

Good(u, ss, t, T, P, mk, jm, en) ==
  /\ Sound(u, T, P) /\ T[Count(u)] = Frame(u) /\ ScopesOK(u, ss) /\ Shape(u, ss, t, T) /\ JumpsOK(u, t, T, jm, en)
  /\ MarksOK(T, mk) /\ T[0].d = IF u.isModule THEN 0 ELSE 1

\* The statement that begins is noted.
LEMMA GoodMark ==
  ASSUME NEW u, NEW ss, NEW t, NEW T, NEW P, NEW mk, NEW jm, NEW en, Good(u, ss, t, T, P, mk, jm, en)
  PROVE  Good(u, ss, t, T, P, Noted(mk, Count(u), Len(FlattenSeq(ss))), jm, en)
<1>1. /\ Sound(u, T, P) /\ T[Count(u)] = Frame(u) /\ ScopesOK(u, ss) /\ MarksOK(T, mk)
  BY DEF Good
<1>2. Count(u) \in DOMAIN T
  BY <1>1, SoundFacts
<1>3. T[Count(u)].d = Len(FlattenSeq(ss))
  <2>1. ss \in Blocks /\ u \in UnitTypes /\ UpTo(ss, Len(ss)) = Len(u.localVars)
    BY <1>1, ScopesFacts
  <2>2. UpTo(ss, Len(ss)) = Len(FlattenSeq(ss))
    BY <2>1, UpToFacts
  <2>3. Frame(u).d = Len(u.localVars)
    BY <2>1, FrameIs
  <2> QED
    BY <1>1, <2>1, <2>2, <2>3
<1>4. MarksOK(T, Noted(mk, Count(u), Len(FlattenSeq(ss))))
  BY <1>1, <1>2, <1>3 DEF MarksOK, Noted
<1> QED
  BY <1>4 DEF Good

\* Code is appended that belongs to the innermost loop.
LEMMA GoodGoesOn ==
  ASSUME NEW u, NEW ss, NEW t, NEW T, NEW P, NEW mk, NEW jm, NEW en, Good(u, ss, t, T, P, mk, jm, en),
         NEW w, NEW tt, NEW U, NEW Q, NEW m, GoesOn(u, ss, t, T, P, w, tt, U, Q, m), U[Count(w)] = Frame(w),
         w.isModule = u.isModule
  PROVE  Good(w, tt, t, U, Q, mk, jm, en)
<1>1. /\ Sound(u, T, P) /\ Shape(u, ss, t, T) /\ JumpsOK(u, t, T, jm, en) /\ MarksOK(T, mk)
      /\ T[0].d = IF u.isModule THEN 0 ELSE 1
  BY DEF Good
<1>2. /\ Sound(w, U, Q) /\ ScopesOK(w, tt) /\ Continues(u, T, P, w, U, Q, m)
      /\ DOMAIN T \subseteq DOMAIN U /\ \A a \in DOMAIN T : U[a] = T[a]
  BY DEF GoesOn, Continues
<1>3. Shape(w, tt, t, U)
  BY <1>1, ShapeGoesOn
<1>4. JumpsOK(w, t, U, jm, en)
  BY <1>1, <1>2, JumpsGoOn
<1>5. MarksOK(U, mk)
  BY <1>1, <1>2 DEF MarksOK
<1>6. 0 \in DOMAIN T
  BY <1>1, SoundFacts
<1>7. U[0].d = IF w.isModule THEN 0 ELSE 1
  BY <1>1, <1>2, <1>6
<1> QED
  BY <1>2, <1>3, <1>4, <1>5, <1>7 DEF Good

\* Code is appended without jumps back and breaks.
Appends(u, ss, t, T, w, tt, U, Q, m) ==
  /\ Sound(w, U, Q) /\ Grew(u, T, w, U, m) /\ U[Count(w)] = Frame(w) /\ ScopesOK(w, tt) /\ SameBases(u, t, ss, tt)
  /\ w.loops = u.loops /\ w.upvalueNums = u.upvalueNums /\ w.isModule = u.isModule /\ Alike(u, w)
  /\ m \in Int /\ \A j \in 1..Len(u.loops) : Base(ss, u.loops[j]) <= m

LEMMA GoodAppends ==
  ASSUME NEW u, NEW ss, NEW t, NEW T, NEW P, NEW mk, NEW jm, NEW en, Good(u, ss, t, T, P, mk, jm, en),
         NEW w, NEW tt, NEW U, NEW Q, NEW m, Appends(u, ss, t, T, w, tt, U, Q, m)
  PROVE  Good(w, tt, t, U, Q, mk, jm, en)
<1>1. /\ Sound(u, T, P) /\ ScopesOK(u, ss)
  BY DEF Good
<1>2. /\ Sound(w, U, Q) /\ Grew(u, T, w, U, m) /\ U[Count(w)] = Frame(w) /\ ScopesOK(w, tt) /\ SameBases(u, t, ss, tt)
      /\ w.loops = u.loops /\ w.upvalueNums = u.upvalueNums /\ w.isModule = u.isModule /\ Alike(u, w)
      /\ m \in Int /\ \A j \in 1..Len(u.loops) : Base(ss, u.loops[j]) <= m
  BY DEF Appends
<1>3. Continues(u, T, P, w, U, Q, m)
  BY <1>1, <1>2 DEF Continues, Grew, MoreUpvalues
<1>4. \A a \in DOMAIN U : a >= Count(u) /\ a < Count(w) => ByteAt(w, a) # LOOP /\ ByteAt(w, a) # END
  BY <1>2 DEF Grew
<1>5. GoesOn(u, ss, t, T, P, w, tt, U, Q, m)
  BY <1>1, <1>2, <1>3, <1>4 DEF GoesOn
<1> QED
  BY <1>2, <1>5, GoodGoesOn

\* The unit changes in what the stack does not depend on, and the blocks in what the loops
\* and tests do not.
LEMMA GoodSame ==
  ASSUME NEW u, NEW ss, NEW t, NEW T, NEW P, NEW mk, NEW jm, NEW en, Good(u, ss, t, T, P, mk, jm, en),
         NEW w, NEW tt, Sound(w, T, P), ScopesOK(w, tt), SameBases(u, t, ss, tt), w.code = u.code, w.localVars = u.localVars,
         w.loops = u.loops, w.upvalueNums = u.upvalueNums, w.isModule = u.isModule
  PROVE  Good(w, tt, t, T, P, mk, jm, en)
<1>1. /\ Sound(u, T, P) /\ ScopesOK(u, ss) /\ T[Count(u)] = Frame(u) /\ Shape(u, ss, t, T)
  BY DEF Good
<1>2. u \in UnitTypes /\ Len(u.localVars) \in Nat
  BY <1>1, ScopesFacts
<1>3. Grew(u, T, w, T, Len(u.localVars))
  BY <1>1, GrewSelf
<1>4. T[Count(w)] = Frame(w)
  BY <1>1, SameCode
<1>5. Alike(u, w)
  BY DEF Alike, Held
<1>6. \A j \in 1..Len(u.loops) : Base(ss, u.loops[j]) <= Len(u.localVars)
  BY <1>1, BasesAre
<1>7. Appends(u, ss, t, T, w, tt, T, P, Len(u.localVars))
  BY <1>2, <1>3, <1>4, <1>5, <1>6 DEF Appends
<1> QED
  BY <1>7, GoodAppends

(***************************************************************************)
(* Statements are opened and completed.                                    *)
(***************************************************************************)
IfKinds == {"then", "else"}

LEMMA IfsAre ==
  ASSUME NEW t \in Seq(TodoTypes)
  PROVE  /\ \A b : /\ Ifs(Append(t, b)) = Ifs(t) \union (IF b.kind \in IfKinds THEN {Len(t) + 1} ELSE {})
                   /\ \A i \in Ifs(t) : Append(t, b)[i] = t[i] /\ i # Len(t) + 1
                   /\ Append(t, b)[Len(t) + 1] = b
         /\ t # <<>> => /\ Ifs(Front(t)) \subseteq Ifs(t) /\ \A i \in Ifs(Front(t)) : Front(t)[i] = t[i]
                        /\ Last(t).kind \notin IfKinds => Ifs(Front(t)) = Ifs(t)
                        /\ Last(t).kind \in IfKinds => Len(t) \in Ifs(t) /\ Ifs(t) = Ifs(Front(t)) \union {Len(t)}
                        /\ Last(t) = t[Len(t)] /\ Len(t) \notin Ifs(Front(t))
<1>1. Len(t) \in Nat
  OBVIOUS
<1>2. ASSUME NEW b
      PROVE  /\ Ifs(Append(t, b)) = Ifs(t) \union (IF b.kind \in IfKinds THEN {Len(t) + 1} ELSE {})
             /\ \A i \in Ifs(t) : Append(t, b)[i] = t[i] /\ i # Len(t) + 1
             /\ Append(t, b)[Len(t) + 1] = b
  <2> DEFINE r == Append(t, b)
  <2>1. Len(r) = Len(t) + 1 /\ r[Len(t) + 1] = b /\ \A i \in 1..Len(t) : r[i] = t[i]
    OBVIOUS
  <2> HIDE DEF r
  <2>2. \A i : i \in 1..Len(r) <=> i \in 1..Len(t) \/ i = Len(t) + 1
    BY <1>1, <2>1
  <2>3. \A i \in 1..Len(t) : i # Len(t) + 1
    BY <1>1
  <2>4. Ifs(r) = Ifs(t) \union (IF b.kind \in IfKinds THEN {Len(t) + 1} ELSE {})
    BY <2>1, <2>2, <2>3 DEF Ifs, IfKinds
  <2>5. \A i \in Ifs(t) : i \in 1..Len(t)
    BY DEF Ifs
  <2> QED
    BY <2>1, <2>3, <2>4, <2>5 DEF r
<1>3. ASSUME t # <<>>
      PROVE  /\ Ifs(Front(t)) \subseteq Ifs(t) /\ \A i \in Ifs(Front(t)) : Front(t)[i] = t[i]
             /\ Last(t).kind \notin IfKinds => Ifs(Front(t)) = Ifs(t)
             /\ Last(t).kind \in IfKinds => Len(t) \in Ifs(t) /\ Ifs(t) = Ifs(Front(t)) \union {Len(t)}
             /\ Last(t) = t[Len(t)] /\ Len(t) \notin Ifs(Front(t))
  <2> DEFINE r == Front(t)
             b == Last(t)
  <2>1. Len(t) > 0 /\ Len(r) = Len(t) - 1 /\ b = t[Len(t)] /\ \A i \in 1..Len(t) - 1 : r[i] = t[i]
    BY <1>3, LastIs
  <2> HIDE DEF r, b
  <2>2. \A i : i \in 1..Len(t) <=> i \in 1..Len(r) \/ i = Len(t)
    BY <1>1, <2>1
  <2>3. \A i \in 1..Len(r) : i # Len(t) /\ r[i] = t[i]
    BY <1>1, <2>1
  <2>4. \A i : i \in Ifs(t) <=> i \in Ifs(r) \/ (i = Len(t) /\ b.kind \in IfKinds)
    BY <2>1, <2>2, <2>3 DEF Ifs, IfKinds
  <2>5. \A i \in Ifs(r) : i \in 1..Len(r)
    BY DEF Ifs
  <2>6. Len(t) \notin Ifs(r) /\ \A i \in Ifs(r) : r[i] = t[i]
    BY <2>3, <2>5
  <2>7. b.kind \notin IfKinds => Ifs(r) = Ifs(t)
    BY <2>4
  <2>8. b.kind \in IfKinds => Len(t) \in Ifs(t) /\ Ifs(t) = Ifs(r) \union {Len(t)}
    BY <2>4
  <2> QED
    BY <2>1, <2>4, <2>6, <2>7, <2>8 DEF r, b
<1> QED
  BY <1>2, <1>3

\* Statements whose ends need no jump do not matter.
LEMMA GoodTodo ==
  ASSUME NEW u, NEW ss, NEW t, NEW T, NEW P, NEW mk, NEW jm, NEW en, Good(u, ss, t, T, P, mk, jm, en),
         NEW r, Ifs(r) = Ifs(t), \A i \in Ifs(t) : r[i] = t[i]
  PROVE  Good(u, ss, r, T, P, mk, jm, en) /\ Waiting(u, r) = Waiting(u, t)
<1>1. Waiting(u, r) = Waiting(u, t)
  BY DEF Waiting
<1>2. Shape(u, ss, r, T)
  BY DEF Good, Shape
<1>3. JumpsOK(u, r, T, jm, en)
  BY <1>1 DEF Good, JumpsOK, JumpOK
<1> QED
  BY <1>1, <1>2, <1>3 DEF Good

\* A statement is opened that waits for the target of a jump.
LEMMA GoodIf ==
  ASSUME NEW u, NEW ss, NEW t \in Seq(TodoTypes), NEW T, NEW P, NEW mk, NEW jm, NEW en, Good(u, ss, t, T, P, mk, jm, en),
         NEW b, b.kind \in IfKinds, IfOK(u, T, b.at - 1, UpTo(ss, b.outer)), b.at - 1 \notin DOMAIN jm
  PROVE  Good(u, ss, Append(t, b), T, P, mk, jm, en) /\ Waiting(u, Append(t, b)) = Waiting(u, t) \union {b.at - 1}
<1> DEFINE r == Append(t, b)
<1>1. /\ Ifs(r) = Ifs(t) \union {Len(t) + 1} /\ \A i \in Ifs(t) : r[i] = t[i]
      /\ r[Len(t) + 1] = b
  BY IfsAre
<1> HIDE DEF r
<1>2. Waiting(u, r) = Waiting(u, t) \union {b.at - 1}
  BY <1>1 DEF Waiting
<1>3. Shape(u, ss, r, T)
  BY <1>1 DEF Good, Shape
<1>4. ASSUME NEW a \in DOMAIN jm PROVE JumpOK(u, r, T, en, a, jm[a])
  <2>1. JumpOK(u, t, T, en, a, jm[a]) /\ a # b.at - 1
    BY DEF Good, JumpsOK
  <2> QED
    BY <1>2, <2>1 DEF JumpOK
<1>5. JumpsOK(u, r, T, jm, en)
  BY <1>4 DEF Good, JumpsOK
<1> QED
  BY <1>2, <1>3, <1>5 DEF Good, r

\* A statement is complete.
LEMMA GoodFront ==
  ASSUME NEW u, NEW ss, NEW t \in Seq(TodoTypes), NEW T, NEW P, NEW mk, NEW jm, NEW en, Good(u, ss, t, T, P, mk, jm, en), t # <<>>
  PROVE  /\ Good(u, ss, Front(t), T, P, mk, jm, en)
         /\ Waiting(u, t) = IF Last(t).kind \in IfKinds THEN Waiting(u, Front(t)) \union {Last(t).at - 1} ELSE Waiting(u, Front(t))
<1> DEFINE r == Front(t)
           b == Last(t)
<1>1. /\ Ifs(r) \subseteq Ifs(t) /\ \A i \in Ifs(r) : r[i] = t[i]
      /\ b.kind \notin IfKinds => Ifs(r) = Ifs(t)
      /\ b.kind \in IfKinds => Ifs(t) = Ifs(r) \union {Len(t)} /\ Len(t) \in Ifs(t)
      /\ b = t[Len(t)]
  BY IfsAre
<1> HIDE DEF r, b
<1>2. Waiting(u, t) = IF b.kind \in IfKinds THEN Waiting(u, r) \union {b.at - 1} ELSE Waiting(u, r)
  <2>1. CASE b.kind \in IfKinds
    BY <1>1, <2>1 DEF Waiting
  <2>2. CASE b.kind \notin IfKinds
    BY <1>1, <2>2 DEF Waiting
  <2> QED
    BY <2>1, <2>2
<1>3. Waiting(u, r) \subseteq Waiting(u, t)
  BY <1>2
<1>4. Shape(u, ss, r, T)
  BY <1>1 DEF Good, Shape
<1>5. JumpsOK(u, r, T, jm, en)
  BY <1>3 DEF Good, JumpsOK, JumpOK
<1> QED
  BY <1>2, <1>4, <1>5 DEF Good, r, b

\* The target of a jump is known.
LEMMA GoodPatch ==
  ASSUME NEW u, NEW ss, NEW t, NEW T, NEW P, NEW mk, NEW jm, NEW en, Good(u, ss, t, T, P, mk, jm, en),
         NEW a \in Waiting(u, t), Lands(ByteAt(u, a), T[a]).d = Len(u.localVars), \A s \in T[a].c : s \in Held(u),
         Count(u) < BYTE * BYTE
  PROVE  LET w == PatchPlaceholder(u, a + 1)
         IN  /\ Good(w, ss, t, T, P \ {a}, mk, jm, en) /\ SameBut(u, w) /\ Count(w) = Count(u)
             /\ w.stackSlotNum = u.stackSlotNum /\ w.maxSlots = u.maxSlots
<1> DEFINE w == PatchPlaceholder(u, a + 1)
<1>1. /\ Sound(u, T, P) /\ T[Count(u)] = Frame(u) /\ ScopesOK(u, ss) /\ Shape(u, ss, t, T) /\ JumpsOK(u, t, T, jm, en)
  BY DEF Good
<1>2. a \in DOMAIN T /\ a < Count(u) /\ ByteAt(u, a) \in Branching \union {JUMP} /\ ByteAt(u, a) # END
  BY <1>1, WaitingFacts
<1>3. Leads(Lands(ByteAt(u, a), T[a]), T[Count(u)])
  <2>1. u \in UnitTypes
    BY <1>1, SoundFacts
  <2>2. T[Count(u)].d = Len(u.localVars) /\ T[Count(u)].c = Held(u)
    BY <1>1, <2>1, FrameIs
  <2>3. Lands(ByteAt(u, a), T[a]).c = T[a].c
    BY DEF Lands
  <2> QED
    BY <2>2, <2>3 DEF Leads
<1>4. /\ Sound(w, T, P \ {a}) /\ SameBut(u, w) /\ w.stackSlotNum = u.stackSlotNum /\ w.maxSlots = u.maxSlots
      /\ Rewritten(u, w, DOMAIN T, {a}) /\ Count(w) = Count(u)
  BY <1>1, <1>2, <1>3, PatchIs
<1> HIDE DEF w
<1>5. Patched(u, T, P, w, P \ {a}, {a})
  BY <1>1, <1>4 DEF Patched
<1>6. Shape(w, ss, t, T)
  BY <1>1, <1>5, ShapePatched
<1>7. JumpsOK(w, t, T, jm, en)
  BY <1>1, <1>2, <1>5, JumpsPatched
<1>8. Frame(w) = Frame(u) /\ w.isModule = u.isModule
  BY <1>4 DEF SameBut, Frame, Held
<1>9. ScopesOK(w, ss)
  BY <1>1, <1>4, ScopesSame
<1>10. T[Count(w)] = Frame(w) /\ MarksOK(T, mk) /\ T[0].d = IF w.isModule THEN 0 ELSE 1
  BY <1>4, <1>8 DEF Good
<1> QED
  BY <1>4, <1>6, <1>7, <1>9, <1>10 DEF Good, w

\* The loop l has been opened: its test and what it computes for every turn have been read.
NewLoop(u, ss, T, en, w, l) ==
  /\ SameVariables(u, w) /\ w.code = u.code /\ w.stackSlotNum = u.stackSlotNum /\ w.maxSlots = u.maxSlots
  /\ u.loops \in Seq(LoopTypes) /\ l \in LoopTypes /\ w.loops = Append(u.loops, l) /\ LoopOK(u, T, l, Base(ss, l))
  /\ \A j \in 1..Len(u.loops) : u.loops[j].bodyStartIndex <= Start(l)
  /\ \A a \in DOMAIN T : a < Count(u) /\ ByteAt(u, a) = END => a < Start(l)
  /\ Start(l) \notin DOMAIN en

LEMMA GoodLoop ==
  ASSUME NEW u, NEW ss, NEW t, NEW T, NEW P, NEW mk, NEW jm, NEW en, Good(u, ss, t, T, P, mk, jm, en),
         NEW w, NEW l, NewLoop(u, ss, T, en, w, l)
  PROVE  Good(w, ss, t, T, P, mk, jm, en) /\ Waiting(w, t) = Waiting(u, t) \union {l.exitIndex - 1}
<1> DEFINE n == Len(u.loops)
<1>1. /\ n \in Nat /\ Len(w.loops) = n + 1 /\ w.loops[n + 1] = l /\ \A j \in 1..n : w.loops[j] = u.loops[j]
      /\ \A j : j \in 1..n + 1 <=> j \in 1..n \/ j = n + 1
      /\ \A j \in 1..n : j < n + 1 /\ j # n + 1 /\ ~(n + 1 < j)
  BY DEF NewLoop
<1> HIDE DEF n
<1>2. /\ Sound(u, T, P) /\ T[Count(u)] = Frame(u) /\ ScopesOK(u, ss) /\ Shape(u, ss, t, T) /\ JumpsOK(u, t, T, jm, en)
      /\ MarksOK(T, mk) /\ T[0].d = IF u.isModule THEN 0 ELSE 1
  BY DEF Good
<1>3. /\ w \in UnitTypes /\ w.isModule = u.isModule /\ w.localVars = u.localVars /\ w.upvalueNums = u.upvalueNums
  BY DEF NewLoop, SameVariables
<1>4. /\ Count(w) = Count(u) /\ Frame(w) = Frame(u)
      /\ \A a : ByteAt(w, a) = ByteAt(u, a) /\ Target(w, a) = Target(u, a)
  BY <1>3, SameCode DEF NewLoop
<1>5. \A a, k : /\ Pending(u, T, a, k) => Pending(w, T, a, k)
                /\ IfOK(u, T, a, k) => IfOK(w, T, a, k)
                /\ LoopOK(u, T, a, k) => LoopOK(w, T, a, k)
  BY <1>3, SameCode DEF NewLoop
<1>6. Sound(w, T, P)
  <2>1. T[Count(u)].d <= u.stackSlotNum /\ u.stackSlotNum <= u.maxSlots
    BY <1>2 DEF Sound, RoomOK
  <2> QED
    BY <1>2, <1>3, <2>1, SoundSame DEF NewLoop
<1>7. ScopesOK(w, ss)
  BY <1>2, ScopesSameVariables DEF NewLoop
<1>8. Waiting(w, t) = Waiting(u, t) \union {l.exitIndex - 1}
  BY <1>1 DEF Waiting, n
<1>9. ByteAt(u, l.exitIndex - 1) = JUMP_IF_FALSE
  BY DEF NewLoop, LoopOK
<1>10. ASSUME NEW a \in DOMAIN T, a < Count(u), ByteAt(u, a) = END, NEW j, Belongs(u, a, j)
       PROVE  j \in 1..n /\ j \in 1..Len(w.loops) /\ Belongs(w, a, j) /\ w.loops[j] = u.loops[j]
  <2>1. a < Start(l)
    BY <1>10 DEF NewLoop
  <2>2. j \in 1..n
    BY <1>10 DEF Belongs, n
  <2> QED
    BY <1>1, <1>10, <2>1, <2>2 DEF Belongs, n
<1>11. Shape(w, ss, t, T)
  <2>1. ASSUME NEW j \in 1..Len(w.loops) PROVE LoopOK(w, T, w.loops[j], Base(ss, w.loops[j]))
    <3>1. CASE j \in 1..n
      BY <1>1, <1>2, <1>5, <3>1 DEF Shape, n
    <3>2. CASE j = n + 1
      BY <1>1, <1>5, <3>2 DEF NewLoop
    <3> QED
      BY <1>1, <3>1, <3>2
  <2>2. ASSUME NEW i \in 1..Len(w.loops), NEW j \in 1..Len(w.loops), i < j
        PROVE  w.loops[i].bodyStartIndex <= Start(w.loops[j])
    <3>1. i \in 1..n
      BY <1>1, <2>2
    <3>2. CASE j \in 1..n
      BY <1>1, <1>2, <2>2, <3>1, <3>2 DEF Shape, n
    <3>3. CASE j = n + 1
      BY <1>1, <3>1, <3>3 DEF NewLoop, n
    <3> QED
      BY <1>1, <3>2, <3>3
  <2>3. \A i \in Ifs(t) : IfOK(w, T, t[i].at - 1, UpTo(ss, t[i].outer))
    BY <1>2, <1>5 DEF Shape
  <2>4. ASSUME NEW a \in DOMAIN T, a < Count(w), ByteAt(w, a) = END PROVE BreakOK(w, ss, T, a)
    <3>1. a < Count(u) /\ ByteAt(u, a) = END
      BY <1>4, <2>4
    <3>2. PICK j \in 1..n : Belongs(u, a, j) /\ Pending(u, T, a, Base(ss, u.loops[j]))
      BY <1>2, <3>1 DEF Shape, BreakOK, n
    <3>3. j \in 1..Len(w.loops) /\ Belongs(w, a, j) /\ w.loops[j] = u.loops[j]
      BY <1>10, <3>1, <3>2
    <3>4. Pending(w, T, a, Base(ss, w.loops[j]))
      BY <1>5, <3>2, <3>3
    <3> QED
      BY <3>3, <3>4 DEF BreakOK
  <2> QED
    BY <2>1, <2>2, <2>3, <2>4 DEF Shape
<1>12. JumpsOK(w, t, T, jm, en)
  <2>1. \A x \in DOMAIN en : x \in Int /\ x < Count(w)
    BY <1>2, <1>4 DEF JumpsOK
  <2>2. \A j \in 1..Len(w.loops) : Start(w.loops[j]) \notin DOMAIN en
    <3>1. \A j \in 1..n : Start(u.loops[j]) \notin DOMAIN en
      BY <1>2 DEF JumpsOK, n
    <3> QED
      BY <1>1, <3>1 DEF NewLoop
  <2>3. ASSUME NEW a \in DOMAIN jm PROVE JumpOK(w, t, T, en, a, jm[a])
    <3>1. JumpOK(u, t, T, en, a, jm[a])
      BY <1>2 DEF JumpsOK
    <3>2. a \in DOMAIN T /\ a < Count(u) /\ a < Count(w)
      BY <1>4, <3>1 DEF JumpOK
    <3>3. CASE ByteAt(u, a) = END /\ \E j \in 1..n : Belongs(u, a, j) /\ jm[a] = Start(u.loops[j])
      <4>1. PICK j \in 1..n : Belongs(u, a, j) /\ jm[a] = Start(u.loops[j])
        BY <3>3
      <4>2. j \in 1..Len(w.loops) /\ Belongs(w, a, j) /\ w.loops[j] = u.loops[j]
        BY <1>10, <3>2, <3>3, <4>1
      <4> QED
        BY <1>4, <3>2, <3>3, <4>1, <4>2 DEF JumpOK
    <3>4. CASE ByteAt(u, a) = JUMP /\ a \notin Waiting(u, t) /\ jm[a] \in DOMAIN en /\ Target(u, a) = en[jm[a]]
      <4>1. a # l.exitIndex - 1
        BY <1>9, <3>4, OpcodesDiffer
      <4> QED
        BY <1>4, <1>8, <3>2, <3>4, <4>1 DEF JumpOK
    <3> QED
      BY <3>1, <3>3, <3>4 DEF JumpOK, n
  <2> QED
    BY <2>1, <2>2, <2>3 DEF JumpsOK
<1> QED
  BY <1>2, <1>3, <1>4, <1>6, <1>7, <1>8, <1>11, <1>12 DEF Good

-----------------------------------------------------------------------------
(***************************************************************************)
(* Loops and blocks, one inside the other.                                 *)
(***************************************************************************)
\* The loop l of the compile unit is the statement with number i.
LoopAt(t, i, l) ==
  /\ i \in LoopsIn(t) /\ t[i].at = Start(l)
  /\ l.scopeDepth + 1 = t[i].outer + (IF t[i].kind = "for" THEN 1 ELSE 0)

LoopsMatch(u, t, r) ==
  /\ \A j \in 1..Len(u.loops) : LoopAt(t, r[j], u.loops[j])
  /\ \A i, j \in 1..Len(u.loops) : i < j => r[i] < r[j]
  /\ \A i \in LoopsIn(t) : \E j \in 1..Len(u.loops) : r[j] = i

NestAll(t, n) ==
  \A i \in 1..Len(t) : /\ t[i].outer + Levels(t[i].kind) <= n
                       /\ \A j \in 1..Len(t) : i < j => t[i].outer + Levels(t[i].kind) <= t[j].outer

Nested(u, ss, t) == NestAll(t, Len(ss)) /\ \E r : LoopsMatch(u, t, r)

LEMMA TodoIs ==
  ASSUME NEW t \in Seq(TodoTypes)
  PROVE  /\ Len(t) \in Nat /\ LoopsIn(t) \subseteq 1..Len(t)
         /\ \A i \in 1..Len(t) : t[i] \in TodoTypes /\ t[i].outer \in Nat /\ t[i].at \in Int /\ t[i].kind \in Kinds
         /\ \A i \in 1..Len(t) : Levels(t[i].kind) \in Nat /\ Levels(t[i].kind) >= 1 + (IF t[i].kind = "for" THEN 1 ELSE 0)
<1>1. \A i \in 1..Len(t) : t[i] \in TodoTypes
  OBVIOUS
<1> QED
  BY <1>1 DEF LoopsIn, TodoTypes, Levels

\* A loop is inside its statement's block.
LEMMA LoopDepths ==
  ASSUME NEW t \in Seq(TodoTypes), NEW i, NEW l \in LoopTypes, LoopAt(t, i, l)
  PROVE  /\ i \in 1..Len(t) /\ l.scopeDepth + 1 \in Nat
         /\ t[i].outer <= l.scopeDepth + 1 /\ l.scopeDepth + 2 <= t[i].outer + Levels(t[i].kind)
         /\ Start(l) = t[i].at
<1>1. i \in 1..Len(t) /\ l.scopeDepth \in Int
  BY TodoIs DEF LoopAt, LoopTypes
<1>2. /\ t[i].outer \in Nat /\ Levels(t[i].kind) \in Nat
      /\ Levels(t[i].kind) >= 1 + (IF t[i].kind = "for" THEN 1 ELSE 0)
  BY <1>1, TodoIs
<1> DEFINE k == IF t[i].kind = "for" THEN 1 ELSE 0
<1>3. k \in 0..1 /\ l.scopeDepth + 1 = t[i].outer + k /\ Levels(t[i].kind) >= 1 + k
  BY <1>2 DEF LoopAt
<1> HIDE DEF k
<1> QED
  BY <1>1, <1>2, <1>3 DEF LoopAt

\* Every loop and every test leaves at least one block inside it.
LEMMA NestedFacts ==
  ASSUME NEW u \in UnitTypes, NEW ss \in Blocks, NEW t \in Seq(TodoTypes), Nested(u, ss, t)
  PROVE  /\ \A j \in 1..Len(u.loops) : /\ u.loops[j].scopeDepth + 1 \in Nat /\ u.loops[j].scopeDepth + 2 <= Len(ss)
                                       /\ u.loops[j].scopeDepth <= Last(u.loops).scopeDepth
         /\ \A i \in Ifs(t) : t[i].outer \in Nat /\ t[i].outer + 1 <= Len(ss)
<1> DEFINE n == Len(u.loops)
<1>1. PICK r : LoopsMatch(u, t, r)
  BY DEF Nested
<1>2. Len(ss) \in Nat /\ n \in Nat /\ u.loops \in Seq(LoopTypes) /\ \A j \in 1..n : u.loops[j] \in LoopTypes
  BY UnitFacts DEF Blocks
<1> HIDE DEF n
<1>3. ASSUME NEW j \in 1..n
      PROVE  /\ r[j] \in 1..Len(t) /\ u.loops[j].scopeDepth + 1 \in Nat /\ u.loops[j].scopeDepth \in Int
             /\ t[r[j]].outer <= u.loops[j].scopeDepth + 1 /\ u.loops[j].scopeDepth + 2 <= t[r[j]].outer + Levels(t[r[j]].kind)
             /\ t[r[j]].outer \in Nat /\ Levels(t[r[j]].kind) \in Nat
  <2>1. LoopAt(t, r[j], u.loops[j])
    BY <1>1 DEF LoopsMatch, n
  <2>2. r[j] \in 1..Len(t)
    BY <1>2, <2>1, LoopDepths
  <2> QED
    BY <1>2, <2>1, <2>2, LoopDepths, TodoIs DEF LoopTypes
<1>4. ASSUME NEW j \in 1..n PROVE u.loops[j].scopeDepth + 2 <= Len(ss)
  <2>1. t[r[j]].outer + Levels(t[r[j]].kind) <= Len(ss)
    BY <1>3 DEF Nested, NestAll
  <2> QED
    BY <1>2, <1>3, <2>1
<1>5. ASSUME NEW j \in 1..n PROVE u.loops[j].scopeDepth <= Last(u.loops).scopeDepth
  <2>1. u.loops # <<>>
    BY <1>2 DEF n
  <2>2. n \in 1..n /\ Last(u.loops) = u.loops[n]
    <3>1. n >= 1
      BY <1>2
    <3>2. Last(u.loops) = u.loops[n]
      BY <1>2, <2>1, LastIs DEF n
    <3> QED
      BY <1>2, <3>1, <3>2
  <2>3. CASE j = n
    BY <1>3, <2>2, <2>3
  <2>4. CASE j # n
    <3>1. j < n
      BY <1>2, <2>4
    <3>2. r[j] < r[n]
      BY <1>1, <2>2, <3>1 DEF LoopsMatch, n
    <3>3. t[r[j]].outer + Levels(t[r[j]].kind) <= t[r[n]].outer
      BY <1>3, <2>2, <3>2 DEF Nested, NestAll
    <3> HIDE DEF Levels
    <3>4. /\ u.loops[j].scopeDepth \in Int /\ u.loops[j].scopeDepth + 2 <= t[r[j]].outer + Levels(t[r[j]].kind)
          /\ t[r[j]].outer \in Nat /\ Levels(t[r[j]].kind) \in Nat
      BY <1>3
    <3>5. t[r[n]].outer \in Nat /\ t[r[n]].outer <= u.loops[n].scopeDepth + 1 /\ u.loops[n].scopeDepth \in Int
      BY <1>3, <2>2
    <3>6. \A a, b, x, y, z \in Int : a + 2 <= b + x /\ b + x <= y /\ y <= z + 1 => a <= z
      OBVIOUS
    <3>7. u.loops[j].scopeDepth <= u.loops[n].scopeDepth
      <4>1. PICK a \in Int : a = u.loops[j].scopeDepth
        BY <3>4
      <4>2. PICK b \in Int : b = t[r[j]].outer
        BY <3>4
      <4>3. PICK x \in Int : x = Levels(t[r[j]].kind)
        BY <3>4
      <4>4. PICK y \in Int : y = t[r[n]].outer
        BY <3>5
      <4>5. PICK z \in Int : z = u.loops[n].scopeDepth
        BY <3>5
      <4>6. a + 2 <= b + x /\ b + x <= y /\ y <= z + 1
        BY <3>3, <3>4, <3>5, <4>1, <4>2, <4>3, <4>4, <4>5
      <4>7. a <= z
        BY <3>6, <4>6
      <4> QED
        BY <4>1, <4>5, <4>7
    <3> QED
      BY <2>2, <3>7
  <2> QED
    BY <2>3, <2>4
<1>6. ASSUME NEW i \in Ifs(t) PROVE t[i].outer \in Nat /\ t[i].outer + 1 <= Len(ss)
  <2>1. i \in 1..Len(t)
    BY DEF Ifs
  <2>2. t[i].outer + Levels(t[i].kind) <= Len(ss)
    BY <2>1 DEF Nested, NestAll
  <2>3. t[i].outer \in Nat /\ Levels(t[i].kind) \in Nat /\ Levels(t[i].kind) >= 1
    BY <2>1, TodoIs DEF Levels
  <2> QED
    BY <1>2, <2>2, <2>3
<1> QED
  BY <1>3, <1>4, <1>5, <1>6 DEF n

\* Only the first k blocks matter for the loops and tests.
LEMMA BasesSame ==
  ASSUME NEW u, NEW t, NEW ss \in Blocks, NEW tt \in Blocks, NEW k \in Nat, k <= Len(ss), k <= Len(tt),
         \A i \in 1..k : ss[i] = tt[i],
         \A j \in 1..Len(u.loops) : u.loops[j].scopeDepth + 1 \in 0..k, \A i \in Ifs(t) : t[i].outer \in 0..k
  PROVE  SameBases(u, t, ss, tt)
<1>1. ASSUME NEW d \in 0..k PROVE d \in 0..Len(ss) /\ d \in 0..Len(tt) /\ UpTo(ss, d) = UpTo(tt, d)
  <2>1. d \in 0..Len(ss) /\ d \in 0..Len(tt) /\ d <= Len(tt) /\ \A i \in 1..d : i \in 1..k
    BY DEF Blocks
  <2> QED
    BY <2>1, UpToSame
<1> QED
  BY <1>1 DEF SameBases, Base

\* The innermost loop is the last of the statements that are loops.
LEMMA InnermostLoop ==
  ASSUME NEW u \in UnitTypes, NEW ss, NEW t \in Seq(TodoTypes), Nested(u, ss, t)
  PROVE  /\ u.loops # <<>> => LoopsIn(t) # {} /\ LoopAt(t, Max(LoopsIn(t)), Last(u.loops))
         /\ t # <<>> /\ Last(t).kind \in LoopKinds => u.loops # <<>> /\ LoopAt(t, Len(t), Last(u.loops)) /\ Last(t) = t[Len(t)]
<1> DEFINE n == Len(u.loops)
<1>1. PICK r : LoopsMatch(u, t, r)
  BY DEF Nested
<1>2. n \in Nat /\ u.loops \in Seq(LoopTypes) /\ Len(t) \in Nat /\ LoopsIn(t) \subseteq 1..Len(t)
  BY UnitFacts, TodoIs
<1> HIDE DEF n
<1>3. \A j \in 1..n : r[j] \in LoopsIn(t) /\ r[j] \in Nat
  BY <1>1, <1>2 DEF LoopsMatch, LoopAt, n
<1>4. ASSUME u.loops # <<>>
      PROVE  n \in 1..n /\ Last(u.loops) = u.loops[n] /\ LoopsIn(t) # {} /\ \A i \in LoopsIn(t) : i <= r[n]
  <2>1. n \in 1..n /\ Last(u.loops) = u.loops[n]
    <3>1. n >= 1
      BY <1>2, <1>4 DEF n
    <3>2. Last(u.loops) = u.loops[n]
      BY <1>2, <1>4, LastIs DEF n
    <3> QED
      BY <1>2, <3>1, <3>2
  <2>2. ASSUME NEW i \in LoopsIn(t) PROVE i <= r[n]
    <3>1. PICK j \in 1..n : r[j] = i
      BY <1>1 DEF LoopsMatch, n
    <3>2. CASE j = n
      BY <1>3, <2>1, <3>1, <3>2
    <3>3. CASE j # n
      <4>1. j < n
        BY <1>2, <3>3
      <4>2. r[j] < r[n]
        BY <1>1, <2>1, <4>1 DEF LoopsMatch, n
      <4> QED
        BY <1>3, <2>1, <3>1, <4>2
    <3> QED
      BY <3>2, <3>3
  <2> QED
    BY <1>3, <2>1, <2>2
<1>5. ASSUME u.loops # <<>> PROVE LoopsIn(t) # {} /\ LoopAt(t, Max(LoopsIn(t)), Last(u.loops))
  <2>1. LoopsIn(t) \subseteq 0..Len(t) /\ LoopsIn(t) # {}
    BY <1>2, <1>4, <1>5
  <2>2. Max(LoopsIn(t)) \in LoopsIn(t) /\ \A y \in LoopsIn(t) : Max(LoopsIn(t)) >= y
    BY <1>2, <2>1, MaxIs
  <2>3. Max(LoopsIn(t)) <= r[n] /\ Max(LoopsIn(t)) >= r[n]
    BY <1>3, <1>4, <1>5, <2>2
  <2>4. Max(LoopsIn(t)) = r[n]
    BY <1>2, <1>3, <1>4, <1>5, <2>2, <2>3
  <2> QED
    BY <1>1, <1>4, <1>5, <2>1, <2>4 DEF LoopsMatch, n
<1>6. ASSUME t # <<>>, Last(t).kind \in LoopKinds PROVE u.loops # <<>> /\ LoopAt(t, Len(t), Last(u.loops)) /\ Last(t) = t[Len(t)]
  <2>1. Last(t) = t[Len(t)] /\ Len(t) > 0
    BY <1>6, LastIs
  <2>2. Len(t) \in LoopsIn(t)
    BY <1>2, <1>6, <2>1 DEF LoopsIn
  <2>3. u.loops # <<>>
    BY <1>1, <2>2 DEF LoopsMatch
  <2>4. Len(t) <= r[n] /\ r[n] \in 1..Len(t)
    BY <1>2, <1>3, <1>4, <2>2, <2>3
  <2>5. Len(t) = r[n]
    BY <1>2, <2>4
  <2> QED
    BY <1>1, <1>4, <2>1, <2>3, <2>5 DEF LoopsMatch, n
<1> QED
  BY <1>5, <1>6

LEMMA NestAppend ==
  ASSUME NEW t \in Seq(TodoTypes), NEW n \in Nat, NestAll(t, n), NEW b \in TodoTypes, b.outer = n, NEW k, k = n + Levels(b.kind)
  PROVE  NestAll(Append(t, b), k)
<1> DEFINE r == Append(t, b)
<1>1. Len(t) \in Nat /\ Len(r) = Len(t) + 1 /\ r[Len(t) + 1] = b /\ \A i \in 1..Len(t) : r[i] = t[i]
  OBVIOUS
<1>2. Levels(b.kind) \in Nat
  BY DEF Levels
<1> HIDE DEF r
<1>3. ASSUME NEW i \in 1..Len(r)
      PROVE  /\ r[i].outer + Levels(r[i].kind) <= k
             /\ \A j \in 1..Len(r) : i < j => r[i].outer + Levels(r[i].kind) <= r[j].outer
  <2>1. CASE i = Len(t) + 1
    BY <1>1, <1>2, <2>1
  <2>2. CASE i # Len(t) + 1
    <3>1. i \in 1..Len(t) /\ r[i] = t[i]
      BY <1>1, <2>2
    <3>2. t[i].outer \in Nat /\ Levels(t[i].kind) \in Nat
      BY <3>1, TodoIs
    <3>3. t[i].outer + Levels(t[i].kind) <= n
      BY <3>1 DEF NestAll
    <3>4. t[i].outer + Levels(t[i].kind) <= k
      BY <1>2, <3>2, <3>3
    <3>5. ASSUME NEW j \in 1..Len(r), i < j PROVE r[i].outer + Levels(r[i].kind) <= r[j].outer
      <4>1. CASE j = Len(t) + 1
        BY <1>1, <3>1, <3>3, <4>1
      <4>2. CASE j # Len(t) + 1
        <5>1. j \in 1..Len(t)
          BY <1>1, <4>2
        <5> QED
          BY <1>1, <3>1, <3>5, <5>1 DEF NestAll
      <4> QED
        BY <4>1, <4>2
    <3> QED
      BY <3>1, <3>4, <3>5
  <2> QED
    BY <2>1, <2>2
<1> QED
  BY <1>3 DEF NestAll, r

LEMMA NestFront ==
  ASSUME NEW t \in Seq(TodoTypes), NEW n, NestAll(t, n), t # <<>>
  PROVE  NestAll(Front(t), Last(t).outer)
<1> DEFINE r == Front(t)
<1>1. Len(t) \in Nat /\ Len(t) > 0 /\ Len(r) = Len(t) - 1 /\ Last(t) = t[Len(t)] /\ \A i \in 1..Len(t) - 1 : r[i] = t[i]
  BY LastIs
<1> HIDE DEF r
<1>2. ASSUME NEW i \in 1..Len(r) PROVE i \in 1..Len(t) /\ i < Len(t) /\ r[i] = t[i] /\ Len(t) \in 1..Len(t)
  BY <1>1
<1> QED
  BY <1>1, <1>2 DEF NestAll, r

LEMMA LoopsInAre ==
  ASSUME NEW t \in Seq(TodoTypes)
  PROVE  /\ \A b : LoopsIn(Append(t, b)) = LoopsIn(t) \union (IF b.kind \in LoopKinds THEN {Len(t) + 1} ELSE {})
         /\ \A b : Append(t, b)[Len(t) + 1] = b /\ \A i \in LoopsIn(t) : Append(t, b)[i] = t[i] /\ i < Len(t) + 1
         /\ t # <<>> => /\ LoopsIn(t) = LoopsIn(Front(t)) \union (IF Last(t).kind \in LoopKinds THEN {Len(t)} ELSE {})
                        /\ \A i \in LoopsIn(Front(t)) : Front(t)[i] = t[i] /\ i < Len(t)
<1>1. Len(t) \in Nat
  OBVIOUS
<1>2. ASSUME NEW b
      PROVE  /\ LoopsIn(Append(t, b)) = LoopsIn(t) \union (IF b.kind \in LoopKinds THEN {Len(t) + 1} ELSE {})
             /\ \A i \in LoopsIn(t) : Append(t, b)[i] = t[i] /\ i < Len(t) + 1
             /\ Append(t, b)[Len(t) + 1] = b
  <2> DEFINE r == Append(t, b)
  <2>1. Len(r) = Len(t) + 1 /\ r[Len(t) + 1] = b /\ \A i \in 1..Len(t) : r[i] = t[i]
    OBVIOUS
  <2> HIDE DEF r
  <2>2. \A i : i \in 1..Len(r) <=> i \in 1..Len(t) \/ i = Len(t) + 1
    BY <1>1, <2>1
  <2>3. \A i \in 1..Len(t) : i < Len(t) + 1 /\ i # Len(t) + 1
    BY <1>1
  <2>4. LoopsIn(r) = LoopsIn(t) \union (IF b.kind \in LoopKinds THEN {Len(t) + 1} ELSE {})
    BY <2>1, <2>2, <2>3 DEF LoopsIn
  <2> QED
    BY <2>1, <2>3, <2>4 DEF r, LoopsIn
<1>3. ASSUME t # <<>>
      PROVE  /\ LoopsIn(t) = LoopsIn(Front(t)) \union (IF Last(t).kind \in LoopKinds THEN {Len(t)} ELSE {})
             /\ \A i \in LoopsIn(Front(t)) : Front(t)[i] = t[i] /\ i < Len(t)
  <2> DEFINE r == Front(t)
             b == Last(t)
  <2>1. Len(t) > 0 /\ Len(r) = Len(t) - 1 /\ b = t[Len(t)] /\ \A i \in 1..Len(t) - 1 : r[i] = t[i]
    BY <1>3, LastIs
  <2> HIDE DEF r, b
  <2>2. \A i : i \in 1..Len(t) <=> i \in 1..Len(r) \/ i = Len(t)
    BY <1>1, <2>1
  <2>3. \A i \in 1..Len(r) : i < Len(t) /\ i # Len(t) /\ r[i] = t[i]
    BY <1>1, <2>1
  <2>4. LoopsIn(t) = LoopsIn(r) \union (IF b.kind \in LoopKinds THEN {Len(t)} ELSE {})
    BY <2>1, <2>2, <2>3 DEF LoopsIn
  <2> QED
    BY <2>3, <2>4 DEF r, b, LoopsIn
<1> QED
  BY <1>2, <1>3

LEMMA NestedSame ==
  ASSUME NEW u, NEW ss, NEW t, Nested(u, ss, t), NEW w, w.loops = u.loops, NEW tt, Len(tt) = Len(ss)
  PROVE  Nested(w, tt, t)
BY DEF Nested, LoopsMatch

LEMMA NestedEnter ==
  ASSUME NEW u \in UnitTypes, NEW ss \in Blocks, NEW t \in Seq(TodoTypes), Nested(u, ss, t),
         NEW b \in TodoTypes, b.outer = Len(ss), b.kind \notin LoopKinds, NEW w, w.loops = u.loops,
         NEW tt, Len(tt) = Len(ss) + Levels(b.kind)
  PROVE  Nested(w, tt, Append(t, b))
<1>1. Len(ss) \in Nat
  BY DEF Blocks
<1>2. NestAll(Append(t, b), Len(tt))
  BY <1>1, NestAppend DEF Nested
<1>3. PICK r : LoopsMatch(u, t, r)
  BY DEF Nested
<1>4. LoopsIn(Append(t, b)) = LoopsIn(t) /\ \A i \in LoopsIn(t) : Append(t, b)[i] = t[i]
  <2> DEFINE x == Append(t, b)
  <2>1. LoopsIn(x) = LoopsIn(t) \union {}
    BY LoopsInAre
  <2>2. \A i \in 1..Len(t) : x[i] = t[i]
    OBVIOUS
  <2>3. \A i \in LoopsIn(t) : i \in 1..Len(t)
    BY DEF LoopsIn
  <2> HIDE DEF x
  <2>4. \A i \in LoopsIn(t) : x[i] = t[i]
    BY <2>2, <2>3
  <2> QED
    BY <2>1, <2>4 DEF x
<1>5. LoopsMatch(w, Append(t, b), r)
  BY <1>3, <1>4 DEF LoopsMatch, LoopAt
<1> QED
  BY <1>2, <1>5 DEF Nested

LEMMA NestedEnterLoop ==
  ASSUME NEW u \in UnitTypes, NEW ss \in Blocks, NEW t \in Seq(TodoTypes), Nested(u, ss, t),
         NEW b \in TodoTypes, b.outer = Len(ss), b.kind \in LoopKinds, NEW l, NEW w, w.loops = Append(u.loops, l),
         b.at = Start(l), l.scopeDepth + 1 = b.outer + (IF b.kind = "for" THEN 1 ELSE 0),
         NEW tt, Len(tt) = Len(ss) + Levels(b.kind)
  PROVE  Nested(w, tt, Append(t, b))
<1> DEFINE n == Len(u.loops)
           x == Append(t, b)
<1>1. /\ Len(ss) \in Nat /\ n \in Nat /\ Len(t) \in Nat /\ Len(w.loops) = n + 1 /\ w.loops[n + 1] = l
      /\ \A j \in 1..n : w.loops[j] = u.loops[j]
  <2>1. u.loops \in Seq(LoopTypes)
    BY UnitFacts
  <2> QED
    BY <2>1 DEF Blocks
<1>2. NestAll(x, Len(tt))
  BY <1>1, NestAppend DEF Nested
<1>3. PICK r : LoopsMatch(u, t, r)
  BY DEF Nested
<1>4. /\ LoopsIn(x) = LoopsIn(t) \union {Len(t) + 1} /\ x[Len(t) + 1] = b
      /\ \A i \in LoopsIn(t) : x[i] = t[i] /\ i < Len(t) + 1
  BY LoopsInAre
<1> HIDE DEF n, x
<1> DEFINE q == [j \in 1..n + 1 |-> IF j = n + 1 THEN Len(t) + 1 ELSE r[j]]
<1>5. /\ \A j : j \in 1..n + 1 <=> j \in 1..n \/ j = n + 1
      /\ \A j \in 1..n : j # n + 1 /\ ~(n + 1 < j)
  BY <1>1
<1>6. q[n + 1] = Len(t) + 1 /\ \A j \in 1..n : q[j] = r[j]
  BY <1>1, <1>5
<1> HIDE DEF q
<1>7. \A j \in 1..n : LoopAt(t, r[j], u.loops[j])
  BY <1>3 DEF LoopsMatch, n
<1>8. ASSUME NEW j \in 1..n + 1 PROVE LoopAt(x, q[j], w.loops[j])
  <2>1. CASE j = n + 1
    BY <1>1, <1>4, <1>6, <2>1 DEF LoopAt
  <2>2. CASE j \in 1..n
    BY <1>1, <1>4, <1>6, <1>7, <2>2 DEF LoopAt
  <2> QED
    BY <1>5, <2>1, <2>2
<1>9. ASSUME NEW i \in 1..n + 1, NEW j \in 1..n + 1, i < j PROVE q[i] < q[j]
  <2>1. i \in 1..n
    BY <1>1, <1>9
  <2>2. CASE j = n + 1
    <3>1. r[i] < Len(t) + 1
      BY <1>4, <1>7, <2>1 DEF LoopAt
    <3> QED
      BY <1>6, <2>1, <2>2, <3>1
  <2>3. CASE j \in 1..n
    BY <1>3, <1>6, <1>9, <2>1, <2>3 DEF LoopsMatch, n
  <2> QED
    BY <1>5, <2>2, <2>3
<1>10. ASSUME NEW i \in LoopsIn(x) PROVE \E j \in 1..n + 1 : q[j] = i
  <2>1. CASE i = Len(t) + 1
    <3>1. n + 1 \in 1..n + 1
      BY <1>1
    <3> QED
      BY <1>6, <2>1, <3>1
  <2>2. CASE i \in LoopsIn(t)
    BY <1>3, <1>5, <1>6, <2>2 DEF LoopsMatch, n
  <2> QED
    BY <1>4, <2>1, <2>2
<1>11. LoopsMatch(w, x, q)
  BY <1>1, <1>8, <1>9, <1>10 DEF LoopsMatch
<1> QED
  BY <1>2, <1>11 DEF Nested, x

LEMMA NestedLeave ==
  ASSUME NEW u \in UnitTypes, NEW ss, NEW t \in Seq(TodoTypes), Nested(u, ss, t), t # <<>>,
         NEW w, w.loops = IF Last(t).kind \in LoopKinds THEN Front(u.loops) ELSE u.loops,
         NEW tt, Len(tt) = Last(t).outer
  PROVE  Nested(w, tt, Front(t))
<1> DEFINE x == Front(t)
           n == Len(u.loops)
<1>1. NestAll(x, Len(tt))
  BY NestFront DEF Nested
<1>2. PICK r : LoopsMatch(u, t, r)
  BY DEF Nested
<1>3. /\ LoopsIn(t) = LoopsIn(x) \union (IF Last(t).kind \in LoopKinds THEN {Len(t)} ELSE {})
      /\ \A i \in LoopsIn(x) : x[i] = t[i] /\ i < Len(t)
  BY LoopsInAre
<1>4. CASE Last(t).kind \notin LoopKinds
  <2>1. LoopsMatch(w, x, r)
    <3> HIDE DEF x
    <3> QED
      BY <1>2, <1>3, <1>4 DEF LoopsMatch, LoopAt
  <2> QED
    BY <1>1, <2>1 DEF Nested
<1>5. CASE Last(t).kind \in LoopKinds
  <2>1. u.loops # <<>> /\ LoopAt(t, Len(t), Last(u.loops))
    BY <1>5, InnermostLoop
  <2>2. /\ n \in Nat /\ n > 0 /\ Len(w.loops) = n - 1 /\ \A j \in 1..n - 1 : w.loops[j] = u.loops[j]
        /\ Len(t) \in Nat
    <3>1. u.loops \in Seq(LoopTypes)
      BY UnitFacts
    <3> QED
      BY <1>5, <2>1, <3>1, LastIs
  <2> HIDE DEF x, n
  <2>3. ASSUME NEW j \in 1..n - 1 PROVE j \in 1..n /\ j # n /\ j < n /\ n \in 1..n
    BY <2>2
  <2>4. \A j \in 1..n : r[j] \in LoopsIn(t) /\ LoopAt(t, r[j], u.loops[j]) /\ r[j] \in 1..Len(t)
    BY <1>2, TodoIs DEF LoopsMatch, LoopAt, n
  <2>5. PICK k \in 1..n : r[k] = Len(t)
    BY <1>2, <2>1 DEF LoopsMatch, LoopAt, n
  <2>6. k = n
    <3> SUFFICES ASSUME k # n PROVE FALSE
      OBVIOUS
    <3>1. k < n /\ n \in 1..n
      BY <2>2, <2>5
    <3>2. r[k] < r[n]
      BY <1>2, <3>1 DEF LoopsMatch, n
    <3> QED
      BY <2>2, <2>4, <2>5, <3>1, <3>2
  <2>7. ASSUME NEW j \in 1..n - 1 PROVE r[j] \in LoopsIn(x) /\ LoopAt(x, r[j], w.loops[j])
    <3>1. j \in 1..n /\ n \in 1..n /\ r[j] < r[n]
      BY <1>2, <2>3 DEF LoopsMatch, n
    <3>2. r[j] # Len(t)
      BY <2>4, <2>5, <2>6, <3>1
    <3>3. r[j] \in LoopsIn(x) /\ x[r[j]] = t[r[j]]
      BY <1>3, <1>5, <2>4, <3>1, <3>2
    <3> QED
      BY <2>2, <2>4, <3>1, <3>3 DEF LoopAt
  <2>8. ASSUME NEW i \in LoopsIn(x) PROVE \E j \in 1..n - 1 : r[j] = i
    <3>1. PICK j \in 1..n : r[j] = i
      BY <1>2, <1>3 DEF LoopsMatch, n
    <3>2. j # n
      BY <1>3, <2>2, <2>5, <2>6, <3>1
    <3>3. j \in 1..n - 1
      BY <2>2, <3>2
    <3> QED
      BY <3>1, <3>3
  <2>9. LoopsMatch(w, x, r)
    <3>1. \A i, j \in 1..n - 1 : i < j => r[i] < r[j]
      BY <1>2, <2>3 DEF LoopsMatch, n
    <3> QED
      BY <2>2, <2>7, <2>8, <3>1 DEF LoopsMatch
  <2> QED
    BY <1>1, <2>9 DEF Nested, x
<1> QED
  BY <1>4, <1>5
=============================================================================
