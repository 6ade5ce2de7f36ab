--------------------------- MODULE ExecutionProof ---------------------------
(***************************************************************************)
(* For programs of any length and blocks nested to any depth: the code the *)
(* compiler writes keeps the stack as the scopes of the source say, on     *)
(* whatever way it is run.                                                 *)
(***************************************************************************)
EXTENDS CodegenProof

-----------------------------------------------------------------------------
(***************************************************************************)
(* The compiler.                                                           *)
(***************************************************************************)
\* Before the function is complete, T is the stack at each of its instructions.
Compiling(T) ==
  /\ Good(cu, scopes, todo, T, Waiting(cu, todo), marks, jumps, ends)
  /\ Nested(cu, scopes, todo) /\ Len(cu.upvalueNums) <= Count(cu)
  /\ ip = 0 /\ depth = 0 /\ open = {}

\* What the compiler and the machine can represent: offsets of 16 bits with a sign, 8 bits for slots.
Fits == Count(cu) < Half /\ Len(cu.localVars) <= BYTE

LEMMA HalfIs == Half \in Nat /\ BYTE * BYTE \in Nat /\ Half <= BYTE * BYTE
<1>1. BYTE * BYTE \in Nat
  <2>1. \A n \in Nat : n * n \in Nat
    OBVIOUS
  <2> QED
    BY <2>1, ByteFacts
<1>2. \A n \in Nat : n \div 2 \in Nat /\ n \div 2 <= n
  OBVIOUS
<1> QED
  BY <1>1, <1>2 DEF Half

LEMMA ShortIsNumber ==
  ASSUME NEW u, u.code \in Seq(Bytes), NEW a \in Nat, a + 2 <= Count(u)
  PROVE  ShortAt(u, a) \in Nat
<1>1. a + 2 <= Len(u.code) /\ Len(u.code) \in Nat
  BY DEF Count
<1>2. a + 1 \in 1..Len(u.code) /\ (a + 1) + 1 \in 1..Len(u.code)
  BY <1>1
<1>3. u.code[a + 1] \in Bytes /\ u.code[(a + 1) + 1] \in Bytes
  BY <1>2
<1>4. \A x, y \in Bytes : x * BYTE + y \in Nat
  <2> SUFFICES ASSUME NEW x \in Bytes, NEW y \in Bytes PROVE x * BYTE + y \in Nat
    OBVIOUS
  <2>1. x \in Nat /\ y \in Nat /\ BYTE \in Nat
    BY ByteFacts DEF Bytes
  <2>2. \A m, n \in Nat : m * n \in Nat
    OBVIOUS
  <2>3. x * BYTE \in Nat
    BY <2>1, <2>2
  <2> QED
    BY <2>1, <2>3
<1> QED
  BY <1>3, <1>4 DEF ShortAt, ByteAt

\* An operand that leads to another place of the code is no negative number.
LEMMA SignedAhead ==
  ASSUME NEW u, u.code \in Seq(Bytes), Count(u) < Half, NEW a \in Nat, a + 3 <= Count(u),
         \/ Target(u, a) \in Int /\ Target(u, a) <= Count(u)
         \/ BackTarget(u, a) \in Int /\ BackTarget(u, a) >= 0
  PROVE  AsSigned(ShortAt(u, a + 1)) = ShortAt(u, a + 1) /\ ShortAt(u, a + 1) \in Nat
<1> DEFINE n == ShortAt(u, a + 1)
<1>1. (a + 1) + 2 <= Count(u) /\ a + 1 \in Nat /\ Count(u) \in Nat
  BY DEF Count
<1>2. n \in Nat
  BY <1>1, ShortIsNumber
<1> HIDE DEF n
<1>3. n <= Count(u)
  <2>1. CASE Target(u, a) \in Int /\ Target(u, a) <= Count(u)
    <3>1. a + 3 + n <= Count(u)
      BY <2>1 DEF Target, n
    <3> QED
      BY <1>1, <1>2, <3>1
  <2>2. CASE BackTarget(u, a) \in Int /\ BackTarget(u, a) >= 0
    <3>1. a + 3 - n >= 0
      BY <2>2 DEF BackTarget, n
    <3> QED
      BY <1>1, <1>2, <3>1
  <2> QED
    BY <2>1, <2>2
<1>4. n < Half
  BY <1>1, <1>2, <1>3, HalfIs
<1> QED
  BY <1>2, <1>4 DEF AsSigned, n

\* The blocks around the innermost one decide where loops and tests go.
LEMMA NestedBases ==
  ASSUME NEW u, NEW ss, NEW t, ReadingOK(u, ss, t), Nested(u, ss, t),
         NEW tt \in Blocks, Len(ss) - 1 <= Len(tt), \A i \in 1..Len(ss) - 1 : ss[i] = tt[i]
  PROVE  /\ SameBases(u, t, ss, tt)
         /\ \A j \in 1..Len(u.loops) : /\ Base(ss, u.loops[j]) \in Nat /\ Base(ss, u.loops[j]) <= UpTo(ss, Len(ss) - 1)
                                       /\ Base(ss, u.loops[j]) <= Base(ss, Last(u.loops))
                                       /\ Base(ss, u.loops[j]) <= Len(u.localVars)
<1>1. u \in UnitTypes /\ ss \in Blocks /\ t \in Seq(TodoTypes) /\ Len(ss) \in Nat /\ ScopesOK(u, ss) /\ Len(tt) \in Nat
  <2>1. ScopesOK(u, ss) /\ t \in Seq(TodoTypes)
    BY DEF ReadingOK
  <2> QED
    BY <2>1 DEF ScopesOK, Blocks
<1>2. /\ \A j \in 1..Len(u.loops) : /\ u.loops[j].scopeDepth + 1 \in Nat /\ u.loops[j].scopeDepth + 2 <= Len(ss)
                                    /\ u.loops[j].scopeDepth <= Last(u.loops).scopeDepth
      /\ \A i \in Ifs(t) : t[i].outer \in Nat /\ t[i].outer + 1 <= Len(ss)
  BY <1>1, NestedFacts
<1>3. /\ \A j, k \in 0..Len(ss) : j <= k => UpTo(ss, j) <= UpTo(ss, k)
      /\ \A k \in 0..Len(ss) : UpTo(ss, k) \in Nat
      /\ UpTo(ss, Len(ss)) = Len(u.localVars)
  BY <1>1, UpToFacts, ScopesFacts
<1>4. ASSUME NEW j \in 1..Len(u.loops)
      PROVE  /\ Base(ss, u.loops[j]) \in Nat /\ Base(ss, u.loops[j]) <= UpTo(ss, Len(ss) - 1)
             /\ Base(ss, u.loops[j]) <= Base(ss, Last(u.loops)) /\ Base(ss, u.loops[j]) <= Len(u.localVars)
             /\ Len(ss) - 1 \in Nat /\ u.loops[j].scopeDepth + 1 \in 0..Len(ss) - 1
  <2> DEFINE d == u.loops[j].scopeDepth + 1
             e == Last(u.loops).scopeDepth + 1
  <2>1. u.loops \in Seq(LoopTypes) /\ u.loops # <<>> /\ u.loops[j] \in LoopTypes
    BY <1>1, UnitFacts
  <2>2. Last(u.loops) = u.loops[Len(u.loops)] /\ Len(u.loops) \in 1..Len(u.loops)
    <3>1. Last(u.loops) = u.loops[Len(u.loops)] /\ Len(u.loops) \in Nat /\ Len(u.loops) > 0
      BY <2>1, LastIs
    <3> QED
      BY <3>1
  <2>3. d \in Nat /\ d + 1 <= Len(ss)
    BY <1>2, <2>1 DEF LoopTypes
  <2>4. e \in Nat /\ e + 1 <= Len(ss) /\ d <= e
    <3>1. u.loops[Len(u.loops)] \in LoopTypes
      BY <2>1, <2>2
    <3>2. u.loops[Len(u.loops)].scopeDepth \in Int /\ u.loops[j].scopeDepth \in Int
      BY <2>1, <3>1 DEF LoopTypes
    <3>3. u.loops[j].scopeDepth <= u.loops[Len(u.loops)].scopeDepth /\ u.loops[Len(u.loops)].scopeDepth + 1 \in Nat
          /\ u.loops[Len(u.loops)].scopeDepth + 2 <= Len(ss)
      BY <1>2, <2>2
    <3>4. \A x, y \in Int : x <= y => x + 1 <= y + 1
      OBVIOUS
    <3>5. \A x, y \in Int : x + 2 <= y => x + 1 + 1 <= y
      OBVIOUS
    <3> QED
      BY <1>1, <2>2, <3>2, <3>3, <3>4, <3>5
  <2> HIDE DEF d, e
  <2>5. d \in 0..Len(ss) /\ e \in 0..Len(ss) /\ Len(ss) - 1 \in 0..Len(ss) /\ Len(ss) \in 0..Len(ss) /\ d <= Len(ss) - 1 /\ d <= Len(ss)
    BY <1>1, <2>3, <2>4
  <2>6. UpTo(ss, d) \in Nat /\ UpTo(ss, d) <= UpTo(ss, Len(ss) - 1) /\ UpTo(ss, d) <= UpTo(ss, e) /\ UpTo(ss, d) <= UpTo(ss, Len(ss))
    BY <1>3, <2>4, <2>5
  <2>7. d \in 0..Len(ss) - 1 /\ Len(ss) - 1 \in Nat
    BY <1>1, <2>3
  <2> QED
    BY <1>3, <2>6, <2>7 DEF d, e, Base
<1>5. ASSUME NEW i \in Ifs(t) PROVE Len(ss) - 1 \in Nat /\ t[i].outer \in 0..Len(ss) - 1
  BY <1>1, <1>2
<1>6. CASE Len(ss) = 0
  <2>1. \A j \in 1..Len(u.loops) : FALSE
    BY <1>4, <1>6
  <2>2. \A i \in Ifs(t) : FALSE
    BY <1>5, <1>6
  <2> QED
    BY <2>1, <2>2 DEF SameBases
<1>7. CASE Len(ss) > 0
  <2>1. Len(ss) - 1 \in Nat /\ Len(ss) - 1 <= Len(ss)
    BY <1>1, <1>7
  <2>2. SameBases(u, t, ss, tt)
    BY <1>1, <1>4, <1>5, <2>1, BasesSame
  <2> QED
    BY <1>4, <2>2
<1> QED
  BY <1>1, <1>6, <1>7

LEMMA CompilingFacts ==
  ASSUME NEW T, Compiling(T), ReadingOK(cu, scopes, todo)
  PROVE  /\ cu \in UnitTypes /\ Count(cu) \in Nat /\ ScopesOK(cu, scopes) /\ scopes \in Blocks
         /\ Sound(cu, T, Waiting(cu, todo)) /\ T[Count(cu)] = Frame(cu)
         /\ Frame(cu) \in Stacks /\ Frame(cu).d = Len(cu.localVars) /\ Frame(cu).c = Held(cu) /\ Len(cu.localVars) \in Nat
         /\ Above(cu, T, cu, T, Waiting(cu, todo), Frame(cu), 0)
         /\ Good(cu, scopes, todo, T, Waiting(cu, todo), Mark, jumps, ends)
         /\ SameBases(cu, todo, scopes, scopes)
         /\ \A j \in 1..Len(cu.loops) : Base(scopes, cu.loops[j]) <= Len(cu.localVars)
         /\ todo \in Seq(TodoTypes)
<1>1. /\ Good(cu, scopes, todo, T, Waiting(cu, todo), marks, jumps, ends) /\ Nested(cu, scopes, todo)
      /\ Sound(cu, T, Waiting(cu, todo)) /\ T[Count(cu)] = Frame(cu) /\ ScopesOK(cu, scopes)
  BY DEF Compiling, Good
<1>2. cu \in UnitTypes /\ Count(cu) \in Nat /\ scopes \in Blocks
  BY <1>1, SoundFacts DEF ScopesOK
<1>3. Frame(cu) \in Stacks /\ Frame(cu).d = Len(cu.localVars) /\ Frame(cu).c = Held(cu) /\ Len(cu.localVars) \in Nat
  BY <1>2, FrameIs
<1>4. Above(cu, T, cu, T, Waiting(cu, todo), Frame(cu), 0)
  BY <1>1, AboveSelf
<1>5. Good(cu, scopes, todo, T, Waiting(cu, todo), Mark, jumps, ends)
  BY <1>1, GoodMark DEF Mark, InScope
<1>6. /\ SameBases(cu, todo, scopes, scopes)
      /\ \A j \in 1..Len(cu.loops) : Base(scopes, cu.loops[j]) <= Len(cu.localVars)
  <2>1. Len(scopes) - 1 <= Len(scopes)
    BY <1>2 DEF Blocks
  <2> QED
    BY <1>1, <1>2, <2>1, NestedBases
<1> QED
  BY <1>1, <1>2, <1>3, <1>4, <1>5, <1>6 DEF ReadingOK

\* A statement without a body leaves the stack as it was.
LEMMA SimpleCompiles ==
  ASSUME NEW T, Compiling(T), ReadingOK(cu, scopes, todo), NEW code, Simple(code), jumps' = jumps, SameBut(cu, code),
         NEW U, Above(cu, T, code, U, Waiting(cu, todo), Frame(cu), 0)
  PROVE  Compiling(U)'
<1>1. /\ cu \in UnitTypes /\ Count(cu) \in Nat /\ ScopesOK(cu, scopes) /\ Frame(cu).d = Len(cu.localVars) /\ Len(cu.localVars) \in Nat
      /\ Frame(cu) \in Stacks
      /\ Good(cu, scopes, todo, T, Waiting(cu, todo), Mark, jumps, ends) /\ SameBases(cu, todo, scopes, scopes)
      /\ \A j \in 1..Len(cu.loops) : Base(scopes, cu.loops[j]) <= Len(cu.localVars)
  BY CompilingFacts
<1>2. /\ code.loops = cu.loops /\ code.upvalueNums = cu.upvalueNums /\ code.isModule = cu.isModule /\ code.localVars = cu.localVars
  BY DEF SameBut
<1>3. /\ Sound(code, U, Waiting(cu, todo)) /\ Grew(cu, T, code, U, Len(cu.localVars)) /\ U[Count(code)] = Frame(cu)
      /\ Count(cu) <= Count(code)
  <2>1. U[Count(code)] = On(Frame(cu), 0)
    BY DEF Above
  <2> QED
    BY <1>1, <2>1, OnIs DEF Above, Grew
<1>4. Frame(code) = Frame(cu) /\ Alike(cu, code)
  BY <1>2 DEF Frame, Held, Alike
<1>5. ScopesOK(code, scopes)
  BY <1>1, ScopesSame
<1>6. Appends(cu, scopes, todo, T, code, scopes, U, Waiting(cu, todo), Len(cu.localVars))
  BY <1>1, <1>2, <1>3, <1>4, <1>5 DEF Appends
<1>7. Good(code, scopes, todo, U, Waiting(cu, todo), Mark, jumps, ends)
  BY <1>1, <1>6, GoodAppends
<1>8. Waiting(code, todo) = Waiting(cu, todo)
  BY <1>2, WaitingSame
<1>9. Nested(code, scopes, todo)
  BY <1>2, NestedSame DEF Compiling
<1>10. Len(code.upvalueNums) <= Count(code)
  <2>1. Count(code) \in Nat /\ Len(cu.upvalueNums) \in Nat
    BY <1>1, <1>3, SoundFacts, UnitFacts
  <2> QED
    BY <1>1, <1>2, <1>3, <2>1 DEF Compiling
<1>11. /\ cu' = code /\ todo' = todo /\ scopes' = scopes /\ marks' = Mark /\ ends' = ends /\ jumps' = jumps
       /\ ip' = ip /\ depth' = depth /\ open' = open
  BY DEF Simple, Begin, machine
<1>12. Good(cu', scopes', todo', U, Waiting(cu', todo'), marks', jumps', ends')
  BY <1>7, <1>8, <1>11
<1> QED
  BY <1>9, <1>10, <1>11, <1>12 DEF Compiling

(***************************************************************************)
(* Code that is appended to the unit o.                                    *)
(***************************************************************************)
\* All of o but the code is as it was.
Wrt(o, O, u, T, P, f, k) == Above(o, O, u, T, P, f, k) /\ SameBut(o, u)

\* The instruction at address a has been appended; it is to jump to where k values are above f.
Opened(o, u, T, a, f, k) ==
  /\ a \in DOMAIN T /\ a >= Count(o) /\ a < Count(u) /\ ByteAt(u, a) \in Branching \union {JUMP}
  /\ Lands(ByteAt(u, a), T[a]) = On(f, k)

LEMMA WrtFacts ==
  ASSUME NEW o, NEW O, NEW u, NEW T, NEW P, NEW f, NEW k, Wrt(o, O, u, T, P, f, k)
  PROVE  /\ Above(o, O, u, T, P, f, k) /\ SameBut(o, u) /\ u \in UnitTypes /\ Sound(u, T, P) /\ Count(u) \in Nat /\ Count(o) \in Nat
         /\ Count(o) <= Count(u) /\ f \in Stacks /\ k \in Nat /\ Count(u) \in DOMAIN T /\ T[Count(u)] = On(f, k)
         /\ T[Count(u)].d <= u.stackSlotNum
<1>1. /\ Above(o, O, u, T, P, f, k) /\ SameBut(o, u) /\ u \in UnitTypes
  BY DEF Wrt, SameBut
<1>2. Sound(u, T, P) /\ Count(o) \in Nat /\ Count(o) <= Count(u) /\ f \in Stacks /\ k \in Nat /\ T[Count(u)] = On(f, k)
  BY <1>1 DEF Above, Grew
<1> QED
  BY <1>1, <1>2, SoundFacts

LEMMA ExpressionCount ==
  ASSUME NEW u \in UnitTypes
  PROVE  /\ Count(Expression(u)) = Count(u) + 3 /\ Expression(u) \in UnitTypes
         /\ Wrote(u, Expression(u), <<LOAD_MODULE_VAR, High(0), Low(0)>>, SlotsUsed(LOAD_MODULE_VAR))
<1>1. Wrote(u, Expression(u), <<LOAD_MODULE_VAR, High(0), Low(0)>>, SlotsUsed(LOAD_MODULE_VAR))
  BY OpcodeTypes, WriteShortIs DEF Expression
<1>2. u.code \in Seq(Int) /\ <<LOAD_MODULE_VAR, High(0), Low(0)>> \in Seq(Int)
  <2>1. LOAD_MODULE_VAR \in Int /\ High(0) \in Int /\ Low(0) \in Int
    BY OpcodeTypes, OpcodeFacts, ByteFacts
  <2> QED
    BY <2>1, UnitFacts
<1> QED
  BY <1>1, <1>2 DEF Wrote, Count, SameBut

LEMMA WrtExpression ==
  ASSUME NEW o, NEW O, NEW u, NEW T, NEW P, NEW f, NEW k, Wrt(o, O, u, T, P, f, k)
  PROVE  LET w == Expression(u)
         IN  \E U : Wrt(o, O, w, U, P, f, k + 1) /\ Grew(u, T, w, U, f.d) /\ Count(w) = Count(u) + 3
<1>1. Above(o, O, u, T, P, f, k) /\ SameBut(o, u) /\ u \in UnitTypes
  BY WrtFacts
<1>2. SameBut(u, Expression(u)) /\ Count(Expression(u)) = Count(u) + 3
  BY <1>1, WritersKeep, ExpressionCount
<1>3. SameBut(o, Expression(u))
  BY <1>1, <1>2, SameButTwice
<1>4. PICK U : Above(o, O, Expression(u), U, P, f, k + 1) /\ Grew(u, T, Expression(u), U, f.d)
  BY <1>1, ExpressionAbove
<1> QED
  BY <1>2, <1>3, <1>4 DEF Wrt

LEMMA WrtOpCode ==
  ASSUME NEW o, NEW O, NEW u, NEW T, NEW P, NEW f, NEW k, Wrt(o, O, u, T, P, f, k), NEW op \in {PUSH_NULL, POP},
         k + SlotsUsed(op) >= 0
  PROVE  LET w == WriteOpCode(u, op)
         IN  \E U : Wrt(o, O, w, U, P, f, k + SlotsUsed(op)) /\ Grew(u, T, w, U, f.d)
<1>1. Above(o, O, u, T, P, f, k) /\ SameBut(o, u) /\ u \in UnitTypes
  BY WrtFacts
<1>2. SameBut(u, WriteOpCode(u, op))
  BY <1>1, WritersKeep, OpcodeTypes
<1>3. SameBut(o, WriteOpCode(u, op))
  BY <1>1, <1>2, SameButTwice
<1>4. PICK U : Above(o, O, WriteOpCode(u, op), U, P, f, k + SlotsUsed(op)) /\ Grew(u, T, WriteOpCode(u, op), U, f.d)
  BY <1>1, WriteOpCodeAbove
<1> QED
  BY <1>3, <1>4 DEF Wrt

LEMMA WrtShort ==
  ASSUME NEW o, NEW O, NEW u, NEW T, NEW P, NEW f, NEW k, Wrt(o, O, u, T, P, f, k),
         NEW op \in {LOAD_MODULE_VAR, STORE_MODULE_VAR, CALL1}, NEW n \in Int, k + SlotsUsed(op) >= 0
  PROVE  LET w == WriteShort(u, op, n)
         IN  \E U : Wrt(o, O, w, U, P, f, k + SlotsUsed(op)) /\ Grew(u, T, w, U, f.d)
<1>1. Above(o, O, u, T, P, f, k) /\ SameBut(o, u) /\ u \in UnitTypes
  BY WrtFacts
<1>2. SameBut(u, WriteShort(u, op, n))
  BY <1>1, WritersKeep, OpcodeTypes
<1>3. SameBut(o, WriteShort(u, op, n))
  BY <1>1, <1>2, SameButTwice
<1>4. PICK U : Above(o, O, WriteShort(u, op, n), U, P, f, k + SlotsUsed(op)) /\ Grew(u, T, WriteShort(u, op, n), U, f.d)
  BY <1>1, WriteShortAbove
<1> QED
  BY <1>3, <1>4 DEF Wrt

LEMMA OpenedGrew ==
  ASSUME NEW o, NEW O, NEW u, NEW T, NEW P, NEW f, NEW k, Wrt(o, O, u, T, P, f, k), NEW w, NEW U, NEW m, Grew(u, T, w, U, m),
         Count(w) \in Nat
  PROVE  \A a, j : Opened(o, u, T, a, f, j) => Opened(o, w, U, a, f, j)
<1> SUFFICES ASSUME NEW a, NEW j, Opened(o, u, T, a, f, j) PROVE Opened(o, w, U, a, f, j)
  OBVIOUS
<1>1. /\ Sound(u, T, P) /\ Count(u) \in Nat
  BY WrtFacts
<1>2. a \in Nat /\ a < Count(u) /\ a \in DOMAIN T
  BY <1>1, SoundFacts DEF Opened
<1>3. a + 1 \in 1..Count(u)
  BY <1>1, <1>2
<1>4. Count(u) <= Count(w) /\ w.code[a + 1] = u.code[a + 1] /\ a \in DOMAIN U /\ U[a] = T[a]
  BY <1>2, <1>3 DEF Grew
<1>5. ByteAt(w, a) = ByteAt(u, a)
  BY <1>4 DEF ByteAt
<1>6. a < Count(w)
  BY <1>1, <1>2, <1>4
<1> QED
  BY <1>4, <1>5, <1>6 DEF Opened

LEMMA WrtBranch ==
  ASSUME NEW o, NEW O, NEW u, NEW T, NEW P, NEW f, NEW k \in Nat, Wrt(o, O, u, T, P, f, k + 1), NEW op \in Branching
  PROVE  LET w == EmitInstrWithPlaceholder(u, op)
         IN  /\ \E U : /\ Wrt(o, O, w, U, P \union {Count(u)}, f, k) /\ Grew(u, T, w, U, f.d)
                       /\ Opened(o, w, U, Count(u), f, IF op = JUMP_IF_FALSE THEN k ELSE k + 1)
             /\ Placeholder(w) = Count(u) + 1 /\ Count(w) = Count(u) + 3 /\ ByteAt(w, Count(u)) = op
<1> DEFINE w == EmitInstrWithPlaceholder(u, op)
           N == Count(u)
<1>1. /\ Above(o, O, u, T, P, f, k + 1) /\ SameBut(o, u) /\ u \in UnitTypes /\ Sound(u, T, P) /\ N \in Nat /\ Count(o) \in Nat
      /\ Count(o) <= N /\ f \in Stacks /\ N \in DOMAIN T /\ T[N] = On(f, k + 1)
  BY WrtFacts
<1>2. Placeholder(w) = N + 1 /\ Count(w) = N + 3 /\ ByteAt(w, N) = op
  BY <1>1, PlaceholderFacts
<1>3. SameBut(o, w)
  <2>1. SameBut(u, w)
    BY <1>1, WritersKeep, OpcodeTypes DEF Branching
  <2> HIDE DEF w
  <2> QED
    BY <1>1, <2>1, SameButTwice
<1>4. PICK U : Above(o, O, w, U, P \union {N}, f, k) /\ Grew(u, T, w, U, f.d)
  BY <1>1, BranchAbove
<1> HIDE DEF w, N
<1>5. N \in DOMAIN U /\ U[N] = On(f, k + 1)
  BY <1>1, <1>4 DEF Grew
<1>6. Lands(op, On(f, k + 1)) = On(f, IF op = JUMP_IF_FALSE THEN k ELSE k + 1)
  <2>1. f.d \in Nat
    BY <1>1, OnIs
  <2>2. CASE op = JUMP_IF_FALSE
    BY <2>1, <2>2 DEF Lands, On
  <2>3. CASE op # JUMP_IF_FALSE
    BY <2>1, <2>3 DEF Lands, On
  <2> QED
    BY <2>2, <2>3
<1>7. Opened(o, w, U, N, f, IF op = JUMP_IF_FALSE THEN k ELSE k + 1)
  BY <1>1, <1>2, <1>5, <1>6 DEF Opened
<1> QED
  BY <1>2, <1>3, <1>4, <1>7 DEF Wrt, w, N

LEMMA WrtJump ==
  ASSUME NEW o, NEW O, NEW u, NEW T, NEW P, NEW f, NEW k, Wrt(o, O, u, T, P, f, k), NEW j \in Nat, f.d + j <= u.stackSlotNum
  PROVE  LET w == EmitInstrWithPlaceholder(u, JUMP)
         IN  /\ \E U : /\ Wrt(o, O, w, U, P \union {Count(u)}, f, j) /\ Grew(u, T, w, U, f.d) /\ Opened(o, w, U, Count(u), f, k)
             /\ Placeholder(w) = Count(u) + 1 /\ Count(w) = Count(u) + 3 /\ ByteAt(w, Count(u)) = JUMP
<1> DEFINE w == EmitInstrWithPlaceholder(u, JUMP)
           N == Count(u)
<1>1. /\ Above(o, O, u, T, P, f, k) /\ SameBut(o, u) /\ u \in UnitTypes /\ Sound(u, T, P) /\ N \in Nat /\ Count(o) \in Nat
      /\ Count(o) <= N /\ f \in Stacks /\ N \in DOMAIN T /\ T[N] = On(f, k) /\ k \in Nat
  BY WrtFacts
<1>2. Placeholder(w) = N + 1 /\ Count(w) = N + 3 /\ ByteAt(w, N) = JUMP
  BY <1>1, PlaceholderFacts
<1>3. SameBut(o, w)
  <2>1. SameBut(u, w)
    BY <1>1, WritersKeep, OpcodeTypes
  <2> HIDE DEF w
  <2> QED
    BY <1>1, <2>1, SameButTwice
<1>4. PICK U : Above(o, O, w, U, P \union {N}, f, j) /\ Grew(u, T, w, U, f.d)
  BY <1>1, JumpAbove
<1> HIDE DEF w, N
<1>5. N \in DOMAIN U /\ U[N] = On(f, k)
  BY <1>1, <1>4 DEF Grew
<1>6. Lands(JUMP, On(f, k)) = On(f, k)
  <2>1. f.d \in Nat
    BY <1>1, OnIs
  <2> QED
    BY <1>1, <2>1, OpcodesDiffer DEF Lands, On
<1>7. Opened(o, w, U, N, f, k)
  BY <1>1, <1>2, <1>5, <1>6 DEF Opened
<1> QED
  BY <1>2, <1>3, <1>4, <1>7 DEF Wrt, w, N

LEMMA WrtPatch ==
  ASSUME NEW o, NEW O, NEW u, NEW T, NEW P, NEW f, NEW k, Wrt(o, O, u, T, P, f, k), NEW a, Opened(o, u, T, a, f, k),
         Count(u) < BYTE * BYTE
  PROVE  LET w == PatchPlaceholder(u, a + 1)
         IN  /\ Wrt(o, O, w, T, P \ {a}, f, k) /\ Count(w) = Count(u) /\ w.stackSlotNum = u.stackSlotNum
             /\ \A b, j : Opened(o, u, T, b, f, j) => Opened(o, w, T, b, f, j)
<1> DEFINE w == PatchPlaceholder(u, a + 1)
<1>1. /\ Above(o, O, u, T, P, f, k) /\ SameBut(o, u)
  BY WrtFacts
<1>2. /\ a \in DOMAIN T /\ a >= Count(o) /\ a < Count(u) /\ ByteAt(u, a) \in Branching \union {JUMP}
      /\ Lands(ByteAt(u, a), T[a]) = On(f, k)
  BY DEF Opened
<1>3. /\ Above(o, O, w, T, P \ {a}, f, k) /\ SameBut(u, w) /\ Count(w) = Count(u) /\ w.stackSlotNum = u.stackSlotNum
      /\ \A b \in DOMAIN T : b < Count(u) => ByteAt(w, b) = ByteAt(u, b)
  BY <1>1, <1>2, PatchAbove
<1> HIDE DEF w
<1>4. SameBut(o, w)
  BY <1>1, <1>3, SameButTwice
<1>5. \A b, j : Opened(o, u, T, b, f, j) => Opened(o, w, T, b, f, j)
  BY <1>3 DEF Opened
<1> QED
  BY <1>3, <1>4, <1>5 DEF Wrt, w

LEMMA WrtWeaker ==
  ASSUME NEW o, NEW O, NEW u, NEW T, NEW P, NEW f, NEW k, Wrt(o, O, u, T, P, f, k), NEW Q, P \subseteq Q
  PROVE  Wrt(o, O, u, T, Q, f, k)
BY AboveWeaker DEF Wrt

LEMMA WrtSelf ==
  ASSUME NEW T, Compiling(T), ReadingOK(cu, scopes, todo)
  PROVE  Wrt(cu, T, cu, T, Waiting(cu, todo), Frame(cu), 0)
BY CompilingFacts DEF Wrt, SameBut

\* logicOr(), logicAnd()
LEMMA LogicWrites ==
  ASSUME NEW o, NEW O, NEW P, NEW f, Wrt(o, O, o, O, P, f, 0), NEW op \in {AND, OR}
  PROVE  LET left == EmitInstrWithPlaceholder(Expression(o), op)
             right == PatchPlaceholder(Expression(left), Placeholder(left))
             c == WriteOpCode(right, POP)
         IN  Count(c) < BYTE * BYTE => \E U : Wrt(o, O, c, U, P, f, 0)
<1> DEFINE x == Expression(o)
           left == EmitInstrWithPlaceholder(x, op)
           y == Expression(left)
           right == PatchPlaceholder(y, Placeholder(left))
           c == WriteOpCode(right, POP)
           a == Count(x)
<1> SUFFICES ASSUME Count(c) < BYTE * BYTE PROVE \E U : Wrt(o, O, c, U, P, f, 0)
  OBVIOUS
<1>1. PICK X : Wrt(o, O, x, X, P, f, 0 + 1)
  BY WrtExpression
<1>2. op \in Branching /\ op # JUMP_IF_FALSE /\ 0 \in Nat
  BY OpcodesDiffer DEF Branching
<1> HIDE DEF x
<1>3. PICK L : /\ Wrt(o, O, left, L, P \union {a}, f, 0) /\ Opened(o, left, L, a, f, 0 + 1)
  BY <1>1, <1>2, WrtBranch
<1>4. Placeholder(left) = a + 1
  <2>1. Sound(x, X, P)
    BY <1>1, WrtFacts
  <2>2. op \in Branching \union {JUMP, END}
    BY <1>2
  <2> QED
    BY <2>1, <2>2, PlaceholderFacts
<1> HIDE DEF left
<1>5. PICK Y : Wrt(o, O, y, Y, P \union {a}, f, 0 + 1) /\ Grew(left, L, y, Y, f.d)
  BY <1>3, WrtExpression
<1>6. Opened(o, y, Y, a, f, 0 + 1)
  BY <1>3, <1>5, WrtFacts, OpenedGrew
<1>7. right = PatchPlaceholder(y, a + 1)
  BY <1>4
<1> HIDE DEF y, a, right
<1>8. Count(right) = Count(y)
  <2>1. y \in UnitTypes /\ Opened(o, y, Y, a, f, 0 + 1) /\ Sound(y, Y, P \union {a})
    BY <1>5, <1>6, WrtFacts
  <2>2. a \in Int
    BY <2>1, SoundFacts DEF Opened
  <2> QED
    BY <1>7, <2>1, <2>2, PatchPlaceholderIs DEF Count
<1>9. Count(c) = Count(right) + 1
  <2>1. y \in UnitTypes /\ Opened(o, y, Y, a, f, 0 + 1) /\ Sound(y, Y, P \union {a})
    BY <1>5, <1>6, WrtFacts
  <2>2. a \in Int
    BY <2>1, SoundFacts DEF Opened
  <2>3. right \in UnitTypes
    BY <1>7, <2>1, <2>2, PatchPlaceholderIs DEF SameBut
  <2>4. c.code = right.code \o <<POP>> /\ right.code \in Seq(Int)
    BY <2>3, WriteOpCodeIs, OpcodeTypes, UnitFacts DEF Wrote
  <2> QED
    BY <2>4 DEF Count
<1>10. Count(y) < BYTE * BYTE
  <2>1. Count(y) \in Nat
    BY <1>5, WrtFacts
  <2> QED
    BY <1>8, <1>9, <2>1, ByteFacts
<1>11. Wrt(o, O, right, Y, (P \union {a}) \ {a}, f, 0 + 1)
  BY <1>5, <1>6, <1>7, <1>10, WrtPatch
<1>12. 0 + 1 + SlotsUsed(POP) = 0 /\ (P \union {a}) \ {a} \subseteq P
  BY SlotsUsedIs
<1>13. PICK U : Wrt(o, O, c, U, (P \union {a}) \ {a}, f, 0)
  BY <1>11, <1>12, WrtOpCode
<1> QED
  BY <1>12, <1>13, WrtWeaker

-----------------------------------------------------------------------------
\* The lengths of what the functions write.
LEMMA CountsAre ==
  ASSUME NEW u \in UnitTypes
  PROVE  /\ Count(u) \in Nat
         /\ \A op \in Opcodes : /\ WriteOpCode(u, op) \in UnitTypes /\ Count(WriteOpCode(u, op)) = Count(u) + 1
                                /\ EmitInstrWithPlaceholder(u, op) \in UnitTypes
                                /\ Count(EmitInstrWithPlaceholder(u, op)) = Count(u) + 3
                                /\ Placeholder(EmitInstrWithPlaceholder(u, op)) = Count(u) + 1
                                /\ \A n \in Int : WriteShort(u, op, n) \in UnitTypes /\ Count(WriteShort(u, op, n)) = Count(u) + 3
         /\ \A b \in Seq(Int) : WriteBytes(u, b) \in UnitTypes /\ Count(WriteBytes(u, b)) = Count(u) + Len(b)
         /\ \A a \in Int : PatchPlaceholder(u, a) \in UnitTypes /\ Count(PatchPlaceholder(u, a)) = Count(u)
<1>1. u.code \in Seq(Int) /\ Count(u) = Len(u.code) /\ Count(u) \in Nat
  BY UnitFacts
<1>2. ASSUME NEW w, NEW b \in Seq(Int), NEW n, Wrote(u, w, b, n) PROVE w \in UnitTypes /\ Count(w) = Count(u) + Len(b)
  BY <1>1, <1>2 DEF Wrote, SameBut, Count
<1>3. ASSUME NEW op \in Opcodes
      PROVE /\ WriteOpCode(u, op) \in UnitTypes /\ Count(WriteOpCode(u, op)) = Count(u) + 1
            /\ EmitInstrWithPlaceholder(u, op) \in UnitTypes
            /\ Count(EmitInstrWithPlaceholder(u, op)) = Count(u) + 3
            /\ Placeholder(EmitInstrWithPlaceholder(u, op)) = Count(u) + 1
            /\ \A n \in Int : WriteShort(u, op, n) \in UnitTypes /\ Count(WriteShort(u, op, n)) = Count(u) + 3
  <2>1. op \in Int /\ SlotsUsed(op) \in Int /\ <<op>> \in Seq(Int) /\ Len(<<op>>) = 1
    BY OpcodeFacts
  <2>2. Wrote(u, WriteOpCode(u, op), <<op>>, SlotsUsed(op))
    BY WriteOpCodeIs
  <2>3. WriteOpCode(u, op) \in UnitTypes /\ Count(WriteOpCode(u, op)) = Count(u) + 1
    BY <1>2, <2>1, <2>2
  <2>4. <<op, BYTE - 1, BYTE - 1>> \in Seq(Int) /\ Len(<<op, BYTE - 1, BYTE - 1>>) = 3
    BY <2>1, ByteFacts
  <2>5. Wrote(u, EmitInstrWithPlaceholder(u, op), <<op, BYTE - 1, BYTE - 1>>, SlotsUsed(op))
        /\ Placeholder(EmitInstrWithPlaceholder(u, op)) = Count(u) + 1
    BY EmitInstrWithPlaceholderIs
  <2>6. EmitInstrWithPlaceholder(u, op) \in UnitTypes /\ Count(EmitInstrWithPlaceholder(u, op)) = Count(u) + 3
    BY <1>2, <2>4, <2>5
  <2>7. ASSUME NEW n \in Int PROVE WriteShort(u, op, n) \in UnitTypes /\ Count(WriteShort(u, op, n)) = Count(u) + 3
    <3>1. <<op, High(n), Low(n)>> \in Seq(Int) /\ Len(<<op, High(n), Low(n)>>) = 3
      <4>1. High(n) \in Int /\ Low(n) \in Int
        BY ByteFacts
      <4> QED
        BY <2>1, <4>1
    <3>2. Wrote(u, WriteShort(u, op, n), <<op, High(n), Low(n)>>, SlotsUsed(op))
      BY WriteShortIs
    <3> QED
      BY <1>2, <3>1, <3>2
  <2> QED
    BY <2>3, <2>5, <2>6, <2>7
<1>4. ASSUME NEW b \in Seq(Int) PROVE WriteBytes(u, b) \in UnitTypes /\ Count(WriteBytes(u, b)) = Count(u) + Len(b)
  BY <1>2, WriteBytesIs
<1>5. ASSUME NEW a \in Int PROVE PatchPlaceholder(u, a) \in UnitTypes /\ Count(PatchPlaceholder(u, a)) = Count(u)
  BY PatchPlaceholderIs DEF SameBut, Count
<1> QED
  BY <1>1, <1>3, <1>4, <1>5

\* condition()
LEMMA ConditionWrites ==
  ASSUME NEW o, NEW O, NEW P, NEW f, Wrt(o, O, o, O, P, f, 0)
  PROVE  LET test == EmitInstrWithPlaceholder(Expression(o), JUMP_IF_FALSE)
             yes == EmitInstrWithPlaceholder(Expression(test), JUMP)
             no == Expression(PatchPlaceholder(yes, Placeholder(test)))
             c == WriteOpCode(PatchPlaceholder(no, Placeholder(yes)), POP)
         IN  Count(c) < BYTE * BYTE => \E U : Wrt(o, O, c, U, P, f, 0)
<1> DEFINE x == Expression(o)
           test == EmitInstrWithPlaceholder(x, JUMP_IF_FALSE)
           y == Expression(test)
           yes == EmitInstrWithPlaceholder(y, JUMP)
           z == PatchPlaceholder(yes, Placeholder(test))
           no == Expression(z)
           w == PatchPlaceholder(no, Placeholder(yes))
           c == WriteOpCode(w, POP)
           a == Count(x)
           b == Count(y)
<1> SUFFICES ASSUME Count(c) < BYTE * BYTE PROVE \E U : Wrt(o, O, c, U, P, f, 0)
  OBVIOUS
<1>1. PICK X : Wrt(o, O, x, X, P, f, 0 + 1)
  BY WrtExpression
<1>2. JUMP_IF_FALSE \in Branching /\ 0 \in Nat
  BY DEF Branching
<1>3. x \in UnitTypes /\ a \in Nat
  BY <1>1, WrtFacts
<1> HIDE DEF x
<1>4. PICK Y : /\ Wrt(o, O, test, Y, P \union {a}, f, 0) /\ Opened(o, test, Y, a, f, 0)
  BY <1>1, <1>2, WrtBranch
<1>5. Placeholder(test) = a + 1 /\ test \in UnitTypes
  BY <1>3, CountsAre, OpcodeTypes
<1> HIDE DEF test
<1>6. PICK Z : Wrt(o, O, y, Z, P \union {a}, f, 0 + 1) /\ Grew(test, Y, y, Z, f.d)
  BY <1>4, WrtExpression
<1>7. y \in UnitTypes /\ b \in Nat
  BY <1>6, WrtFacts
<1>8. Opened(o, y, Z, a, f, 0)
  BY <1>4, <1>6, <1>7, OpenedGrew
<1> HIDE DEF y
<1>9. f.d + 0 <= y.stackSlotNum
  <2>1. Z[Count(y)].d <= y.stackSlotNum /\ Z[Count(y)] = On(f, 0 + 1) /\ f \in Stacks /\ y.stackSlotNum \in Int
    BY <1>6, <1>7, WrtFacts, UnitFacts
  <2>2. f.d \in Nat /\ On(f, 1).d = f.d + 1
    BY <2>1, OnIs
  <2> QED
    BY <2>1, <2>2
<1>10. PICK V : /\ Wrt(o, O, yes, V, (P \union {a}) \union {b}, f, 0) /\ Grew(y, Z, yes, V, f.d) /\ Opened(o, yes, V, b, f, 0 + 1)
  BY <1>2, <1>6, <1>9, WrtJump
<1>11. Placeholder(yes) = b + 1 /\ yes \in UnitTypes /\ Count(yes) \in Nat
  BY <1>7, <1>10, CountsAre, OpcodeTypes
<1>12. Opened(o, yes, V, a, f, 0)
  BY <1>6, <1>8, <1>10, <1>11, OpenedGrew
<1> HIDE DEF yes
<1>13. z = PatchPlaceholder(yes, a + 1) /\ z \in UnitTypes /\ Count(z) = Count(yes) /\ Count(z) \in Nat
  BY <1>3, <1>5, <1>11, CountsAre
<1> HIDE DEF z
<1>14. Count(no) = Count(z) + 3 /\ no \in UnitTypes
  BY <1>13, ExpressionCount
<1>15. w = PatchPlaceholder(no, b + 1) /\ w \in UnitTypes /\ Count(w) = Count(no)
  <2> HIDE DEF no
  <2> QED
    BY <1>7, <1>11, <1>14, CountsAre
<1>16. Count(c) = Count(w) + 1
  <2> HIDE DEF w
  <2> QED
    BY <1>15, CountsAre, OpcodeTypes
<1>17. Count(yes) < BYTE * BYTE /\ Count(no) < BYTE * BYTE
  BY <1>11, <1>13, <1>14, <1>15, <1>16, ByteFacts
<1> DEFINE A == ((P \union {a}) \union {b}) \ {a}
<1>18. Wrt(o, O, z, V, A, f, 0) /\ Opened(o, z, V, b, f, 0 + 1)
  BY <1>10, <1>12, <1>13, <1>17, WrtPatch
<1> HIDE DEF A
<1>19. PICK W : Wrt(o, O, no, W, A, f, 0 + 1) /\ Grew(z, V, no, W, f.d)
  BY <1>18, WrtExpression
<1>20. Opened(o, no, W, b, f, 0 + 1)
  <2>1. Count(no) \in Nat
    BY <1>13, <1>14
  <2> QED
    BY <1>18, <1>19, <2>1, OpenedGrew
<1> HIDE DEF no
<1>21. Wrt(o, O, w, W, A \ {b}, f, 0 + 1)
  BY <1>15, <1>17, <1>19, <1>20, WrtPatch
<1> HIDE DEF w
<1>22. 0 + 1 + SlotsUsed(POP) = 0 /\ A \ {b} \subseteq P
  BY SlotsUsedIs DEF A
<1>23. PICK U : Wrt(o, O, c, U, A \ {b}, f, 0)
  BY <1>21, <1>22, WrtOpCode
<1> QED
  BY <1>22, <1>23, WrtWeaker

\* Behind a return the stack may be taken to be any other.
LEMMA ReturnAbove ==
  ASSUME NEW o, NEW O, NEW u, NEW T, NEW P, NEW f, NEW k, Above(o, O, u, T, P, f, k), NEW j \in Nat, f.d + j <= u.stackSlotNum
  PROVE  LET w == WriteOpCode(u, RETURN)
         IN  \E U : Above(o, O, w, U, P, f, j) /\ Grew(u, T, w, U, f.d)
<1> DEFINE w == WriteOpCode(u, RETURN)
           b == <<RETURN>>
           N == Count(u)
           e == On(f, j)
<1>1. Sound(u, T, P) /\ f \in Stacks /\ k \in Nat /\ T[N] = On(f, k) /\ u \in UnitTypes /\ N \in Nat
  BY SoundFacts DEF Above
<1>2. /\ SlotsUsed(RETURN) = 0 /\ RETURN # CREATE_CLOSURE /\ RETURN # LOOP /\ RETURN # END /\ RETURN \in 1..END
      /\ RETURN \notin Straight \union Branching /\ RETURN \notin Branching \union {JUMP}
  BY OpcodesDiffer, SlotsUsedIs DEF Branching, Straight
<1>3. b \in Seq(Bytes) /\ Len(b) = 1 /\ b[1] = RETURN
  BY <1>2, ByteTypes, BytesAre
<1>4. Wrote(u, w, b, 0)
  BY <1>1, <1>2, WriteOpCodeIs, OpcodeTypes
<1>5. e \in Stacks /\ e.d = f.d + j /\ f.d \in Nat
  BY <1>1, OnIs
<1>6. e.d <= u.stackSlotNum + 0 /\ e.d >= f.d
  <2>1. u.stackSlotNum \in Int
    BY <1>1, SoundFacts
  <2> HIDE DEF e
  <2> QED
    BY <1>5, <2>1
<1> HIDE DEF e, w, b
<1>7. ByteAt(w, N) = RETURN
  <2>1. b \in Seq(Int) /\ w \in UnitTypes /\ w.code = u.code \o b
    BY <1>3, <1>4, WroteFacts
  <2>2. \A i \in 0..Len(b) - 1 : ByteAt(w, N + i) = b[i + 1]
    BY <1>1, <2>1, AppendedIs
  <2>3. N + 0 = N /\ 0 \in 0..Len(b) - 1 /\ 0 + 1 = 1
    BY <1>1, <1>3
  <2> QED
    BY <1>3, <2>2, <2>3
<1>8. Width(w, N) = Len(b)
  BY <1>2, <1>3, <1>7, WidthIs
<1>9. P \subseteq P /\ 0 \in Int
  OBVIOUS
<1>10. Emission(u, T, P, w, b, RETURN, 0, e, P)
  BY <1>1, <1>2, <1>3, <1>4, <1>5, <1>6, <1>8, <1>9 DEF Emission
<1>11. PICK U : Sound(w, U, P) /\ Grew(u, T, w, U, f.d) /\ U[Count(w)] = e
  BY <1>2, <1>5, <1>6, <1>10, EmitGrew
<1>12. Above(o, O, w, U, P, f, j)
  BY <1>11, AboveStep DEF e
<1> QED
  BY <1>11, <1>12 DEF w

\* compileReturn()
LEMMA ReturnWrites ==
  ASSUME NEW o, NEW O, NEW P, NEW f, Wrt(o, O, o, O, P, f, 0)
  PROVE  \E U : Wrt(o, O, WriteOpCode(WriteOpCode(o, PUSH_NULL), RETURN), U, P, f, 0)
<1> DEFINE x == WriteOpCode(o, PUSH_NULL)
<1>1. 0 + SlotsUsed(PUSH_NULL) = 1
  BY SlotsUsedIs
<1>2. PICK X : Wrt(o, O, x, X, P, f, 1)
  BY <1>1, WrtOpCode
<1> HIDE DEF x
<1>3. Above(o, O, x, X, P, f, 1) /\ SameBut(o, x) /\ x \in UnitTypes
  BY <1>2, WrtFacts
<1>4. f.d + 0 <= x.stackSlotNum /\ 0 \in Nat
  <2>1. X[Count(x)].d <= x.stackSlotNum /\ X[Count(x)] = On(f, 1) /\ f \in Stacks /\ x.stackSlotNum \in Int
    BY <1>2, WrtFacts, UnitFacts
  <2>2. f.d \in Nat /\ On(f, 1).d = f.d + 1
    BY <2>1, OnIs
  <2> QED
    BY <2>1, <2>2
<1>5. PICK U : Above(o, O, WriteOpCode(x, RETURN), U, P, f, 0)
  BY <1>3, <1>4, ReturnAbove
<1>6. SameBut(o, WriteOpCode(x, RETURN))
  BY <1>3, WritersKeep, OpcodeTypes, SameButTwice
<1> QED
  BY <1>5, <1>6 DEF Wrt, x

\* compileVarDefinition() on the top level of a module
LEMMA ModuleVarDefinitionWrites ==
  ASSUME NEW o, NEW O, NEW P, NEW f, Wrt(o, O, o, O, P, f, 0)
  PROVE  \E U : Wrt(o, O, WriteOpCode(WriteShort(Expression(o), STORE_MODULE_VAR, 0), POP), U, P, f, 0)
<1> DEFINE x == Expression(o)
           y == WriteShort(x, STORE_MODULE_VAR, 0)
<1>1. 0 + 1 = 1 /\ 1 + SlotsUsed(STORE_MODULE_VAR) = 1 /\ 1 + SlotsUsed(POP) = 0
  BY SlotsUsedIs
<1>2. PICK X : Wrt(o, O, x, X, P, f, 1)
  BY <1>1, WrtExpression
<1> HIDE DEF x
<1>3. PICK Y : Wrt(o, O, y, Y, P, f, 1)
  BY <1>1, <1>2, WrtShort
<1> HIDE DEF y
<1>4. PICK U : Wrt(o, O, WriteOpCode(y, POP), U, P, f, 0)
  BY <1>1, <1>3, WrtOpCode
<1> QED
  BY <1>4 DEF x, y

(***************************************************************************)
(* The statements.                                                         *)
(***************************************************************************)
\* The stack at each instruction after a step.
Compiles(T) == Compiling(T) /\ ReadingOK(cu, scopes, todo) /\ Count(cu)' < BYTE * BYTE

LEMMA PlainCompiles ==
  ASSUME NEW T, Compiles(T), ModuleVarDefinition \/ Return \/ Condition \/ (\E op \in {AND, OR} : Logic(op))
  PROVE  \E U : Compiling(U)'
<1> DEFINE O == Waiting(cu, todo)
           f == Frame(cu)
<1>1. Compiling(T) /\ ReadingOK(cu, scopes, todo) /\ Wrt(cu, T, cu, T, O, f, 0)
  BY WrtSelf DEF Compiles
<1>2. ASSUME NEW code, Simple(code), jumps' = jumps, NEW U, Wrt(cu, T, code, U, O, f, 0) PROVE Compiling(U)'
  BY <1>1, <1>2, SimpleCompiles DEF Wrt
<1>3. ASSUME NEW code, Simple(code) PROVE Count(code) < BYTE * BYTE
  BY <1>3 DEF Compiles, Simple, Count
<1> HIDE DEF O, f
<1>4. CASE ModuleVarDefinition
  <2> DEFINE c == WriteOpCode(WriteShort(Expression(cu), STORE_MODULE_VAR, 0), POP)
  <2>1. Simple(c) /\ jumps' = jumps
    BY <1>4 DEF ModuleVarDefinition, Plain
  <2>2. PICK U : Wrt(cu, T, c, U, O, f, 0)
    BY <1>1, ModuleVarDefinitionWrites
  <2> HIDE DEF c
  <2> QED
    BY <1>2, <2>1, <2>2
<1>5. CASE Return
  <2> DEFINE c == WriteOpCode(WriteOpCode(cu, PUSH_NULL), RETURN)
  <2>1. Simple(c) /\ jumps' = jumps
    BY <1>5 DEF Return, Plain
  <2>2. PICK U : Wrt(cu, T, c, U, O, f, 0)
    BY <1>1, ReturnWrites
  <2> HIDE DEF c
  <2> QED
    BY <1>2, <2>1, <2>2
<1>6. CASE Condition
  <2> DEFINE test == EmitInstrWithPlaceholder(Expression(cu), JUMP_IF_FALSE)
             yes == EmitInstrWithPlaceholder(Expression(test), JUMP)
             no == Expression(PatchPlaceholder(yes, Placeholder(test)))
             c == WriteOpCode(PatchPlaceholder(no, Placeholder(yes)), POP)
  <2>1. Simple(c) /\ jumps' = jumps
    BY <1>6 DEF Condition, Plain
  <2>2. Count(c) < BYTE * BYTE => \E U : Wrt(cu, T, c, U, O, f, 0)
    BY <1>1, ConditionWrites
  <2> HIDE DEF c
  <2> QED
    BY <1>2, <1>3, <2>1, <2>2
<1>7. ASSUME NEW op \in {AND, OR}, Logic(op) PROVE \E U : Compiling(U)'
  <2> DEFINE left == EmitInstrWithPlaceholder(Expression(cu), op)
             right == PatchPlaceholder(Expression(left), Placeholder(left))
             c == WriteOpCode(right, POP)
  <2>1. Simple(c) /\ jumps' = jumps
    BY <1>7 DEF Logic, Plain
  <2>2. Count(c) < BYTE * BYTE => \E U : Wrt(cu, T, c, U, O, f, 0)
    BY <1>1, LogicWrites
  <2> HIDE DEF c
  <2> QED
    BY <1>2, <1>3, <2>1, <2>2
<1> QED
  BY <1>4, <1>5, <1>6, <1>7

-----------------------------------------------------------------------------
\* One more variable, which no closure refers to yet.
LEMMA AddedVariable ==
  ASSUME NEW u \in UnitTypes, NEW n \in Names
  PROVE  LET w == AddLocalVar(u, n)
         IN  /\ w \in UnitTypes /\ w.code = u.code /\ w.loops = u.loops /\ w.upvalueNums = u.upvalueNums /\ w.isModule = u.isModule
             /\ w.stackSlotNum = u.stackSlotNum /\ w.maxSlots = u.maxSlots /\ w.scopeDepth = u.scopeDepth
             /\ w.localVars = Append(u.localVars, Local(n, u.scopeDepth))
             /\ Len(w.localVars) = Len(u.localVars) + 1 /\ Held(w) = Held(u) /\ Frame(w) = On(Frame(u), 1)
             /\ w.localVars[Len(w.localVars)].name = n /\ \A i \in 1..Len(u.localVars) : w.localVars[i] = u.localVars[i]
<1> DEFINE w == AddLocalVar(u, n)
           l == Local(n, u.scopeDepth)
<1>1. l \in LocalTypes /\ l.isUpvalue = FALSE /\ l.name = n /\ u.localVars \in Seq(LocalTypes) /\ Len(u.localVars) \in Nat
  <2>1. u.localVars \in Seq(LocalTypes) /\ u.scopeDepth \in Int
    BY UnitFacts
  <2> QED
    BY <2>1 DEF Local, LocalTypes
<1> HIDE DEF l
<1> DEFINE v == Append(u.localVars, l)
<1>2. /\ v \in Seq(LocalTypes) /\ Len(v) = Len(u.localVars) + 1 /\ v[Len(v)] = l
      /\ \A i \in 1..Len(u.localVars) : v[i] = u.localVars[i]
  BY <1>1, AppendProperties
<1> HIDE DEF v
<1>3. w = [u EXCEPT !.localVars = v]
  BY DEF AddLocalVar, v, l
<1>4. /\ w \in UnitTypes /\ w.code = u.code /\ w.loops = u.loops /\ w.upvalueNums = u.upvalueNums /\ w.isModule = u.isModule
      /\ w.stackSlotNum = u.stackSlotNum /\ w.maxSlots = u.maxSlots /\ w.scopeDepth = u.scopeDepth /\ w.localVars = v
  BY <1>2, <1>3 DEF UnitTypes
<1> HIDE DEF w
<1>5. Held(w) = Held(u)
  <2>1. ASSUME NEW s \in Nat PROVE s \in Held(w) <=> s \in Held(u)
    <3>1. CASE s + 1 \in 1..Len(u.localVars)
      <4>1. w.localVars[s + 1] = u.localVars[s + 1] /\ s \in 0..Len(u.localVars) - 1 /\ s \in 0..Len(w.localVars) - 1
        BY <1>1, <1>2, <1>4, <3>1
      <4> QED
        BY <4>1 DEF Held
    <3>2. CASE s = Len(u.localVars)
      <4>1. s \notin 0..Len(u.localVars) - 1 /\ w.localVars[s + 1].isUpvalue = FALSE
        BY <1>1, <1>2, <1>4, <3>2
      <4> QED
        BY <4>1 DEF Held
    <3>3. CASE s > Len(u.localVars)
      <4>1. s \notin 0..Len(u.localVars) - 1 /\ s \notin 0..Len(w.localVars) - 1
        BY <1>1, <1>2, <1>4, <3>3
      <4> QED
        BY <4>1 DEF Held
    <3> QED
      BY <1>1, <3>1, <3>2, <3>3
  <2>2. Held(w) \subseteq Nat /\ Held(u) \subseteq Nat
    BY <1>4, FrameIs
  <2> QED
    BY <2>1, <2>2
<1>6. Frame(w) = On(Frame(u), 1)
  BY <1>1, <1>2, <1>4, <1>5 DEF Frame, On
<1>7. v = Append(u.localVars, Local(n, u.scopeDepth))
  BY DEF v, l
<1> QED
  BY <1>1, <1>2, <1>4, <1>5, <1>6, <1>7 DEF w

LEMMA FrontSame ==
  ASSUME NEW ss \in Blocks, Len(ss) > 0, NEW b \in Seq(Names)
  PROVE  LET tt == Front(ss) \o <<b>>
         IN  tt \in Blocks /\ Len(tt) = Len(ss) /\ \A i \in 1..Len(ss) - 1 : ss[i] = tt[i]
<1>1. ss \in Seq(Seq(Names)) /\ ss # <<>>
  BY EmptySeq DEF Blocks
<1>2. /\ Front(ss) \in Seq(Seq(Names)) /\ Len(Front(ss)) = Len(ss) - 1 /\ \A i \in 1..Len(ss) - 1 : Front(ss)[i] = ss[i]
      /\ Len(ss) \in Nat
  BY <1>1, LastIs
<1> DEFINE r == Front(ss)
<1> HIDE DEF r
<1>3. r \o <<b>> = Append(r, b)
  BY <1>2, AppendIsConcat DEF r
<1>4. r \in Blocks
  BY <1>2 DEF r, Blocks
<1>5. Append(r, b) \in Blocks /\ Len(Append(r, b)) = Len(r) + 1 /\ \A i \in 1..Len(r) : Append(r, b)[i] = r[i]
  BY <1>4, UpToAppend
<1> DEFINE q == Append(r, b)
<1> HIDE DEF q
<1>6. q \in Blocks /\ Len(q) = Len(ss) /\ \A i \in 1..Len(ss) - 1 : ss[i] = q[i]
  <2>1. Len(r) = Len(ss) - 1 /\ \A i \in 1..Len(ss) - 1 : r[i] = ss[i]
    BY <1>2 DEF r
  <2>2. q \in Blocks /\ Len(q) = Len(r) + 1 /\ \A i \in 1..Len(r) : q[i] = r[i]
    BY <1>5 DEF q
  <2> QED
    BY <1>2, <2>1, <2>2
<1> QED
  BY <1>3, <1>6 DEF r, q

\* compileVarDefinition() in a block: the value stays on the stack as the variable.
LEMMA VarDefinitionCompiles ==
  ASSUME NEW T, Compiles(T), NEW n \in Name, VarDefinition(n)
  PROVE  \E U : Compiling(U)'
<1> DEFINE x == Expression(cu)
           w == AddLocalVar(x, n)
           tt == Front(scopes) \o <<Append(Last(scopes), n)>>
           O == Waiting(cu, todo)
           f == Frame(cu)
<1>1. Compiling(T) /\ ReadingOK(cu, scopes, todo) /\ Wrt(cu, T, cu, T, O, f, 0) /\ n \in Names
  BY WrtSelf DEF Compiles, Names
<1>2. /\ cu' = w /\ scopes' = tt /\ todo' = todo /\ jumps' = jumps /\ ends' = ends /\ marks' = Mark
      /\ ip' = ip /\ depth' = depth /\ open' = open /\ ~cu.isModule
  BY <1>1 DEF VarDefinition, Begin, machine, ReadingOK, MayDeclare
<1>3. /\ cu \in UnitTypes /\ Count(cu) \in Nat /\ ScopesOK(cu, scopes) /\ f.d = Len(cu.localVars) /\ f.c = Held(cu) /\ Len(cu.localVars) \in Nat
      /\ f \in Stacks /\ scopes \in Blocks
      /\ Good(cu, scopes, todo, T, O, Mark, jumps, ends)
      /\ \A j \in 1..Len(cu.loops) : Base(scopes, cu.loops[j]) <= Len(cu.localVars)
  BY <1>1, CompilingFacts
<1>4. ScopesOK(w, tt)
  <2>1. ReadingOK(cu', scopes', todo')
    BY <1>1, VarDefinitionReads
  <2> QED
    BY <1>2, <2>1 DEF ReadingOK
<1>5. Len(scopes) > 0 /\ Len(scopes) \in Nat
  BY <1>2, <1>3 DEF ScopesOK, Blocks
<1>6. SameBases(cu, todo, scopes, tt) /\ Len(tt) = Len(scopes)
  <2>1. Append(Last(scopes), n) \in Seq(Names)
    <3>1. scopes \in Seq(Seq(Names)) /\ scopes # <<>>
      BY <1>3, <1>5, EmptySeq DEF Blocks
    <3>2. Last(scopes) \in Seq(Names)
      BY <3>1, LastIs
    <3> QED
      BY <1>1, <3>2, AppendProperties
  <2>2. tt \in Blocks /\ Len(tt) = Len(scopes) /\ \A i \in 1..Len(scopes) - 1 : scopes[i] = tt[i]
    BY <1>3, <1>5, <2>1, FrontSame
  <2> HIDE DEF tt
  <2>3. Len(scopes) - 1 <= Len(tt)
    BY <1>5, <2>2
  <2>4. Nested(cu, scopes, todo)
    BY <1>1 DEF Compiling
  <2> QED
    BY <1>1, <2>2, <2>3, <2>4, NestedBases
<1>7. PICK U : Wrt(cu, T, x, U, O, f, 0 + 1) /\ Count(x) = Count(cu) + 3
  BY <1>1, WrtExpression
<1>8. Above(cu, T, x, U, O, f, 1) /\ SameBut(cu, x) /\ x \in UnitTypes
  BY <1>7, WrtFacts
<1> HIDE DEF x, tt
<1>9. /\ w \in UnitTypes /\ w.code = x.code /\ w.loops = x.loops /\ w.upvalueNums = x.upvalueNums /\ w.isModule = x.isModule
      /\ w.stackSlotNum = x.stackSlotNum /\ w.maxSlots = x.maxSlots /\ Held(w) = Held(x) /\ Frame(w) = On(Frame(x), 1)
  BY <1>1, <1>8, AddedVariable
<1> HIDE DEF w
<1>10. /\ w.loops = cu.loops /\ w.upvalueNums = cu.upvalueNums /\ w.isModule = cu.isModule /\ Held(w) = Held(cu)
       /\ Frame(w) = On(f, 1) /\ Alike(cu, w) /\ Count(w) = Count(cu) + 3
  <2>1. Held(x) = Held(cu) /\ Frame(x) = f
    BY <1>8 DEF Held, Frame, SameBut
  <2> QED
    BY <1>7, <1>8, <1>9, <2>1 DEF SameBut, Alike, Count
<1>11. Sound(w, U, O) /\ Grew(cu, T, w, U, Len(cu.localVars)) /\ U[Count(w)] = Frame(w)
  <2>1. Above(cu, T, w, U, O, f, 1)
    BY <1>8, <1>9, AboveSame
  <2> QED
    BY <1>3, <1>10, <2>1 DEF Above
<1>12. Appends(cu, scopes, todo, T, w, tt, U, O, Len(cu.localVars))
  BY <1>3, <1>4, <1>6, <1>10, <1>11 DEF Appends
<1>13. Good(w, tt, todo, U, O, Mark, jumps, ends)
  BY <1>3, <1>12, GoodAppends
<1>14. Waiting(w, todo) = O
  BY <1>10, WaitingSame
<1>15. Nested(w, tt, todo)
  BY <1>1, <1>6, <1>10, NestedSame DEF Compiling
<1>16. Len(w.upvalueNums) <= Count(w)
  <2>1. Len(cu.upvalueNums) \in Nat /\ Len(cu.upvalueNums) <= Count(cu)
    BY <1>1, <1>3, UnitFacts DEF Compiling
  <2> QED
    BY <1>3, <1>10, <2>1
<1>17. Good(cu', scopes', todo', U, Waiting(cu', todo'), marks', jumps', ends')
  BY <1>2, <1>13, <1>14
<1> QED
  BY <1>1, <1>2, <1>15, <1>16, <1>17 DEF Compiling

-----------------------------------------------------------------------------
\* break and continue: left is the unit when the variables of the body are off the stack.
LeftLoop(T, left, X, m) ==
  /\ Compiles(T) /\ cu.loops # <<>> /\ m = Base(scopes, Last(cu.loops)) /\ m \in Nat /\ m <= Len(cu.localVars)
  /\ Sound(left, X, Waiting(cu, todo)) /\ Grew(cu, T, left, X, m) /\ X[Count(left)] = Below(cu, m)
  /\ SameBut(cu, left) /\ left.stackSlotNum = cu.stackSlotNum /\ Len(cu.localVars) <= left.stackSlotNum

LEMMA LoopIsLeftEarly ==
  ASSUME NEW T, Compiles(T), cu.loops # <<>>
  PROVE  LET left == DiscardLocalVar(cu, Last(cu.loops).scopeDepth + 1)
         IN  \E X, m : LeftLoop(T, left, X, m)
<1> DEFINE d == Last(cu.loops).scopeDepth + 1
           left == DiscardLocalVar(cu, d)
           m == Base(scopes, Last(cu.loops))
           O == Waiting(cu, todo)
<1>1. Compiling(T) /\ ReadingOK(cu, scopes, todo)
  BY DEF Compiles
<1>2. /\ cu \in UnitTypes /\ ScopesOK(cu, scopes) /\ scopes \in Blocks /\ Sound(cu, T, O) /\ T[Count(cu)] = Frame(cu)
      /\ Frame(cu).d = Len(cu.localVars) /\ Len(cu.localVars) \in Nat /\ todo \in Seq(TodoTypes)
      /\ \A j \in 1..Len(cu.loops) : Base(scopes, cu.loops[j]) <= Len(cu.localVars)
  BY <1>1, CompilingFacts
<1>3. /\ cu.loops \in Seq(LoopTypes) /\ Last(cu.loops) = cu.loops[Len(cu.loops)] /\ Len(cu.loops) \in 1..Len(cu.loops)
      /\ Last(cu.loops) \in LoopTypes
  <2>1. cu.loops \in Seq(LoopTypes)
    BY <1>2, UnitFacts
  <2>2. Len(cu.loops) \in Nat /\ Len(cu.loops) > 0 /\ Last(cu.loops) = cu.loops[Len(cu.loops)] /\ Last(cu.loops) \in LoopTypes
    BY <2>1, LastIs
  <2> QED
    BY <2>1, <2>2
<1>4. d \in Nat /\ d + 1 <= Len(scopes) /\ Len(scopes) \in Nat
  <2>1. Nested(cu, scopes, todo)
    BY <1>1 DEF Compiling
  <2>2. Last(cu.loops).scopeDepth + 1 \in Nat /\ Last(cu.loops).scopeDepth + 2 <= Len(scopes)
    BY <1>2, <1>3, <2>1, NestedFacts
  <2>3. Last(cu.loops).scopeDepth \in Int /\ Len(scopes) \in Nat
    BY <1>2, <1>3 DEF LoopTypes, Blocks
  <2>4. \A y, z \in Int : y + 2 <= z => y + 1 + 1 <= z
    OBVIOUS
  <2> QED
    BY <2>2, <2>3, <2>4
<1>5. cu.isModule \/ d > 0
  <2> DEFINE i == Max(LoopsIn(todo))
  <2>1. LoopAt(todo, i, Last(cu.loops))
    BY <1>1, <1>2, InnermostLoop DEF Compiling
  <2> HIDE DEF i
  <2>2. i \in 1..Len(todo) /\ todo[i].outer <= d
    BY <1>2, <1>3, <2>1, LoopDepths
  <2>3. cu.isModule \/ todo[i].outer > 0
    BY <1>1, <2>2 DEF ReadingOK, NestOK
  <2>4. todo[i].outer \in Nat
    BY <1>2, <2>2, TodoIs
  <2> HIDE DEF d
  <2> QED
    BY <1>4, <2>2, <2>3, <2>4
<1>6. m = UpTo(scopes, d) /\ m \in Nat /\ m <= Len(cu.localVars)
  <2>1. m = UpTo(scopes, d)
    BY DEF Base
  <2>2. d \in 0..Len(scopes)
    <3> HIDE DEF d
    <3> QED
      BY <1>4
  <2>3. UpTo(scopes, d) \in 0..Len(cu.localVars)
    BY <1>2, <2>2, ScopesFacts
  <2> HIDE DEF m, d
  <2> QED
    BY <1>2, <2>1, <2>3
<1>7. d \in 0..Len(scopes)
  <2> HIDE DEF d
  <2> QED
    BY <1>4
<1> HIDE DEF d, m
<1>8. /\ \E U : /\ Sound(left, U, O) /\ Grew(cu, T, left, U, UpTo(scopes, d)) /\ U[Count(left)] = Below(cu, UpTo(scopes, d))
      /\ SameBut(cu, left) /\ left.stackSlotNum = cu.stackSlotNum
  BY <1>2, <1>5, <1>7, DiscardIs
<1> HIDE DEF left
<1>9. Len(cu.localVars) <= left.stackSlotNum
  BY <1>2, <1>8, SoundFacts
<1>10. PICK X : Sound(left, X, O) /\ Grew(cu, T, left, X, m) /\ X[Count(left)] = Below(cu, m)
  BY <1>6, <1>8
<1>11. LeftLoop(T, left, X, m)
  BY <1>6, <1>8, <1>9, <1>10 DEF LeftLoop, m
<1> QED
  BY <1>11 DEF left, d

\* What is remembered of the innermost loop.
LEMMA LeftLoopFacts ==
  ASSUME NEW T, NEW left, NEW X, NEW m, LeftLoop(T, left, X, m)
  PROVE  LET l == Last(cu.loops)
             n == Len(cu.loops)
         IN  /\ cu \in UnitTypes /\ Count(cu) \in Nat /\ ScopesOK(cu, scopes) /\ Shape(cu, scopes, todo, T) /\ Len(cu.localVars) \in Nat
             /\ Count(left) \in Nat /\ Count(cu) <= Count(left)
             /\ n \in Nat /\ n \in 1..n /\ l = cu.loops[n] /\ LoopOK(cu, T, l, m)
             /\ l.bodyStartIndex \in Nat /\ l.bodyStartIndex <= Count(cu) /\ Start(l) \in DOMAIN T /\ Start(l) \in Nat
             /\ \A j \in 1..n : Start(cu.loops[j]) \in Int /\ Start(l) >= Start(cu.loops[j])
             /\ Below(cu, m).d = m /\ Below(cu, m).c = {s \in Held(cu) : s < m}
             /\ left.loops = cu.loops /\ left.localVars = cu.localVars /\ left.upvalueNums = cu.upvalueNums
             /\ left.isModule = cu.isModule /\ left \in UnitTypes
<1> DEFINE l == Last(cu.loops)
           n == Len(cu.loops)
<1>1. /\ Compiling(T) /\ ReadingOK(cu, scopes, todo) /\ m = Base(scopes, l) /\ cu.loops # <<>> /\ m \in Nat
      /\ Sound(left, X, Waiting(cu, todo)) /\ Grew(cu, T, left, X, m) /\ SameBut(cu, left)
  BY DEF LeftLoop, Compiles
<1>2. /\ cu \in UnitTypes /\ Count(cu) \in Nat /\ ScopesOK(cu, scopes) /\ Len(cu.localVars) \in Nat /\ Sound(cu, T, Waiting(cu, todo))
  BY <1>1, CompilingFacts
<1>3. Shape(cu, scopes, todo, T)
  BY <1>1 DEF Compiling, Good
<1>4. cu.loops \in Seq(LoopTypes) /\ n \in Nat /\ n > 0 /\ l = cu.loops[n] /\ l \in LoopTypes
  <2>1. cu.loops \in Seq(LoopTypes)
    BY <1>2, UnitFacts
  <2> QED
    BY <1>1, <2>1, LastIs
<1>5. n \in 1..n
  BY <1>4
<1>6. ASSUME NEW j \in 1..n
      PROVE  /\ Start(cu.loops[j]) \in Nat /\ cu.loops[j].bodyStartIndex \in Nat /\ cu.loops[j].bodyStartIndex <= Count(cu)
             /\ Start(cu.loops[j]) < cu.loops[j].bodyStartIndex /\ Start(cu.loops[j]) \in DOMAIN T
  <2> DEFINE k == cu.loops[j]
  <2>1. LoopOK(cu, T, k, Base(scopes, k)) /\ k \in LoopTypes
    BY <1>3, <1>4 DEF Shape
  <2> HIDE DEF k
  <2>2. Start(k) \in DOMAIN T /\ k.bodyStartIndex \in DOMAIN T /\ Start(k) <= k.exitIndex - 1 /\ k.exitIndex - 1 < k.bodyStartIndex
        /\ k.exitIndex \in Int
    BY <2>1 DEF LoopOK, LoopTypes
  <2>3. Start(k) \in Nat /\ k.bodyStartIndex \in Nat /\ k.bodyStartIndex <= Count(cu)
    BY <1>2, <2>2, SoundFacts
  <2>4. \A x, y, z \in Int : x <= y - 1 /\ y - 1 < z => x < z
    OBVIOUS
  <2> QED
    BY <2>2, <2>3, <2>4 DEF k
<1>7. ASSUME NEW j \in 1..n PROVE Start(l) >= Start(cu.loops[j])
  <2>1. CASE j = n
    BY <1>4, <1>5, <1>6, <2>1
  <2>2. CASE j # n
    <3>1. j < n
      BY <1>4, <2>2
    <3>2. cu.loops[j].bodyStartIndex <= Start(l)
      BY <1>3, <1>4, <1>5, <3>1 DEF Shape
    <3> QED
      BY <1>4, <1>5, <1>6, <3>2
  <2> QED
    BY <2>1, <2>2
<1>8. LoopOK(cu, T, l, m)
  BY <1>1, <1>3, <1>4, <1>5 DEF Shape
<1>9. Below(cu, m).d = m /\ Below(cu, m).c = {s \in Held(cu) : s < m}
  BY <1>1, <1>2, FrameIs
<1>10. /\ left.loops = cu.loops /\ left.localVars = cu.localVars /\ left.upvalueNums = cu.upvalueNums
       /\ left.isModule = cu.isModule /\ left \in UnitTypes
  BY <1>1 DEF SameBut
<1>11. Count(left) \in Nat /\ Count(cu) <= Count(left)
  BY <1>1, SoundFacts DEF Grew
<1>12. l.bodyStartIndex \in Nat /\ l.bodyStartIndex <= Count(cu) /\ Start(l) \in DOMAIN T /\ Start(l) \in Nat
  BY <1>4, <1>5, <1>6
<1>13. \A j \in 1..n : Start(cu.loops[j]) \in Int /\ Start(l) >= Start(cu.loops[j])
  BY <1>6, <1>7
<1> HIDE DEF l, n
<1> QED
  BY <1>2, <1>3, <1>4, <1>5, <1>8, <1>9, <1>10, <1>11, <1>12, <1>13 DEF l, n

\* The jump out of the body has been written.
LeapsOut(T, left, X, m, w, U, op) ==
  /\ LeftLoop(T, left, X, m) /\ Sound(w, U, Waiting(cu, todo)) /\ Added(left, X, w, U, op, Frame(cu)) /\ SameBut(left, w)
  /\ (op = LOOP /\ BackTarget(w, Count(left)) = Start(Last(cu.loops))) \/ op = END

LEMMA LeapsOutIs ==
  ASSUME NEW T, NEW left, NEW X, NEW m, NEW w, NEW U, NEW op, LeapsOut(T, left, X, m, w, U, op)
  PROVE  /\ Good(w, scopes, todo, U, Waiting(cu, todo), Mark, jumps, ends)
         /\ op = END => /\ Count(left) \in DOMAIN U /\ Count(left) < Count(w) /\ ByteAt(w, Count(left)) = END
                        /\ Belongs(w, Count(left), Len(w.loops))
<1> DEFINE l == Last(cu.loops)
           n == Len(cu.loops)
           N == Count(left)
           O == Waiting(cu, todo)
           f == Frame(cu)
<1>1. /\ LeftLoop(T, left, X, m) /\ Sound(w, U, O) /\ Added(left, X, w, U, op, f) /\ SameBut(left, w)
      /\ ((op = LOOP /\ BackTarget(w, N) = Start(l)) \/ op = END)
      /\ Compiling(T) /\ ReadingOK(cu, scopes, todo) /\ m = Base(scopes, l) /\ cu.loops # <<>> /\ m \in Nat
      /\ m <= Len(cu.localVars)
      /\ Sound(left, X, O) /\ Grew(cu, T, left, X, m) /\ X[N] = Below(cu, m) /\ SameBut(cu, left)
  BY DEF LeftLoop, Compiles, LeapsOut
<1>2. /\ cu \in UnitTypes /\ Count(cu) \in Nat /\ ScopesOK(cu, scopes) /\ Shape(cu, scopes, todo, T) /\ Len(cu.localVars) \in Nat
      /\ N \in Nat /\ Count(cu) <= N
      /\ n \in Nat /\ n \in 1..n /\ l = cu.loops[n] /\ LoopOK(cu, T, l, m)
      /\ l.bodyStartIndex \in Nat /\ l.bodyStartIndex <= Count(cu) /\ Start(l) \in DOMAIN T /\ Start(l) \in Nat
      /\ \A j \in 1..n : Start(cu.loops[j]) \in Int /\ Start(l) >= Start(cu.loops[j])
      /\ Below(cu, m).d = m /\ Below(cu, m).c = {s \in Held(cu) : s < m}
      /\ left.loops = cu.loops /\ left.localVars = cu.localVars /\ left.upvalueNums = cu.upvalueNums
      /\ left.isModule = cu.isModule /\ left \in UnitTypes
  BY <1>1, LeftLoopFacts
<1>3. /\ Sound(cu, T, O) /\ f.d = Len(cu.localVars) /\ f.c = Held(cu) /\ Good(cu, scopes, todo, T, O, Mark, jumps, ends)
      /\ SameBases(cu, todo, scopes, scopes) /\ \A j \in 1..n : Base(scopes, cu.loops[j]) \in Int /\ Base(scopes, cu.loops[j]) <= m
      /\ scopes \in Blocks
  <2>1. /\ Sound(cu, T, O) /\ f.d = Len(cu.localVars) /\ f.c = Held(cu) /\ Good(cu, scopes, todo, T, O, Mark, jumps, ends) /\ scopes \in Blocks
    BY <1>1, CompilingFacts
  <2>2. Nested(cu, scopes, todo) /\ Len(scopes) - 1 <= Len(scopes)
    BY <1>1, <2>1 DEF Compiling, Blocks
  <2>3. /\ SameBases(cu, todo, scopes, scopes)
        /\ \A j \in 1..n : Base(scopes, cu.loops[j]) \in Nat /\ Base(scopes, cu.loops[j]) <= Base(scopes, l)
    BY <1>1, <2>1, <2>2, NestedBases
  <2> QED
    BY <1>1, <2>1, <2>3
<1>4. /\ w.loops = cu.loops /\ w.localVars = cu.localVars /\ w.upvalueNums = cu.upvalueNums /\ w.isModule = cu.isModule
      /\ w \in UnitTypes /\ Held(w) = Held(cu) /\ Frame(w) = f /\ Alike(cu, w)
  BY <1>1, <1>2 DEF SameBut, Held, Frame, Alike
<1> HIDE DEF l, n, f, O
<1>5. /\ Count(w) = N + 3 /\ ByteAt(w, N) = op /\ DOMAIN U = DOMAIN X \union {N + 3} /\ U[N + 3] = f
      /\ (\A a \in DOMAIN X : U[a] = X[a]) /\ \A i \in 1..N : w.code[i] = left.code[i]
  BY <1>1 DEF Added
<1>6. /\ DOMAIN T \subseteq DOMAIN X /\ (\A a \in DOMAIN T : X[a] = T[a])
      /\ (\A a \in DOMAIN X : a \in DOMAIN T \/ (a > Count(cu) /\ X[a].d >= m))
      /\ (\A a \in DOMAIN X : a >= Count(cu) /\ a < N => ByteAt(left, a) # LOOP /\ ByteAt(left, a) # END)
      /\ (\A i \in 1..Count(cu) : left.code[i] = cu.code[i])
  BY <1>1 DEF Grew
<1>7. N \in DOMAIN X /\ \A a \in DOMAIN X : a \in Nat /\ a <= N
  BY <1>1, SoundFacts
<1>8. Continues(cu, T, O, w, U, O, m)
  <2>1. Count(cu) <= Count(w) /\ \A i \in 1..Count(cu) : w.code[i] = cu.code[i]
    <3>1. \A i \in 1..Count(cu) : i \in 1..N
      BY <1>2
    <3> QED
      BY <1>2, <1>5, <1>6, <3>1
  <2>2. DOMAIN T \subseteq DOMAIN U /\ \A a \in DOMAIN T : U[a] = T[a]
    BY <1>5, <1>6
  <2>3. ASSUME NEW a \in DOMAIN U PROVE a \in DOMAIN T \/ (a > Count(cu) /\ U[a].d >= m)
    <3>1. CASE a \in DOMAIN X
      BY <1>5, <1>6, <3>1
    <3>2. CASE a = N + 3
      BY <1>1, <1>2, <1>3, <1>5, <3>2
    <3> QED
      BY <1>5, <3>1, <3>2
  <2>4. MoreUpvalues(cu, w)
    BY <1>4 DEF MoreUpvalues
  <2> QED
    BY <1>1, <1>3, <1>4, <2>1, <2>2, <2>3, <2>4 DEF Continues
<1>9. ASSUME NEW a \in DOMAIN U, a >= Count(cu), a < Count(w), ByteAt(w, a) \in {LOOP, END} PROVE a = N
  <2>1. a \in DOMAIN X
    BY <1>2, <1>5, <1>9
  <2>2. a \in Nat /\ a <= N
    BY <1>7, <2>1
  <2>3. CASE a < N
    <3>1. a + 1 \in 1..N
      BY <1>2, <2>2, <2>3
    <3>2. ByteAt(w, a) = ByteAt(left, a)
      BY <1>5, <3>1 DEF ByteAt
    <3> QED
      BY <1>6, <1>9, <2>1, <2>3, <3>2
  <2> QED
    BY <1>2, <2>2, <2>3
<1>10. /\ N \in DOMAIN U /\ N < Count(w) /\ U[N] = Below(cu, m)
  BY <1>1, <1>2, <1>5, <1>7
<1>11. Belongs(w, N, n)
  <2>1. N >= l.bodyStartIndex
    BY <1>2
  <2>2. \A i \in 1..n : ~(i > n)
    BY <1>2
  <2> QED
    BY <1>2, <1>4, <2>1, <2>2 DEF Belongs, n
<1>12. op = END => BreakOK(w, scopes, U, N)
  <2> SUFFICES ASSUME op = END PROVE BreakOK(w, scopes, U, N)
    OBVIOUS
  <2>1. Lands(END, Below(cu, m)).d = m
    BY <1>1, <1>2, OpcodesDiffer DEF Lands
  <2>2. Pending(w, U, N, m)
    BY <1>2, <1>4, <1>5, <1>10, <2>1 DEF Pending
  <2>3. n \in 1..Len(w.loops) /\ m = Base(scopes, w.loops[n])
    BY <1>1, <1>2, <1>4 DEF n
  <2> QED
    BY <1>11, <2>2, <2>3 DEF BreakOK
<1>13. GoesOn(cu, scopes, todo, T, O, w, scopes, U, O, m)
  <2>1. ScopesOK(w, scopes)
    <3>1. SameBut(cu, w)
      BY <1>1, SameButTwice
    <3> QED
      BY <1>2, <3>1, ScopesSame
  <2>2. ASSUME NEW a \in DOMAIN U, a >= Count(cu), a < Count(w), ByteAt(w, a) = LOOP
        PROVE \A j \in 1..Len(cu.loops) : BackTarget(w, a) >= Start(cu.loops[j])
    <3>1. a = N
      BY <1>9, <2>2
    <3>2. op = LOOP /\ LOOP # END
      BY <1>5, <2>2, <3>1, OpcodesDiffer
    <3> QED
      BY <1>1, <1>2, <3>1, <3>2 DEF n
  <2>3. ASSUME NEW a \in DOMAIN U, a >= Count(cu), a < Count(w), ByteAt(w, a) = END PROVE BreakOK(w, scopes, U, a)
    <3>1. a = N
      BY <1>9, <2>3
    <3> QED
      BY <1>5, <1>12, <2>3, <3>1
  <2> QED
    BY <1>1, <1>2, <1>3, <1>8, <2>1, <2>2, <2>3 DEF GoesOn, n
<1>14. U[Count(w)] = Frame(w)
  BY <1>4, <1>5
<1>15. Good(w, scopes, todo, U, O, Mark, jumps, ends)
  BY <1>3, <1>4, <1>13, <1>14, GoodGoesOn
<1> QED
  BY <1>4, <1>5, <1>10, <1>11, <1>15 DEF n, O

LEMMA SimpleIsCompiled ==
  ASSUME NEW T, Compiles(T), NEW code, Simple(code), SameBut(cu, code), Count(code) \in Nat, Count(cu) <= Count(code),
         NEW U, Good(code, scopes, todo, U, Waiting(cu, todo), Mark, jumps', ends)
  PROVE  Compiling(U)'
<1>1. Compiling(T) /\ ReadingOK(cu, scopes, todo) /\ cu \in UnitTypes /\ Count(cu) \in Nat
  BY CompilingFacts DEF Compiles
<1>2. code.loops = cu.loops /\ code.upvalueNums = cu.upvalueNums
  BY DEF SameBut
<1>3. Waiting(code, todo) = Waiting(cu, todo) /\ Nested(code, scopes, todo)
  BY <1>1, <1>2, WaitingSame, NestedSame DEF Compiling
<1>4. Len(code.upvalueNums) <= Count(code)
  <2>1. Len(cu.upvalueNums) \in Nat /\ Len(cu.upvalueNums) <= Count(cu)
    BY <1>1, UnitFacts DEF Compiling
  <2> QED
    BY <1>1, <1>2, <2>1
<1>5. /\ cu' = code /\ todo' = todo /\ scopes' = scopes /\ marks' = Mark /\ ends' = ends
      /\ ip' = ip /\ depth' = depth /\ open' = open
  BY DEF Simple, Begin, machine
<1>6. Good(cu', scopes', todo', U, Waiting(cu', todo'), marks', jumps', ends')
  BY <1>3, <1>5
<1> QED
  BY <1>1, <1>3, <1>4, <1>5, <1>6 DEF Compiling

\* compileBreak(): the stack behind it is that of the statement, which is never reached.
LEMMA BreakCompiles ==
  ASSUME NEW T, Compiles(T), Break
  PROVE  \E U : Compiling(U)'
<1> DEFINE left == DiscardLocalVar(cu, Last(cu.loops).scopeDepth + 1)
           w == EmitInstrWithPlaceholder(left, END)
           N == Count(left)
           x == todo[AroundLoop].at
           O == Waiting(cu, todo)
<1>1. cu.loops # <<>> /\ Simple(w) /\ jumps' = Noted(jumps, N, x)
  BY DEF Break
<1>2. PICK X, m : LeftLoop(T, left, X, m)
  BY <1>1, LoopIsLeftEarly
<1> HIDE DEF left
<1>3. /\ cu \in UnitTypes /\ Count(cu) \in Nat /\ Len(cu.localVars) \in Nat /\ N \in Nat /\ Count(cu) <= N
      /\ left \in UnitTypes /\ Compiling(T) /\ ReadingOK(cu, scopes, todo) /\ Sound(left, X, O) /\ SameBut(cu, left)
      /\ Len(cu.localVars) <= left.stackSlotNum
  BY <1>2, LeftLoopFacts DEF LeftLoop, Compiles
<1>4. Frame(cu) \in Stacks /\ Frame(cu).d <= left.stackSlotNum
  BY <1>3, FrameIs
<1>5. PICK U : Sound(w, U, O) /\ Added(left, X, w, U, END, Frame(cu))
  BY <1>3, <1>4, EndAdded
<1>6. SameBut(left, w) /\ Count(w) = N + 3
  BY <1>3, WritersKeep, CountsAre, OpcodeTypes
<1> HIDE DEF w, O
<1>7. LeapsOut(T, left, X, m, w, U, END)
  BY <1>2, <1>5, <1>6 DEF LeapsOut, O
<1>8. /\ Good(w, scopes, todo, U, O, Mark, jumps, ends)
      /\ N \in DOMAIN U /\ N < Count(w) /\ ByteAt(w, N) = END /\ Belongs(w, N, Len(w.loops))
  BY <1>7, LeapsOutIs DEF O
<1>9. SameBut(cu, w) /\ w.loops = cu.loops
  BY <1>3, <1>6, SameButTwice DEF SameBut
<1>10. x = Start(w.loops[Len(w.loops)]) /\ Len(w.loops) \in 1..Len(w.loops)
  <2>1. LoopAt(todo, Max(LoopsIn(todo)), Last(cu.loops))
    BY <1>1, <1>3, InnermostLoop DEF Compiling, ReadingOK
  <2>2. AroundLoop = Max(LoopsIn(todo))
    <3>2. AroundLoop = IF LoopsIn(todo) # {} THEN Max(LoopsIn(todo)) ELSE 0
      BY DEF AroundLoop, SelectLastInSeq, LoopsIn, LoopKinds
    <3>3. LoopsIn(todo) # {}
      BY <2>1 DEF LoopAt
    <3> QED
      BY <3>2, <3>3
  <2>3. x = Start(Last(cu.loops))
    BY <2>1, <2>2 DEF LoopAt
  <2>4. Last(cu.loops) = cu.loops[Len(cu.loops)] /\ Len(cu.loops) \in 1..Len(cu.loops)
    BY <1>2, LeftLoopFacts
  <2> QED
    BY <1>9, <2>3, <2>4
<1> HIDE DEF x, N
<1>11. JumpOK(w, todo, U, ends, N, x)
  BY <1>8, <1>10 DEF JumpOK
<1>12. JumpsOK(w, todo, U, Noted(jumps, N, x), ends)
  <2>1. JumpsOK(w, todo, U, jumps, ends)
    BY <1>8 DEF Good
  <2>2. ASSUME NEW a \in DOMAIN Noted(jumps, N, x) PROVE JumpOK(w, todo, U, ends, a, Noted(jumps, N, x)[a])
    <3>1. CASE a \in DOMAIN jumps
      <4>1. Noted(jumps, N, x)[a] = jumps[a]
        BY <3>1 DEF Noted
      <4> QED
        BY <2>1, <3>1, <4>1 DEF JumpsOK
    <3>2. CASE a \notin DOMAIN jumps
      <4>1. a = N /\ Noted(jumps, N, x)[a] = x
        BY <2>2, <3>2 DEF Noted
      <4> QED
        BY <1>11, <4>1
    <3> QED
      BY <3>1, <3>2
  <2> QED
    BY <2>1, <2>2 DEF JumpsOK
<1>13. Good(w, scopes, todo, U, O, Mark, jumps', ends)
  BY <1>1, <1>8, <1>12 DEF Good
<1>14. Count(w) \in Nat /\ Count(cu) <= Count(w)
  BY <1>3, <1>6 DEF N
<1> QED
  BY <1>1, <1>9, <1>13, <1>14, SimpleIsCompiled DEF O

\* compileContinue()
LEMMA ContinueCompiles ==
  ASSUME NEW T, Compiles(T), Continue
  PROVE  \E U : Compiling(U)'
<1> DEFINE left == DiscardLocalVar(cu, Last(cu.loops).scopeDepth + 1)
           w == JumpBack(left)
           N == Count(left)
           O == Waiting(cu, todo)
           l == Last(cu.loops)
<1>1. cu.loops # <<>> /\ Simple(w) /\ jumps' = jumps /\ Count(w) < BYTE * BYTE
  BY DEF Continue, Simple, Compiles
<1>2. PICK X, m : LeftLoop(T, left, X, m)
  BY <1>1, LoopIsLeftEarly
<1> HIDE DEF left, l
<1>3. /\ cu \in UnitTypes /\ Count(cu) \in Nat /\ Len(cu.localVars) \in Nat /\ N \in Nat /\ Count(cu) <= N
      /\ left \in UnitTypes /\ Sound(left, X, O) /\ SameBut(cu, left)
      /\ Len(cu.localVars) <= left.stackSlotNum /\ left.loops = cu.loops
      /\ LoopOK(cu, T, l, m) /\ Start(l) \in DOMAIN T
      /\ Below(cu, m).d = m /\ Below(cu, m).c = {s \in Held(cu) : s < m} /\ Grew(cu, T, left, X, m)
      /\ X[N] = Below(cu, m)
  BY <1>2, LeftLoopFacts DEF LeftLoop, Compiles, l
<1>4. Frame(cu) \in Stacks /\ Frame(cu).d <= left.stackSlotNum
  BY <1>3, FrameIs
<1>5. Start(l) \in DOMAIN X /\ Leads(X[N], X[Start(l)])
  <2>1. Start(l) \in DOMAIN X /\ X[Start(l)] = T[Start(l)]
    BY <1>3 DEF Grew
  <2>2. T[Start(l)].d = m /\ \A s \in Held(cu) : s < m => s \in T[Start(l)].c
    BY <1>3 DEF LoopOK
  <2> QED
    BY <1>3, <2>1, <2>2 DEF Leads
<1>6. SameBut(left, w) /\ Count(w) = N + 3
  <2>1. Last(left.loops).condStartIndex \in Int
    <3>1. left.loops # <<>> /\ left.loops \in Seq(LoopTypes)
      BY <1>1, <1>3, UnitFacts
    <3>2. Last(left.loops) \in LoopTypes
      BY <3>1, LastIs
    <3> QED
      BY <3>2 DEF LoopTypes
  <2>2. Count(left) - Last(left.loops).condStartIndex + 2 \in Int
    BY <1>3, <2>1
  <2>3. Count(w) = N + 3
    BY <1>3, <2>2, CountsAre, OpcodeTypes DEF JumpBack
  <2>4. SameBut(left, w)
    BY <1>3, <2>2, WritersKeep, OpcodeTypes DEF JumpBack
  <2> QED
    BY <2>3, <2>4
<1>7. N + 3 < BYTE * BYTE
  BY <1>1, <1>6
<1>8. /\ \E U : Sound(w, U, O) /\ Added(left, X, w, U, LOOP, Frame(cu))
      /\ BackTarget(w, N) = Start(l)
  <2>1. left.loops # <<>> /\ Start(Last(left.loops)) \in DOMAIN X /\ Leads(X[Count(left)], X[Start(Last(left.loops))])
        /\ Start(Last(left.loops)) = Start(l) /\ Count(left) + 3 < BYTE * BYTE
    BY <1>1, <1>3, <1>5, <1>7 DEF l
  <2> QED
    BY <1>3, <1>4, <2>1, JumpBackAdded
<1>9. PICK U : Sound(w, U, O) /\ Added(left, X, w, U, LOOP, Frame(cu))
  BY <1>8
<1> HIDE DEF w, O
<1>10. LeapsOut(T, left, X, m, w, U, LOOP)
  BY <1>2, <1>6, <1>8, <1>9 DEF LeapsOut, O, l
<1>11. Good(w, scopes, todo, U, O, Mark, jumps', ends)
  BY <1>1, <1>10, LeapsOutIs DEF O
<1>12. SameBut(cu, w)
  BY <1>3, <1>6, SameButTwice
<1>13. Count(w) \in Nat /\ Count(cu) <= Count(w)
  BY <1>3, <1>6
<1> QED
  BY <1>1, <1>11, <1>12, <1>13, SimpleIsCompiled DEF O

-----------------------------------------------------------------------------
(***************************************************************************)
(* A closure captures variables of the frame: their slots may have an open *)
(* upvalue wherever control can go from here.                              *)
(***************************************************************************)
\* A short operand is a number, and a jump goes ahead.
LEMMA ShortFacts ==
  ASSUME NEW u, NEW T, NEW P, Sound(u, T, P), NEW a \in DOMAIN T, a < Count(u), Width(u, a) >= 3
  PROVE  ShortAt(u, a + 1) \in Nat /\ Target(u, a) \in Nat /\ Target(u, a) >= a + 3 /\ BackTarget(u, a) \in Int
<1>1. u \in UnitTypes /\ Count(u) \in Nat /\ a \in Nat /\ u.code \in Seq(Bytes) /\ InstrOK(u, DOMAIN T, a)
  BY SoundFacts DEF Sound, Chained
<1>2. a + Width(u, a) <= Count(u) /\ Width(u, a) \in Nat
  BY <1>1, SoundFacts, WidthFacts DEF InstrOK
<1>3. a + 2 \in 1..Len(u.code) /\ a + 3 \in 1..Len(u.code)
  BY <1>1, <1>2 DEF Count
<1>4. u.code[a + 2] \in Nat /\ u.code[a + 3] \in Nat
  <2>1. u.code[a + 2] \in Bytes /\ u.code[a + 3] \in Bytes
    BY <1>1, <1>3
  <2> QED
    BY <2>1, ByteFacts DEF Bytes
<1>5. a + 1 + 1 = a + 2 /\ a + 1 + 1 + 1 = a + 3
  BY <1>1
<1>6. ByteAt(u, a + 1) \in Nat /\ ByteAt(u, a + 1 + 1) \in Nat
  BY <1>4, <1>5 DEF ByteAt
<1>7. PICK x \in Nat, y \in Nat : x = ByteAt(u, a + 1) /\ y = ByteAt(u, a + 1 + 1)
  BY <1>6
<1>8. x * BYTE + y \in Nat
  BY <1>7, ByteFacts
<1>9. ShortAt(u, a + 1) \in Nat
  BY <1>7, <1>8 DEF ShortAt
<1> QED
  BY <1>1, <1>9 DEF Target, BackTarget

\* The slots of S that may have an open upvalue at address a, when a closure captures them at the end of the code.
Gains(u, ss, S, a) ==
  {s \in S : a = Count(u) \/ \E j \in 1..Len(u.loops) : s < Base(ss, u.loops[j]) /\ Start(u.loops[j]) <= a}

Capturing(u, ss, t, T, P, mk, jm, en, S) ==
  /\ Good(u, ss, t, T, P, mk, jm, en) /\ ReadingOK(u, ss, t) /\ Nested(u, ss, t)
  /\ S \subseteq 0..Len(u.localVars) - 1 /\ Cardinality(S) \in Nat

LEMMA CapturingFacts ==
  ASSUME NEW u, NEW ss, NEW t, NEW T, NEW P, NEW mk, NEW jm, NEW en, NEW S, Capturing(u, ss, t, T, P, mk, jm, en, S)
  PROVE  /\ Sound(u, T, P) /\ u \in UnitTypes /\ Count(u) \in Nat /\ Len(u.localVars) \in Nat /\ S \subseteq Nat
         /\ T[Count(u)] = Frame(u) /\ Frame(u).d = Len(u.localVars) /\ Frame(u).c = Held(u)
         /\ \A s \in S : s < Len(u.localVars)
         /\ \A j \in 1..Len(u.loops) : /\ LoopOK(u, T, u.loops[j], Base(ss, u.loops[j])) /\ Base(ss, u.loops[j]) \in Nat
                                       /\ Base(ss, u.loops[j]) <= Len(u.localVars)
                                       /\ Start(u.loops[j]) \in Nat /\ Start(u.loops[j]) \in DOMAIN T /\ Start(u.loops[j]) < Count(u)
<1>1. /\ Sound(u, T, P) /\ T[Count(u)] = Frame(u) /\ Shape(u, ss, t, T) /\ ScopesOK(u, ss) /\ ReadingOK(u, ss, t) /\ Nested(u, ss, t)
      /\ S \subseteq 0..Len(u.localVars) - 1
  BY DEF Capturing, Good
<1>2. u \in UnitTypes /\ Count(u) \in Nat /\ ss \in Blocks
  BY <1>1, SoundFacts DEF ScopesOK
<1>3. Len(u.localVars) \in Nat /\ Frame(u).d = Len(u.localVars) /\ Frame(u).c = Held(u)
  BY <1>2, FrameIs
<1>4. S \subseteq Nat /\ \A s \in S : s < Len(u.localVars)
  BY <1>1, <1>3
<1>5. ASSUME NEW j \in 1..Len(u.loops)
      PROVE /\ LoopOK(u, T, u.loops[j], Base(ss, u.loops[j])) /\ Base(ss, u.loops[j]) \in Nat
            /\ Base(ss, u.loops[j]) <= Len(u.localVars)
            /\ Start(u.loops[j]) \in Nat /\ Start(u.loops[j]) \in DOMAIN T /\ Start(u.loops[j]) < Count(u)
  <2> DEFINE l == u.loops[j]
  <2>1. LoopOK(u, T, l, Base(ss, l))
    BY <1>1 DEF Shape
  <2>2. l \in LoopTypes
    <3>1. u.loops \in Seq(LoopTypes)
      BY <1>2, UnitFacts
    <3> QED
      BY <3>1
  <2>3. Base(ss, l) \in Nat /\ Base(ss, l) <= Len(u.localVars)
    <3>1. Len(ss) - 1 <= Len(ss)
      BY <1>2 DEF Blocks
    <3> QED
      BY <1>1, <1>2, <3>1, NestedBases
  <2> HIDE DEF l
  <2>4. Start(l) \in DOMAIN T /\ Start(l) <= l.exitIndex - 1 /\ l.exitIndex - 1 < l.bodyStartIndex /\ l.bodyStartIndex \in DOMAIN T
        /\ l.exitIndex \in Int
    BY <2>1, <2>2 DEF LoopOK, LoopTypes
  <2>5. Start(l) \in Nat /\ l.bodyStartIndex \in Nat /\ l.bodyStartIndex <= Count(u)
    BY <1>1, <2>4, SoundFacts
  <2>6. \A x, y, z, k \in Int : x <= y - 1 /\ y - 1 < z /\ z <= k => x < k
    OBVIOUS
  <2>7. Start(l) < Count(u)
    BY <1>2, <2>4, <2>5, <2>6
  <2> QED
    BY <2>1, <2>3, <2>4, <2>5, <2>7 DEF l
<1> QED
  BY <1>1, <1>2, <1>3, <1>4, <1>5

LEMMA GainsFacts ==
  ASSUME NEW u, NEW ss, NEW t, NEW T, NEW P, NEW mk, NEW jm, NEW en, NEW S, Capturing(u, ss, t, T, P, mk, jm, en, S)
  PROVE  /\ \A a : Gains(u, ss, S, a) \subseteq S
         /\ Gains(u, ss, S, Count(u)) = S
         /\ \A a \in DOMAIN T : \A s \in Gains(u, ss, S, a) : s < T[a].d
         /\ \A a, b \in DOMAIN T : a < Count(u) /\ a <= b => Gains(u, ss, S, a) \subseteq Gains(u, ss, S, b)
         /\ \A j \in 1..Len(u.loops) : \A s \in S : s < Base(ss, u.loops[j]) => s \in Gains(u, ss, S, Start(u.loops[j]))
         /\ \A a \in DOMAIN T : a < Count(u) /\ ByteAt(u, a) = LOOP => Gains(u, ss, S, a) \subseteq Gains(u, ss, S, BackTarget(u, a))
         /\ \A a \in DOMAIN T : a < Count(u) => \A s \in Gains(u, ss, S, a) : s < Lands(ByteAt(u, a), T[a]).d
<1> DEFINE G(a) == Gains(u, ss, S, a)
           N == Count(u)
<1>1. /\ Sound(u, T, P) /\ u \in UnitTypes /\ N \in Nat /\ Len(u.localVars) \in Nat /\ S \subseteq Nat
      /\ T[N] = Frame(u) /\ Frame(u).d = Len(u.localVars) /\ Frame(u).c = Held(u)
      /\ \A s \in S : s < Len(u.localVars)
      /\ \A j \in 1..Len(u.loops) : /\ LoopOK(u, T, u.loops[j], Base(ss, u.loops[j])) /\ Base(ss, u.loops[j]) \in Nat
                                    /\ Base(ss, u.loops[j]) <= Len(u.localVars)
                                    /\ Start(u.loops[j]) \in Nat /\ Start(u.loops[j]) \in DOMAIN T /\ Start(u.loops[j]) < Count(u)
  BY CapturingFacts
<1>2. \A a : G(a) \subseteq S
  BY DEF Gains
<1>3. G(N) = S
  BY DEF Gains
<1>4. \A a \in DOMAIN T : a \in Nat /\ a <= N /\ T[a].d \in Nat
  BY <1>1, SoundFacts
<1>5. ASSUME NEW a, NEW s \in G(a), a # N
      PROVE  \E j \in 1..Len(u.loops) : s < Base(ss, u.loops[j]) /\ Start(u.loops[j]) <= a
  BY <1>5 DEF Gains
<1>6. ASSUME NEW a, NEW j \in 1..Len(u.loops), NEW s \in S, s < Base(ss, u.loops[j]), Start(u.loops[j]) <= a PROVE s \in G(a)
  BY <1>6 DEF Gains
<1> HIDE DEF G
<1>7. ASSUME NEW a \in DOMAIN T, NEW s \in G(a) PROVE s < T[a].d
  <2>1. CASE a = N
    BY <1>1, <1>2, <1>7, <2>1
  <2>2. CASE a # N
    <3>1. PICK j \in 1..Len(u.loops) : s < Base(ss, u.loops[j]) /\ Start(u.loops[j]) <= a
      BY <1>5, <1>7, <2>2
    <3>2. T[a].d >= Base(ss, u.loops[j])
      <4>1. LoopOK(u, T, u.loops[j], Base(ss, u.loops[j])) /\ a >= Start(u.loops[j])
        BY <1>1, <1>4, <3>1
      <4> QED
        BY <4>1 DEF LoopOK
    <3>3. s \in S
      BY <1>2, <1>7
    <3>4. s \in Int /\ Base(ss, u.loops[j]) \in Int /\ T[a].d \in Int
      BY <1>1, <1>4, <3>3
    <3>5. \A x, y, z \in Int : x < y /\ z >= y => x < z
      OBVIOUS
    <3> QED
      BY <3>1, <3>2, <3>4, <3>5
  <2> QED
    BY <2>1, <2>2
<1>8. ASSUME NEW a \in DOMAIN T, NEW b \in DOMAIN T, a < N, a <= b, NEW s \in G(a) PROVE s \in G(b)
  <2>1. a # N /\ a \in Nat /\ b \in Nat
    BY <1>1, <1>4, <1>8
  <2>2. PICK j \in 1..Len(u.loops) : s < Base(ss, u.loops[j]) /\ Start(u.loops[j]) <= a
    BY <1>5, <1>8, <2>1
  <2>3. Start(u.loops[j]) <= b /\ s \in S
    BY <1>1, <1>2, <1>8, <2>1, <2>2
  <2> QED
    BY <1>6, <2>2, <2>3
<1>9. ASSUME NEW j \in 1..Len(u.loops), NEW s \in S, s < Base(ss, u.loops[j]) PROVE s \in G(Start(u.loops[j]))
  <2>1. Start(u.loops[j]) <= Start(u.loops[j])
    BY <1>1
  <2> QED
    BY <1>6, <1>9, <2>1
<1>10. ASSUME NEW a \in DOMAIN T, a < N, ByteAt(u, a) = LOOP, NEW s \in G(a) PROVE s \in G(BackTarget(u, a))
  <2>1. a # N /\ a \in Nat
    BY <1>1, <1>4, <1>10
  <2>2. PICK j \in 1..Len(u.loops) : s < Base(ss, u.loops[j]) /\ Start(u.loops[j]) <= a
    BY <1>5, <1>10, <2>1
  <2>3. BackTarget(u, a) >= Start(u.loops[j])
    <3>1. LoopOK(u, T, u.loops[j], Base(ss, u.loops[j])) /\ a >= Start(u.loops[j])
      BY <1>1, <2>1, <2>2
    <3> QED
      BY <1>10, <3>1 DEF LoopOK
  <2>4. BackTarget(u, a) \in DOMAIN T
    BY <1>1, <1>10 DEF Sound, FlowOK
  <2>5. Start(u.loops[j]) <= BackTarget(u, a) /\ s \in S
    BY <1>1, <1>2, <1>4, <1>10, <2>3, <2>4
  <2> QED
    BY <1>6, <2>2, <2>5
<1>11. ASSUME NEW a \in DOMAIN T, a < N, NEW s \in G(a) PROVE s < Lands(ByteAt(u, a), T[a]).d
  <2>1. CASE ByteAt(u, a) = JUMP_IF_FALSE
    <3> DEFINE b == a + Width(u, a)
    <3>1. InstrOK(u, DOMAIN T, a) /\ a \in Nat /\ FlowOK(u, T, P, a)
      BY <1>1, <1>4, <1>11 DEF Sound, Chained
    <3>2. b \in DOMAIN T /\ b \in Nat /\ a <= b /\ Leads(Falls(u, a, T[a]), T[b])
      <4>1. Width(u, a) \in Nat /\ b \in DOMAIN T
        BY <1>1, <3>1, WidthFacts DEF InstrOK
      <4> QED
        BY <1>4, <2>1, <3>1, <4>1 DEF FlowOK, Branching
    <3> HIDE DEF b
    <3>3. s \in G(b)
      BY <1>8, <1>11, <3>2
    <3>4. s < T[b].d
      BY <1>7, <3>2, <3>3
    <3>5. T[b].d = T[a].d + (-1)
      BY <2>1, <3>2, SlotsUsedIs DEF Leads, Falls
    <3>6. Lands(ByteAt(u, a), T[a]).d = T[a].d - 1
      BY <2>1 DEF Lands
    <3> QED
      BY <1>4, <3>4, <3>5, <3>6
  <2>2. CASE ByteAt(u, a) # JUMP_IF_FALSE
    <3>1. Lands(ByteAt(u, a), T[a]).d = T[a].d
      BY <1>4, <2>2 DEF Lands
    <3> QED
      BY <1>7, <1>11, <3>1
  <2> QED
    BY <2>1, <2>2
<1> QED
  BY <1>2, <1>3, <1>7, <1>8, <1>9, <1>10, <1>11 DEF G

\* The stacks when the slots of S may have open upvalues as well.
Enlarged(u, ss, T, S) == [a \in DOMAIN T |-> [d |-> T[a].d, c |-> T[a].c \union Gains(u, ss, S, a)]]

\* The code and the operands are as they were, and more is captured.
LEMMA CapturedCode ==
  ASSUME NEW u, NEW ss, NEW t, NEW T, NEW P, NEW mk, NEW jm, NEW en, NEW S, Capturing(u, ss, t, T, P, mk, jm, en, S)
  PROVE  LET w == Captured(u, S)
         IN  /\ w \in UnitTypes /\ w.isModule = u.isModule /\ w.loops = u.loops /\ w.code = u.code
             /\ w.stackSlotNum = u.stackSlotNum /\ w.maxSlots = u.maxSlots
             /\ Len(w.localVars) = Len(u.localVars) /\ Count(w) = Count(u) /\ MoreUpvalues(u, w)
             /\ w.upvalueNums = Append(u.upvalueNums, Cardinality(S)) /\ Len(w.upvalueNums) = Len(u.upvalueNums) + 1
             /\ Held(w) = Held(u) \union S
             /\ \A a : ByteAt(w, a) = ByteAt(u, a) /\ ShortAt(w, a) = ShortAt(u, a) /\ Target(w, a) = Target(u, a)
                       /\ BackTarget(w, a) = BackTarget(u, a)
             /\ \A a \in DOMAIN T : a < Count(u) => Width(w, a) = Width(u, a) /\ InstrOK(w, DOMAIN T, a) /\ \A s : Falls(w, a, s) = Falls(u, a, s)
<1> DEFINE w == Captured(u, S)
           k == Cardinality(S)
<1>1. /\ Sound(u, T, P) /\ u \in UnitTypes /\ Count(u) \in Nat /\ Len(u.localVars) \in Nat /\ S \subseteq Nat
      /\ \A s \in S : s < Len(u.localVars)
  BY CapturingFacts
<1>2. k \in Nat
  BY DEF Capturing
<1>3. /\ w \in UnitTypes /\ w.isModule = u.isModule /\ w.loops = u.loops /\ w.code = u.code
      /\ w.stackSlotNum = u.stackSlotNum /\ w.maxSlots = u.maxSlots
      /\ w.upvalueNums = Append(u.upvalueNums, k)
      /\ Len(w.localVars) = Len(u.localVars)
      /\ \A i \in 1..Len(u.localVars) : w.localVars[i].isUpvalue = (u.localVars[i].isUpvalue \/ i - 1 \in S)
  BY <1>1, <1>2, CapturedIs
<1> HIDE DEF w, k
<1>4. /\ Count(w) = Count(u)
      /\ \A a : ByteAt(w, a) = ByteAt(u, a) /\ ShortAt(w, a) = ShortAt(u, a) /\ Target(w, a) = Target(u, a)
                /\ BackTarget(w, a) = BackTarget(u, a)
  BY <1>3 DEF Count, ByteAt, ShortAt, Target, BackTarget
<1>5. u.upvalueNums \in Seq(Nat) /\ Len(u.upvalueNums) \in Nat
  BY <1>1, UnitFacts
<1>6. Len(w.upvalueNums) = Len(u.upvalueNums) + 1 /\ MoreUpvalues(u, w)
  BY <1>2, <1>3, <1>5, AppendProperties DEF MoreUpvalues
<1>7. ASSUME NEW s \in Nat PROVE s \in Held(w) <=> s \in Held(u) \/ s \in S
  <2>1. CASE s < Len(u.localVars)
    <3>1. s + 1 \in 1..Len(u.localVars) /\ s \in 0..Len(u.localVars) - 1 /\ s + 1 - 1 = s
      BY <1>1, <2>1
    <3>2. w.localVars[s + 1].isUpvalue = (u.localVars[s + 1].isUpvalue \/ s \in S)
      BY <1>3, <3>1
    <3> QED
      BY <1>3, <3>1, <3>2 DEF Held
  <2>2. CASE ~(s < Len(u.localVars))
    <3>1. s \notin 0..Len(u.localVars) - 1 /\ s \notin S
      BY <1>1, <2>2
    <3> QED
      BY <1>3, <3>1 DEF Held
  <2> QED
    BY <2>1, <2>2
<1>8. Held(w) = Held(u) \union S
  <2>1. Held(w) \subseteq Nat /\ Held(u) \subseteq Nat
    BY <1>1, <1>3, FrameIs
  <2> QED
    BY <1>1, <1>7, <2>1
<1>9. ASSUME NEW a \in DOMAIN T, a < Count(u)
      PROVE Width(w, a) = Width(u, a) /\ InstrOK(w, DOMAIN T, a) /\ \A s : Falls(w, a, s) = Falls(u, a, s)
  <2>1. InstrOK(u, DOMAIN T, a) /\ a \in Nat
    BY <1>1, <1>9, SoundFacts DEF Sound, Chained
  <2>2. Kept(u, w, a)
    BY <1>4 DEF Kept
  <2> QED
    BY <1>1, <1>3, <1>6, <2>1, <2>2, KeptIs
<1> QED
  BY <1>3, <1>4, <1>6, <1>8, <1>9 DEF w, k

LEMMA EnlargedIs ==
  ASSUME NEW u, NEW ss, NEW t, NEW T, NEW P, NEW mk, NEW jm, NEW en, NEW S, Capturing(u, ss, t, T, P, mk, jm, en, S)
  PROVE  LET V == Enlarged(u, ss, T, S)
         IN  /\ V \in [DOMAIN T -> Stacks] /\ DOMAIN V = DOMAIN T
             /\ \A a \in DOMAIN T : V[a].d = T[a].d /\ V[a].c = T[a].c \union Gains(u, ss, S, a)
<1> DEFINE V == Enlarged(u, ss, T, S)
<1>1. DOMAIN V = DOMAIN T /\ \A a \in DOMAIN T : V[a] = [d |-> T[a].d, c |-> T[a].c \union Gains(u, ss, S, a)]
  BY DEF Enlarged
<1>2. ASSUME NEW a \in DOMAIN T PROVE V[a] \in Stacks
  <2>1. T[a] \in Stacks
    BY CapturingFacts, SoundFacts
  <2>2. Gains(u, ss, S, a) \subseteq S /\ S \subseteq Nat /\ \A s \in Gains(u, ss, S, a) : s < T[a].d
    BY CapturingFacts, GainsFacts
  <2>3. T[a].d \in Nat /\ T[a].c \in SUBSET Nat /\ \A x \in T[a].c : x < T[a].d
    BY <2>1 DEF Stacks
  <2> DEFINE d == T[a].d
             c == T[a].c \union Gains(u, ss, S, a)
  <2>4. d \in Nat /\ c \in SUBSET Nat /\ \A x \in c : x < d
    BY <2>2, <2>3
  <2>5. V[a] = [d |-> d, c |-> c]
    BY <1>1
  <2> HIDE DEF V, d, c
  <2>6. [d |-> d, c |-> c] \in Stacks
    BY <2>4 DEF Stacks
  <2> QED
    BY <2>5, <2>6
<1>3. V = [a \in DOMAIN T |-> V[a]]
  BY DEF Enlarged
<1> HIDE DEF V
<1>4. V \in [DOMAIN T -> Stacks]
  BY <1>2, <1>3
<1> QED
  BY <1>1, <1>4 DEF V

LEMMA CapturedIsSound ==
  ASSUME NEW u, NEW ss, NEW t, NEW T, NEW P, NEW mk, NEW jm, NEW en, NEW S, Capturing(u, ss, t, T, P, mk, jm, en, S)
  PROVE  Sound(Captured(u, S), Enlarged(u, ss, T, S), P)
<1> DEFINE w == Captured(u, S)
           V == Enlarged(u, ss, T, S)
           G(a) == Gains(u, ss, S, a)
<1>1. /\ Sound(u, T, P) /\ u \in UnitTypes /\ Count(u) \in Nat /\ u.code \in Seq(Bytes)
  BY CapturingFacts DEF Sound
<1>2. /\ w \in UnitTypes /\ w.code = u.code /\ w.stackSlotNum = u.stackSlotNum /\ w.maxSlots = u.maxSlots /\ Count(w) = Count(u)
      /\ \A a : ByteAt(w, a) = ByteAt(u, a) /\ ShortAt(w, a) = ShortAt(u, a) /\ Target(w, a) = Target(u, a)
                /\ BackTarget(w, a) = BackTarget(u, a)
      /\ \A a \in DOMAIN T : a < Count(u) => Width(w, a) = Width(u, a) /\ InstrOK(w, DOMAIN T, a) /\ \A s : Falls(w, a, s) = Falls(u, a, s)
  BY CapturedCode
<1>3. /\ V \in [DOMAIN T -> Stacks] /\ DOMAIN V = DOMAIN T
      /\ \A a \in DOMAIN T : V[a].d = T[a].d /\ V[a].c = T[a].c \union G(a)
  BY EnlargedIs
<1>4. /\ \A a, b \in DOMAIN T : a < Count(u) /\ a <= b => G(a) \subseteq G(b)
      /\ \A a \in DOMAIN T : a < Count(u) /\ ByteAt(u, a) = LOOP => G(a) \subseteq G(BackTarget(u, a))
  BY GainsFacts
<1> HIDE DEF w, V, G
<1>5. Chained(w, DOMAIN V)
  BY <1>1, <1>2, <1>3 DEF Sound, Chained
<1>6. ASSUME NEW a \in DOMAIN T, a < Count(u) PROVE FlowOK(w, V, P, a)
  <2> DEFINE op == ByteAt(u, a)
             next == a + Width(u, a)
  <2>1. FlowOK(u, T, P, a) /\ InstrOK(u, DOMAIN T, a) /\ a \in Nat
    BY <1>1, <1>6, SoundFacts DEF Sound, Chained
  <2>2. next \in DOMAIN T /\ a <= next /\ Width(u, a) \in Nat
    <3>1. Width(u, a) \in Nat /\ next \in DOMAIN T
      BY <1>1, <2>1, WidthFacts DEF InstrOK
    <3> QED
      BY <2>1, <3>1
  <2> HIDE DEF next
  <2>3. ASSUME op \in Straight \union Branching PROVE Leads(Falls(w, a, V[a]), V[next])
    <3>1. Leads(Falls(u, a, T[a]), T[next])
      BY <2>1, <2>3 DEF FlowOK, next
    <3>2. G(a) \subseteq G(next)
      BY <1>4, <1>6, <2>2
    <3>3. Falls(u, a, V[a]).d = Falls(u, a, T[a]).d /\ Falls(u, a, V[a]).c \subseteq Falls(u, a, T[a]).c \union G(a)
      BY <1>3 DEF Falls
    <3>4. Falls(w, a, V[a]) = Falls(u, a, V[a])
      BY <1>2, <1>6
    <3> QED
      BY <1>3, <2>2, <3>1, <3>2, <3>3, <3>4 DEF Leads
  <2>4. ASSUME op \in Branching \union {JUMP}, a \notin P
        PROVE Target(u, a) \in DOMAIN T /\ Leads(Lands(op, V[a]), V[Target(u, a)])
    <3>1. Target(u, a) \in DOMAIN T /\ Leads(Lands(op, T[a]), T[Target(u, a)])
      BY <2>1, <2>4 DEF FlowOK
    <3>2. a <= Target(u, a)
      <4>1. Width(u, a) >= 3
        BY <1>1, <2>1, <2>4, WidthFacts DEF Branching
      <4>2. Target(u, a) \in Nat /\ Target(u, a) >= a + 3
        BY <1>1, <1>6, <4>1, ShortFacts
      <4> QED
        BY <2>1, <4>2
    <3>3. G(a) \subseteq G(Target(u, a))
      BY <1>4, <1>6, <3>1, <3>2
    <3> QED
      BY <1>3, <3>1, <3>3 DEF Leads, Lands
  <2>5. ASSUME op = LOOP PROVE BackTarget(u, a) \in DOMAIN T /\ Leads(V[a], V[BackTarget(u, a)])
    <3>1. BackTarget(u, a) \in DOMAIN T /\ Leads(T[a], T[BackTarget(u, a)])
      BY <2>1, <2>5 DEF FlowOK
    <3>2. G(a) \subseteq G(BackTarget(u, a))
      BY <1>4, <1>6, <2>5
    <3> QED
      BY <1>3, <3>1, <3>2 DEF Leads
  <2> QED
    BY <1>2, <1>3, <1>6, <2>3, <2>4, <2>5 DEF FlowOK, next
<1>7. RoomOK(w, V)
  <2>1. Count(u) \in DOMAIN T
    BY <1>1, SoundFacts
  <2> QED
    BY <1>1, <1>2, <1>3, <2>1 DEF Sound, RoomOK
<1>8. w.code \in Seq(Bytes) /\ V \in [DOMAIN V -> Stacks] /\ \A a \in DOMAIN V : a < Count(w) => FlowOK(w, V, P, a)
  BY <1>1, <1>2, <1>3, <1>6
<1> QED
  BY <1>2, <1>5, <1>7, <1>8 DEF Sound, w, V

\* What is remembered stays so.
LEMMA GoodCaptured ==
  ASSUME NEW u, NEW ss, NEW t, NEW T, NEW P, NEW mk, NEW jm, NEW en, NEW S, Capturing(u, ss, t, T, P, mk, jm, en, S)
  PROVE  Good(Captured(u, S), ss, t, Enlarged(u, ss, T, S), P, mk, jm, en)
<1> DEFINE w == Captured(u, S)
           V == Enlarged(u, ss, T, S)
           G(a) == Gains(u, ss, S, a)
<1>1. /\ Sound(u, T, P) /\ u \in UnitTypes /\ Count(u) \in Nat /\ Len(u.localVars) \in Nat
      /\ T[Count(u)] = Frame(u) /\ Frame(u).d = Len(u.localVars) /\ Frame(u).c = Held(u)
      /\ \A j \in 1..Len(u.loops) : Base(ss, u.loops[j]) \in Nat /\ Start(u.loops[j]) \in DOMAIN T
  BY CapturingFacts
<1>2. /\ w \in UnitTypes /\ w.isModule = u.isModule /\ w.loops = u.loops /\ Count(w) = Count(u)
      /\ Len(w.localVars) = Len(u.localVars) /\ Held(w) = Held(u) \union S
      /\ \A a : ByteAt(w, a) = ByteAt(u, a) /\ Target(w, a) = Target(u, a) /\ BackTarget(w, a) = BackTarget(u, a)
  BY CapturedCode
<1>3. /\ DOMAIN V = DOMAIN T /\ \A a \in DOMAIN T : V[a].d = T[a].d /\ V[a].c = T[a].c \union G(a)
  BY EnlargedIs
<1>4. /\ \A a : G(a) \subseteq S
      /\ G(Count(u)) = S
      /\ \A j \in 1..Len(u.loops) : \A s \in S : s < Base(ss, u.loops[j]) => s \in G(Start(u.loops[j]))
      /\ \A a \in DOMAIN T : a < Count(u) => \A s \in G(a) : s < Lands(ByteAt(u, a), T[a]).d
  BY GainsFacts
<1>5. /\ Good(u, ss, t, T, P, mk, jm, en) /\ ReadingOK(u, ss, t) /\ Shape(u, ss, t, T) /\ Cardinality(S) \in Nat
      /\ JumpsOK(u, t, T, jm, en) /\ MarksOK(T, mk) /\ T[0].d = (IF u.isModule THEN 0 ELSE 1)
      /\ 0 \in DOMAIN T /\ Count(u) \in DOMAIN T
  BY <1>1, SoundFacts DEF Capturing, Good
<1>6. Sound(w, V, P)
  BY CapturedIsSound
<1>7. ScopesOK(w, ss)
  BY <1>5, CapturedReads DEF ReadingOK
<1> HIDE DEF w, V, G
<1>8. V[Count(w)] = Frame(w)
  <2>1. V[Count(u)] \in Stacks /\ Frame(w) \in Stacks
    BY <1>2, <1>3, <1>5, <1>6, SoundFacts, FrameIs
  <2>2. V[Count(u)].d = Frame(w).d /\ V[Count(u)].c = Frame(w).c
    <3>1. Frame(w).d = Len(w.localVars) /\ Frame(w).c = Held(w)
      BY DEF Frame
    <3> QED
      BY <1>1, <1>2, <1>3, <1>4, <1>5, <3>1
  <2>3. \A x, y \in Stacks : x.d = y.d /\ x.c = y.c => x = y
    BY DEF Stacks
  <2> QED
    BY <1>2, <2>1, <2>2, <2>3
<1>9. ASSUME NEW a, NEW n, Pending(u, T, a, n) PROVE Pending(w, V, a, n)
  <2>1. a \in DOMAIN T /\ a < Count(u) /\ Lands(ByteAt(u, a), T[a]).d = n /\ \A s \in T[a].c : s \in Held(u) /\ s < n
    BY <1>9 DEF Pending
  <2>2. Lands(ByteAt(u, a), V[a]).d = Lands(ByteAt(u, a), T[a]).d
    BY <1>3, <2>1 DEF Lands
  <2>3. \A s \in V[a].c : s \in Held(w) /\ s < n
    BY <1>2, <1>3, <1>4, <2>1
  <2> QED
    BY <1>2, <1>3, <2>1, <2>2, <2>3 DEF Pending
<1>10. ASSUME NEW j \in 1..Len(u.loops) PROVE LoopOK(w, V, u.loops[j], Base(ss, u.loops[j]))
  <2> DEFINE l == u.loops[j]
             base == Base(ss, l)
  <2>1. LoopOK(u, T, l, base) /\ \A s \in S : s < base => s \in G(Start(l))
    BY <1>4, <1>5 DEF Shape
  <2> HIDE DEF l, base
  <2>2. V[Start(l)].d = base /\ \A s \in Held(w) : s < base => s \in V[Start(l)].c
    BY <1>2, <1>3, <2>1 DEF LoopOK
  <2>3. Pending(w, V, l.exitIndex - 1, base)
    BY <1>9, <2>1 DEF LoopOK
  <2> QED
    BY <1>2, <1>3, <2>1, <2>2, <2>3 DEF LoopOK, l, base
<1>11. Shape(w, ss, t, V)
  <2>1. \A i, j \in 1..Len(u.loops) : i < j => u.loops[i].bodyStartIndex <= Start(u.loops[j])
    BY <1>5 DEF Shape
  <2>2. \A i \in Ifs(t) : IfOK(w, V, t[i].at - 1, UpTo(ss, t[i].outer))
    BY <1>2, <1>5, <1>9 DEF Shape, IfOK
  <2>3. ASSUME NEW a \in DOMAIN V, a < Count(w), ByteAt(w, a) = END PROVE BreakOK(w, ss, V, a)
    <3>1. BreakOK(u, ss, T, a)
      BY <1>2, <1>3, <1>5, <2>3 DEF Shape
    <3>2. PICK j \in 1..Len(u.loops) : Belongs(u, a, j) /\ Pending(u, T, a, Base(ss, u.loops[j]))
      BY <3>1 DEF BreakOK
    <3>3. Belongs(w, a, j)
      BY <1>2, <3>2 DEF Belongs
    <3> QED
      BY <1>2, <1>9, <3>2, <3>3 DEF BreakOK
  <2> QED
    BY <1>2, <1>10, <2>1, <2>2, <2>3 DEF Shape
<1>12. JumpsOK(w, t, V, jm, en)
  <2>1. ASSUME NEW a \in DOMAIN jm PROVE JumpOK(w, t, V, en, a, jm[a])
    <3>1. JumpOK(u, t, T, en, a, jm[a])
      BY <1>5, <2>1 DEF JumpsOK
    <3>2. Waiting(w, t) = Waiting(u, t)
      BY <1>2, WaitingSame
    <3>3. \A j : Belongs(w, a, j) <=> Belongs(u, a, j)
      BY <1>2 DEF Belongs
    <3> QED
      BY <1>2, <1>3, <3>1, <3>2, <3>3 DEF JumpOK
  <2> QED
    BY <1>2, <1>5, <2>1 DEF JumpsOK
<1>13. MarksOK(V, mk) /\ V[0].d = IF w.isModule THEN 0 ELSE 1
  BY <1>2, <1>3, <1>5 DEF MarksOK
<1> QED
  BY <1>6, <1>7, <1>8, <1>11, <1>12, <1>13 DEF Good, w, V

-----------------------------------------------------------------------------
\* OPCODE_CREATE_CLOSURE and its pairs of bytes: the function with number n captures slots of the frame
\* which are known to be captured.
LEMMA ClosureAbove ==
  ASSUME NEW o, NEW O, NEW u, NEW T, NEW P, NEW f, NEW k, Wrt(o, O, u, T, P, f, k), NEW n \in Nat, n < BYTE * BYTE,
         n + 1 \in 1..Len(u.upvalueNums), NEW b \in Seq(Bytes), NEW z \in Nat, z = u.upvalueNums[n + 1], Len(b) = 2 * z,
         \A i \in 1..z : b[2 * i] \in f.c
  PROVE  LET w == WriteBytes(WriteShort(u, CREATE_CLOSURE, n), b)
         IN  \E U : Wrt(o, O, w, U, P, f, k + 1)
<1> DEFINE x == WriteShort(u, CREATE_CLOSURE, n)
           w == WriteBytes(x, b)
           h == <<CREATE_CLOSURE, High(n), Low(n)>>
           g == h \o b
           N == Count(u)
           e == On(f, k + 1)
<1>1. /\ Above(o, O, u, T, P, f, k) /\ SameBut(o, u) /\ u \in UnitTypes /\ Sound(u, T, P) /\ N \in Nat /\ f \in Stacks /\ k \in Nat
      /\ T[N] = On(f, k) /\ T[N].d <= u.stackSlotNum /\ u.stackSlotNum \in Int
  BY WrtFacts, UnitFacts
<1>2. /\ SlotsUsed(CREATE_CLOSURE) = 1 /\ CREATE_CLOSURE # LOOP /\ CREATE_CLOSURE # END /\ CREATE_CLOSURE \in 1..END
      /\ CREATE_CLOSURE \notin Branching \union {JUMP} /\ CREATE_CLOSURE # CLOSE_UPVALUE /\ CREATE_CLOSURE \in Opcodes
  BY OpcodesDiffer, SlotsUsedIs, OpcodeTypes DEF Branching
<1>3. h \in Seq(Bytes) /\ Len(h) = 3 /\ h[1] = CREATE_CLOSURE /\ h[2] = High(n) /\ h[3] = Low(n)
  <2>1. CREATE_CLOSURE \in Bytes /\ High(n) \in Bytes /\ Low(n) \in Bytes
    BY <1>2, ByteTypes
  <2> QED
    BY <2>1, BytesAre
<1>4. Wrote(u, x, h, 1) /\ x \in UnitTypes
  <2>1. Wrote(u, x, h, 1)
    BY <1>1, <1>2, WriteShortIs
  <2> QED
    BY <2>1 DEF Wrote, SameBut
<1> HIDE DEF h, x
<1>5. b \in Seq(Int) /\ h \in Seq(Int)
  BY <1>3, BytesInt
<1>6. Wrote(x, w, b, 0)
  BY <1>4, <1>5, WriteBytesIs
<1> HIDE DEF w
<1>7. /\ g \in Seq(Bytes) /\ Len(g) = 3 + 2 * z /\ g[1] = CREATE_CLOSURE /\ g[2] = High(n) /\ g[3] = Low(n)
      /\ \A i \in 1..2 * z : g[3 + i] = b[i]
  <2>1. g \in Seq(Bytes) /\ Len(g) = Len(h) + Len(b)
    BY <1>3, ConcatProperties
  <2>2. \A i \in 1..Len(h) + Len(b) : g[i] = IF i <= Len(h) THEN h[i] ELSE b[i - Len(h)]
    BY <1>3, ConcatProperties
  <2>3. Len(g) = 3 + 2 * z
    BY <1>3, <2>1
  <2>4. \A i \in 1..3 + 2 * z : g[i] = IF i <= 3 THEN h[i] ELSE b[i - 3]
    BY <1>3, <2>2
  <2>5. \A i \in 1..2 * z : 3 + i \in 1..3 + 2 * z /\ ~(3 + i <= 3) /\ (3 + i) - 3 = i
    OBVIOUS
  <2>6. 1 \in 1..3 + 2 * z /\ 2 \in 1..3 + 2 * z /\ 3 \in 1..3 + 2 * z
    OBVIOUS
  <2> HIDE DEF g
  <2>7. g[1] = h[1] /\ g[2] = h[2] /\ g[3] = h[3]
    BY <2>4, <2>6
  <2>8. \A i \in 1..2 * z : g[3 + i] = b[i]
    BY <2>4, <2>5
  <2> QED
    BY <1>3, <2>1, <2>3, <2>7, <2>8
<1>8. Wrote(u, w, g, 1)
  <2>1. u.code \in Seq(Int)
    BY <1>1, UnitFacts
  <2>2. w.code = (u.code \o h) \o b
    BY <1>4, <1>6 DEF Wrote
  <2>3. w.code = u.code \o g
    BY <1>5, <2>1, <2>2, ConcatTwice
  <2>4. SameBut(u, w)
    BY <1>4, <1>6, SameButTwice DEF Wrote
  <2>5. /\ x.stackSlotNum = u.stackSlotNum + 1 /\ x.maxSlots >= u.maxSlots /\ (u.maxSlots >= u.stackSlotNum => x.maxSlots >= x.stackSlotNum)
        /\ w.stackSlotNum = x.stackSlotNum + 0 /\ w.maxSlots >= x.maxSlots /\ (x.maxSlots >= x.stackSlotNum => w.maxSlots >= w.stackSlotNum)
    BY <1>4, <1>6 DEF Wrote
  <2>6. w \in UnitTypes
    BY <2>4 DEF SameBut
  <2>7. /\ u.stackSlotNum \in Int /\ x.stackSlotNum \in Int /\ w.stackSlotNum \in Int
        /\ u.maxSlots \in Int /\ x.maxSlots \in Int /\ w.maxSlots \in Int
    BY <1>1, <1>4, <2>6, UnitFacts
  <2> HIDE DEF g
  <2>8. w.stackSlotNum = u.stackSlotNum + 1 /\ w.maxSlots >= u.maxSlots /\ (u.maxSlots >= u.stackSlotNum => w.maxSlots >= w.stackSlotNum)
    BY <2>5, <2>7
  <2> QED
    BY <2>3, <2>4, <2>8 DEF Wrote
<1> HIDE DEF g
<1>9. /\ ByteAt(w, N) = CREATE_CLOSURE /\ ByteAt(w, N + 1) = High(n) /\ ByteAt(w, N + 2) = Low(n)
      /\ \A i \in 1..z : ByteAt(w, N + 2 + 2 * i) = b[2 * i]
  <2>1. g \in Seq(Int) /\ w \in UnitTypes /\ w.code = u.code \o g
    BY <1>7, <1>8, WroteFacts
  <2>2. \A i \in 0..Len(g) - 1 : ByteAt(w, N + i) = g[i + 1]
    BY <1>1, <2>1, AppendedIs
  <2>3. \A i \in 0..2 + 2 * z : ByteAt(w, N + i) = g[i + 1]
    BY <1>7, <2>2
  <2>4. N + 0 = N /\ 0 \in 0..2 + 2 * z /\ 1 \in 0..2 + 2 * z /\ 2 \in 0..2 + 2 * z /\ 0 + 1 = 1 /\ 1 + 1 = 2 /\ 2 + 1 = 3
    BY <1>1
  <2>5. ASSUME NEW i \in 1..z
        PROVE  ByteAt(w, N + 2 + 2 * i) = b[2 * i]
    <3>1. /\ 2 + 2 * i \in 0..2 + 2 * z /\ N + (2 + 2 * i) = N + 2 + 2 * i /\ (2 + 2 * i) + 1 = 3 + 2 * i /\ 2 * i \in 1..2 * z
      <4>1. i \in Nat /\ i >= 1 /\ i <= z
        OBVIOUS
      <4>2. \A x1, y1 \in Int : x1 + (2 + 2 * y1) = x1 + 2 + 2 * y1
        OBVIOUS
      <4>3. 2 + 2 * i \in 0..2 + 2 * z /\ (2 + 2 * i) + 1 = 3 + 2 * i /\ 2 * i \in 1..2 * z
        BY <4>1
      <4> QED
        BY <1>1, <4>1, <4>2, <4>3
    <3>2. ByteAt(w, N + (2 + 2 * i)) = g[(2 + 2 * i) + 1]
      BY <2>3, <3>1
    <3>3. g[3 + 2 * i] = b[2 * i]
      BY <1>7, <3>1
    <3> QED
      BY <3>1, <3>2, <3>3
  <2>6. ByteAt(w, N + 0) = g[0 + 1] /\ ByteAt(w, N + 1) = g[1 + 1] /\ ByteAt(w, N + 2) = g[2 + 1]
    BY <2>3, <2>4
  <2> QED
    BY <1>7, <2>4, <2>5, <2>6
<1>10. ShortAt(w, N + 1) = n /\ w.upvalueNums = u.upvalueNums
  <2>1. N + 1 + 1 = N + 2
    BY <1>1
  <2>2. ShortAt(w, N + 1) = High(n) * BYTE + Low(n)
    BY <1>9, <2>1 DEF ShortAt
  <2> QED
    BY <1>8, <2>2, ShortIs DEF Wrote, SameBut
<1>11. Width(w, N) = Len(g)
  <2>1. Width(w, N) = 1 + (2 + 2 * z)
    BY <1>2, <1>9, <1>10, WidthIs
  <2> QED
    BY <1>7, <2>1
<1>12. Captures(w, N) \subseteq f.c
  <2>1. Captures(w, N) = {ByteAt(w, N + 2 + 2 * i) : i \in 1..z}
    BY <1>10 DEF Captures
  <2> QED
    BY <1>9, <2>1
<1>13. e \in Stacks /\ e.d = f.d + (k + 1) /\ e.c = f.c /\ f.d \in Nat /\ On(f, k).d = f.d + k /\ On(f, k).c = f.c
  <2>1. k + 1 \in Nat
    BY <1>1
  <2> QED
    BY <1>1, <2>1, OnIs
<1> HIDE DEF e
<1>14. Leads(Falls(w, N, T[N]), e)
  <2> DEFINE F == Falls(w, N, T[N])
  <2>1. F.d = T[N].d + 1
    BY <1>2, <1>9 DEF Falls
  <2>2. F.c = T[N].c \union Captures(w, N)
    BY <1>2, <1>9 DEF Falls
  <2> HIDE DEF F
  <2>3. (f.d + k) + 1 = f.d + (k + 1)
    <3>1. \A x1, y1 \in Int : (x1 + y1) + 1 = x1 + (y1 + 1)
      OBVIOUS
    <3>2. f.d \in Int /\ k \in Int
      BY <1>1, <1>13
    <3> QED
      BY <3>1, <3>2
  <2>4. F.d = e.d /\ F.c \subseteq e.c
    BY <1>1, <1>12, <1>13, <2>1, <2>2, <2>3
  <2> QED
    BY <2>4 DEF F, Leads
<1>15. e.d <= u.stackSlotNum + 1 /\ e.d >= f.d
  <2>1. f.d + k <= u.stackSlotNum
    BY <1>1, <1>13
  <2> QED
    BY <1>1, <1>13, <2>1
<1>16. Len(g) > 0 /\ P \subseteq P /\ 1 \in Int /\ ShortAt(w, N + 1) + 1 \in 1..Len(w.upvalueNums)
  <2>1. 3 + 2 * z > 0
    OBVIOUS
  <2> QED
    BY <1>7, <1>10, <2>1
<1>17. Emission(u, T, P, w, g, CREATE_CLOSURE, 1, e, P)
  BY <1>1, <1>2, <1>7, <1>8, <1>11, <1>13, <1>14, <1>15, <1>16 DEF Emission
<1>18. PICK U : Sound(w, U, P) /\ Grew(u, T, w, U, f.d) /\ U[Count(w)] = e
  BY <1>2, <1>13, <1>15, <1>17, EmitGrew
<1>19. Above(o, O, w, U, P, f, k + 1)
  <2>1. k + 1 \in Nat
    BY <1>1
  <2> QED
    BY <1>1, <1>18, <2>1, AboveStep DEF e
<1>20. SameBut(o, w)
  BY <1>1, <1>8, SameButTwice DEF Wrote
<1> QED
  BY <1>19, <1>20 DEF Wrt, w, x

\* Code that leaves the stack as it was is appended.
LEMMA GoodWrites ==
  ASSUME NEW u, NEW ss, NEW t, NEW T, NEW P, NEW mk, NEW jm, NEW en, Good(u, ss, t, T, P, mk, jm, en),
         ReadingOK(u, ss, t), Nested(u, ss, t), NEW w, NEW U, Wrt(u, T, w, U, P, Frame(u), 0)
  PROVE  Good(w, ss, t, U, P, mk, jm, en) /\ Count(u) <= Count(w) /\ Count(w) \in Nat
<1>1. u \in UnitTypes /\ ScopesOK(u, ss) /\ ss \in Blocks /\ Len(ss) \in Nat /\ Len(u.localVars) \in Nat
  BY ScopesFacts DEF ReadingOK
<1>2. Frame(u) \in Stacks /\ Frame(u).d = Len(u.localVars)
  BY <1>1, FrameIs
<1>3. /\ SameBases(u, t, ss, ss)
      /\ \A j \in 1..Len(u.loops) : Base(ss, u.loops[j]) <= Len(u.localVars)
  <2>1. Len(ss) - 1 <= Len(ss)
    BY <1>1
  <2> QED
    BY <1>1, <2>1, NestedBases
<1>4. /\ w.loops = u.loops /\ w.upvalueNums = u.upvalueNums /\ w.isModule = u.isModule /\ w.localVars = u.localVars
      /\ SameBut(u, w) /\ Above(u, T, w, U, P, Frame(u), 0)
  BY WrtFacts DEF SameBut
<1>5. Sound(w, U, P) /\ Grew(u, T, w, U, Len(u.localVars)) /\ U[Count(w)] = Frame(u)
  <2>1. U[Count(w)] = On(Frame(u), 0)
    BY <1>4 DEF Above
  <2> QED
    BY <1>2, <1>4, <2>1, OnIs DEF Above
<1>6. Frame(w) = Frame(u) /\ Alike(u, w)
  BY <1>4 DEF Frame, Held, Alike
<1>7. ScopesOK(w, ss)
  BY <1>1, <1>4, ScopesSame
<1>8. Appends(u, ss, t, T, w, ss, U, P, Len(u.localVars))
  BY <1>1, <1>3, <1>4, <1>5, <1>6, <1>7 DEF Appends
<1>9. Count(u) <= Count(w) /\ Count(w) \in Nat
  BY WrtFacts
<1> QED
  BY <1>8, <1>9, GoodAppends

LEMMA SimpleIsDone ==
  ASSUME NEW T, Compiles(T), NEW code, Simple(code), code.loops = cu.loops, Len(code.upvalueNums) <= Count(code),
         NEW U, Good(code, scopes, todo, U, Waiting(cu, todo), Mark, jumps', ends)
  PROVE  Compiling(U)'
<1>1. Compiling(T) /\ ReadingOK(cu, scopes, todo)
  BY DEF Compiles
<1>2. Waiting(code, todo) = Waiting(cu, todo) /\ Nested(code, scopes, todo)
  BY <1>1, WaitingSame, NestedSame DEF Compiling
<1>3. /\ cu' = code /\ todo' = todo /\ scopes' = scopes /\ marks' = Mark /\ ends' = ends
      /\ ip' = ip /\ depth' = depth /\ open' = open
  BY DEF Simple, Begin, machine
<1>4. Good(cu', scopes', todo', U, Waiting(cu', todo'), marks', jumps', ends')
  BY <1>2, <1>3
<1> QED
  BY <1>1, <1>2, <1>3, <1>4 DEF Compiling

\* The pairs of bytes behind OPCODE_CREATE_CLOSURE.
LEMMA PairsAre ==
  ASSUME NEW S, IsFiniteSet(S), S \subseteq Bytes
  PROVE  LET z == Cardinality(S)
             pairs == [i \in 1..2 * z |-> IF i % 2 = 1 THEN 1 ELSE SetToSeq(S)[i \div 2]]
         IN  z \in Nat /\ pairs \in Seq(Bytes) /\ Len(pairs) = 2 * z /\ \A i \in 1..z : pairs[2 * i] \in S
<1> DEFINE z == Cardinality(S)
           q == SetToSeq(S)
           pairs == [i \in 1..2 * z |-> IF i % 2 = 1 THEN 1 ELSE q[i \div 2]]
<1>1. z \in Nat /\ q \in [1..z -> S]
  BY SetToSeqIs
<1> HIDE DEF z, q
<1>2. 1 \in Bytes
  BY CompileUnitAssumption, OpcodesDiffer DEF Bytes
<1>3. ASSUME NEW i \in 1..2 * z
      PROVE  pairs[i] \in Bytes
  <2>1. pairs[i] = IF i % 2 = 1 THEN 1 ELSE q[i \div 2]
    OBVIOUS
  <2>2. i % 2 = 1 \/ i \div 2 \in 1..z
    BY <1>1
  <2>3. CASE i % 2 = 1
    BY <1>2, <2>1, <2>3
  <2>4. CASE i % 2 # 1
    <3>1. q[i \div 2] \in S
      BY <1>1, <2>2, <2>4
    <3> QED
      BY <2>1, <2>4, <3>1
  <2> QED
    BY <2>3, <2>4
<1>4. ASSUME NEW i \in 1..z
      PROVE  pairs[2 * i] \in S
  <2>1. 2 * i \in 1..2 * z /\ (2 * i) % 2 # 1 /\ (2 * i) \div 2 = i
    BY <1>1
  <2>2. pairs[2 * i] = IF (2 * i) % 2 = 1 THEN 1 ELSE q[(2 * i) \div 2]
    BY <2>1
  <2>3. pairs[2 * i] = q[i]
    BY <2>1, <2>2
  <2> QED
    BY <1>1, <2>3
<1>5. pairs \in [1..2 * z -> Bytes]
  BY <1>3
<1>6. PICK m \in Nat : m = 2 * z
  BY <1>1
<1>7. pairs \in [1..m -> Bytes]
  BY <1>5, <1>6
<1> HIDE DEF pairs
<1>8. pairs \in Seq(Bytes) /\ Len(pairs) = m
  BY <1>6, <1>7
<1> QED
  BY <1>1, <1>4, <1>6, <1>8 DEF pairs, q, z

\* A call with a block argument.
LEMMA CallWithBlockCompiles ==
  ASSUME NEW T, Compiles(T), Len(cu.localVars) <= BYTE, NEW ns \in SUBSET Name, CallWithBlock(ns)
  PROVE  \E U : Compiling(U)'
<1> DEFINE S == {FindLocal(cu, n) : n \in ns}
           n == Len(cu.upvalueNums)
           z == Cardinality(S)
           pairs == [i \in 1..2 * z |-> IF i % 2 = 1 THEN 1 ELSE SetToSeq(S)[i \div 2]]
           u == Captured(cu, S)
           O == Waiting(cu, todo)
           V == Enlarged(cu, scopes, T, S)
           f == Frame(u)
           a == Expression(u)
           c == WriteBytes(WriteShort(a, CREATE_CLOSURE, n), pairs)
           d == WriteShort(c, CALL1, 0)
           e == WriteOpCode(d, POP)
<1>1. /\ Compiling(T) /\ ReadingOK(cu, scopes, todo) /\ Nested(cu, scopes, todo) /\ Count(cu)' < BYTE * BYTE
      /\ n <= Count(cu)
  BY DEF Compiles, Compiling
<1>2. cu \in UnitTypes /\ Count(cu) \in Nat /\ Good(cu, scopes, todo, T, O, Mark, jumps, ends) /\ Len(cu.localVars) \in Nat
  BY <1>1, CompilingFacts
<1>3. n \in Nat
  BY <1>2, UnitFacts
<1>4. Simple(e) /\ jumps' = jumps /\ -1 \notin S
  BY DEF CallWithBlock, Captured
<1>5. S \subseteq 0..Len(cu.localVars) - 1
  <2>1. \A m \in ns : FindLocal(cu, m) \in -1..Len(cu.localVars) - 1
    BY <1>2, FindLocalIs
  <2>2. \A x \in S : x \in -1..Len(cu.localVars) - 1 /\ x # -1
    BY <1>4, <2>1
  <2> HIDE DEF S
  <2> QED
    BY <1>2, <2>2
<1> HIDE DEF S
<1>6. IsFiniteSet(S) /\ S \subseteq Bytes
  <2>1. IsFiniteSet(0..Len(cu.localVars) - 1)
    BY <1>2, FS_Interval
  <2>2. BYTE \in Nat
    BY ByteFacts
  <2>3. 0..Len(cu.localVars) - 1 \subseteq Bytes
    BY <1>2, <2>2 DEF Bytes
  <2> QED
    BY <1>5, <2>1, <2>3, FS_Subset
<1>7. z \in Nat /\ pairs \in Seq(Bytes) /\ Len(pairs) = 2 * z /\ \A i \in 1..z : pairs[2 * i] \in S
  BY <1>6, PairsAre
<1>8. Capturing(cu, scopes, todo, T, O, Mark, jumps, ends, S)
  BY <1>1, <1>2, <1>5, <1>7 DEF Capturing
<1>9. /\ u \in UnitTypes /\ u.loops = cu.loops /\ Count(u) = Count(cu) /\ u.upvalueNums = Append(cu.upvalueNums, z)
      /\ Len(u.upvalueNums) = n + 1 /\ Held(u) = Held(cu) \union S
  BY <1>8, CapturedCode
<1>10. Good(u, scopes, todo, V, O, Mark, jumps, ends)
  BY <1>8, GoodCaptured
<1>11. ReadingOK(u, scopes, todo)
  BY <1>1, <1>7, CapturedReads
<1> HIDE DEF z, pairs, u, V, a, c, d, e
<1>12. Nested(u, scopes, todo)
  BY <1>1, <1>9, NestedSame
<1>13. Wrt(u, V, u, V, O, f, 0)
  <2>1. Sound(u, V, O) /\ V[Count(u)] = f
    BY <1>10 DEF Good
  <2>2. SameBut(u, u)
    BY <1>9 DEF SameBut
  <2> QED
    BY <2>1, <2>2, AboveSelf DEF Wrt
<1>14. PICK A : Wrt(u, V, a, A, O, f, 0 + 1) /\ Count(a) = Count(u) + 3
  BY <1>13, WrtExpression DEF a
<1>15. /\ a.upvalueNums = u.upvalueNums /\ n + 1 \in 1..Len(a.upvalueNums) /\ z = a.upvalueNums[n + 1]
  <2>1. a.upvalueNums = u.upvalueNums
    BY <1>14 DEF Wrt, SameBut
  <2>2. u.upvalueNums[n + 1] = z
    <3>1. cu.upvalueNums \in Seq(Nat)
      BY <1>2, UnitFacts
    <3> QED
      BY <1>7, <1>9, <3>1, AppendProperties
  <2> QED
    BY <1>3, <1>9, <2>1, <2>2
<1>16. f.c = Held(u)
  BY <1>9, FrameIs
<1>17. Count(cu)' = Count(e)
  BY <1>4 DEF Simple, Count
<1>18. /\ c \in UnitTypes /\ d \in UnitTypes /\ Count(d) = Count(c) + 3 /\ Count(e) = Count(d) + 1 /\ Count(c) = (Count(cu) + 6) + 2 * z
  <2>1. a \in UnitTypes
    BY <1>14 DEF Wrt, SameBut
  <2>2. CREATE_CLOSURE \in Opcodes /\ CALL1 \in Opcodes /\ POP \in Opcodes /\ n \in Int /\ 0 \in Int
    BY <1>3, OpcodeTypes
  <2>3. PICK g : g = WriteShort(a, CREATE_CLOSURE, n)
    OBVIOUS
  <2>4. g \in UnitTypes /\ Count(g) = Count(a) + 3
    BY <2>1, <2>2, <2>3, CountsAre
  <2>5. pairs \in Seq(Int)
    BY <1>7, BytesInt
  <2>6. c \in UnitTypes /\ Count(c) = Count(g) + Len(pairs)
    BY <2>3, <2>4, <2>5, CountsAre DEF c
  <2>7. d \in UnitTypes /\ Count(d) = Count(c) + 3
    BY <2>2, <2>6, CountsAre DEF d
  <2>8. Count(e) = Count(d) + 1
    BY <2>2, <2>7, CountsAre DEF e
  <2>9. Count(c) = (Count(cu) + 6) + 2 * z
    <3>1. \A p, q \in Int : ((p + 3) + 3) + q = (p + 6) + q
      OBVIOUS
    <3> QED
      BY <1>2, <1>7, <1>9, <1>14, <2>4, <2>6, <3>1
  <2> QED
    BY <2>6, <2>7, <2>8, <2>9
<1>19. n < BYTE * BYTE
  <2>1. Count(e) < BYTE * BYTE /\ Count(e) = ((Count(cu) + 6) + 2 * z) + 4 /\ BYTE \in Nat
    <3>1. Count(e) < BYTE * BYTE
      BY <1>1, <1>17
    <3>2. \A p \in Int : (p + 3) + 1 = p + 4
      OBVIOUS
    <3>3. (Count(cu) + 6) + 2 * z \in Int
      BY <1>2, <1>7
    <3>4. Count(e) = ((Count(cu) + 6) + 2 * z) + 4
      BY <1>18, <3>2, <3>3
    <3> QED
      BY <3>1, <3>4, ByteFacts
  <2>2. PICK b \in Nat : b = BYTE * BYTE
    BY <2>1
  <2>3. PICK p \in Nat : p = Count(cu)
    BY <1>2
  <2>4. ((p + 6) + 2 * z) + 4 < b /\ n <= p
    BY <1>1, <2>1, <2>2, <2>3
  <2>5. n < b
    BY <1>3, <1>7, <2>4
  <2> QED
    BY <2>2, <2>5
<1>20. PICK C : Wrt(u, V, c, C, O, f, (0 + 1) + 1)
  <2>1. \A i \in 1..z : pairs[2 * i] \in f.c
    BY <1>7, <1>9, <1>16
  <2>2. PICK k : k = 0 + 1
    OBVIOUS
  <2> HIDE DEF f, O, n
  <2>3. \E C : Wrt(u, V, c, C, O, f, k + 1)
    BY <1>3, <1>7, <1>14, <1>15, <1>19, <2>1, <2>2, ClosureAbove DEF c
  <2> QED
    BY <2>2, <2>3
<1>21. (0 + 1) + 1 = 2 /\ 2 + SlotsUsed(CALL1) = 1 /\ 1 + SlotsUsed(POP) = 0 /\ 0 \in Int
  BY SlotsUsedIs
<1>22. PICK D : Wrt(u, V, d, D, O, f, 1)
  <2>1. Wrt(u, V, c, C, O, f, 2)
    BY <1>20, <1>21
  <2> QED
    BY <1>21, <2>1, WrtShort DEF d
<1>23. PICK U : Wrt(u, V, e, U, O, f, 0)
  BY <1>21, <1>22, WrtOpCode DEF e
<1>24. Good(e, scopes, todo, U, O, Mark, jumps, ends) /\ Count(e) \in Nat
  BY <1>10, <1>11, <1>12, <1>23, GoodWrites
<1>25. e.loops = cu.loops /\ Len(e.upvalueNums) <= Count(e)
  <2>1. e.loops = u.loops /\ e.upvalueNums = u.upvalueNums
    BY <1>23 DEF Wrt, SameBut
  <2>2. n + 1 <= ((Count(cu) + 6) + 2 * z) + 4 /\ Count(e) = ((Count(cu) + 6) + 2 * z) + 4
    BY <1>1, <1>2, <1>3, <1>7, <1>18
  <2> QED
    BY <1>9, <2>1, <2>2
<1> QED
  BY <1>4, <1>24, <1>25, SimpleIsDone

-----------------------------------------------------------------------------
(***************************************************************************)
(* The statements with a body begin.                                       *)
(***************************************************************************)
\* A statement begins that opens a block.
Opening(T, code, kind, at, locals, w, tt, b) ==
  /\ Compiles(T) /\ ReadingOK(cu', scopes', todo') /\ kind \in Kinds /\ at \in Int /\ locals \in Blocks
  /\ Enter(code, kind, at, locals)
  /\ w = EnterScope(code) /\ tt = scopes \o locals \o <<<<>>>> /\ b = [kind |-> kind, at |-> at, outer |-> Len(scopes)]

LEMMA OpeningFacts ==
  ASSUME NEW T, NEW code, NEW kind, NEW at, NEW locals, NEW w, NEW tt, NEW b, Opening(T, code, kind, at, locals, w, tt, b)
  PROVE  /\ cu' = w /\ scopes' = tt /\ todo' = Append(todo, b) /\ marks' = Mark /\ jumps' = jumps /\ ends' = ends
         /\ ip' = ip /\ depth' = depth /\ open' = open
         /\ b \in TodoTypes /\ b.kind = kind /\ b.at = at /\ b.outer = Len(scopes) /\ Len(scopes) \in Nat
         /\ ScopesOK(w, tt) /\ tt \in Blocks /\ Len(tt) = Len(scopes) + Levels(kind)
         /\ \A i \in 1..Len(scopes) : tt[i] = scopes[i]
         /\ SameBases(cu, todo, scopes, tt) /\ UpTo(tt, Len(scopes)) = Len(cu.localVars)
         /\ \A j \in 1..Len(cu.loops) : Base(scopes, cu.loops[j]) <= Len(cu.localVars)
<1>1. Compiling(T) /\ ReadingOK(cu, scopes, todo) /\ Nested(cu, scopes, todo)
  BY DEF Opening, Compiles, Compiling
<1>2. scopes \in Blocks /\ Len(scopes) \in Nat /\ ScopesOK(cu, scopes) /\ todo \in Seq(TodoTypes)
  BY <1>1, ScopesFacts DEF ReadingOK
<1>3. /\ cu' = w /\ scopes' = tt /\ todo' = Append(todo, b) /\ marks' = Mark /\ jumps' = jumps /\ ends' = ends
      /\ ip' = ip /\ depth' = depth /\ open' = open
  BY DEF Opening, Enter, Begin, machine
<1>4. b \in TodoTypes /\ b.kind = kind /\ b.at = at /\ b.outer = Len(scopes)
  BY <1>2 DEF Opening, TodoTypes
<1>5. ReadingOK(w, tt, Append(todo, b))
  BY <1>3 DEF Opening
<1>6. ScopesOK(w, tt) /\ tt \in Blocks /\ NestOK(Append(todo, b), w.isModule, Len(tt))
  BY <1>5 DEF ReadingOK, ScopesOK
<1>7. Len(tt) = Len(scopes) + Levels(kind)
  <2>1. /\ Len(Append(todo, b)) = Len(todo) + 1 /\ Append(todo, b)[Len(todo) + 1] = b /\ Len(todo) \in Nat
    BY <1>2, <1>4, AppendProperties
  <2>2. Len(todo) + 1 \in 1..Len(Append(todo, b))
    BY <2>1
  <2> QED
    BY <1>4, <1>6, <2>1, <2>2 DEF NestOK
<1>8. \A i \in 1..Len(scopes) : tt[i] = scopes[i]
  <2>1. scopes \in Seq(Seq(Names)) /\ locals \in Seq(Seq(Names)) /\ <<<<>>>> \in Seq(Seq(Names))
    BY <1>2, EmptySeq DEF Opening, Blocks
  <2>2. \A A : \A x, y, z \in Seq(A) : \A i \in 1..Len(x) : (x \o y \o z)[i] = x[i]
    OBVIOUS
  <2>3. \A i \in 1..Len(scopes) : (scopes \o locals \o <<<<>>>>)[i] = scopes[i]
    BY <2>1, <2>2
  <2> QED
    BY <2>3 DEF Opening
<1>9. /\ SameBases(cu, todo, scopes, tt)
      /\ \A j \in 1..Len(cu.loops) : Base(scopes, cu.loops[j]) <= Len(cu.localVars)
  <2>1. Levels(kind) \in Nat
    BY DEF Levels
  <2>2. Len(scopes) - 1 <= Len(tt)
    BY <1>2, <1>7, <2>1
  <2>3. \A i \in 1..Len(scopes) - 1 : scopes[i] = tt[i]
    BY <1>2, <1>8
  <2> QED
    BY <1>1, <1>6, <2>2, <2>3, NestedBases
<1>10. UpTo(tt, Len(scopes)) = Len(cu.localVars)
  <2>1. Levels(kind) \in Nat
    BY DEF Levels
  <2>2. Len(scopes) <= Len(tt) /\ Len(scopes) \in 0..Len(scopes)
    BY <1>2, <1>7, <2>1
  <2>3. UpTo(scopes, Len(scopes)) = UpTo(tt, Len(scopes))
    BY <1>2, <1>6, <1>8, <2>2, UpToSame
  <2> QED
    BY <1>2, <2>3, ScopesFacts
<1> QED
  BY <1>2, <1>3, <1>4, <1>6, <1>7, <1>8, <1>9, <1>10

LEMMA OpeningCompiles ==
  ASSUME NEW T, NEW code, NEW kind, NEW at, NEW locals, NEW w, NEW tt, NEW b, Opening(T, code, kind, at, locals, w, tt, b),
         NEW U, Good(w, tt, Append(todo, b), U, Waiting(w, Append(todo, b)), Mark, jumps, ends),
         Nested(w, tt, Append(todo, b)), Len(w.upvalueNums) <= Count(w)
  PROVE  Compiling(U)'
<1>1. ip = 0 /\ depth = 0 /\ open = {}
  BY DEF Opening, Compiles, Compiling
<1>2. /\ cu' = w /\ scopes' = tt /\ todo' = Append(todo, b) /\ marks' = Mark /\ jumps' = jumps /\ ends' = ends
      /\ ip' = ip /\ depth' = depth /\ open' = open
  BY OpeningFacts
<1>3. Good(cu', scopes', todo', U, Waiting(cu', todo'), marks', jumps', ends')
  BY <1>2
<1> QED
  BY <1>1, <1>2, <1>3 DEF Compiling

\* Entering a block writes no code.
LEMMA EnterScopeSame ==
  ASSUME NEW u \in UnitTypes
  PROVE  LET w == EnterScope(u)
         IN  /\ w \in UnitTypes /\ w.code = u.code /\ w.localVars = u.localVars /\ w.loops = u.loops /\ w.upvalueNums = u.upvalueNums
             /\ w.isModule = u.isModule /\ w.stackSlotNum = u.stackSlotNum /\ w.maxSlots = u.maxSlots
             /\ w.scopeDepth = u.scopeDepth + 1
<1>1. EnterScope(u) = [u EXCEPT !.scopeDepth = u.scopeDepth + 1]
  BY DEF EnterScope
<1>2. PICK d \in Int : d = u.scopeDepth + 1
  BY UnitFacts
<1>3. EnterScope(u) = [u EXCEPT !.scopeDepth = d]
  BY <1>1, <1>2
<1> QED
  BY <1>2, <1>3 DEF UnitTypes

\* What has been written before the block leaves the stack as it was.
LEMMA OpeningGood ==
  ASSUME NEW T, NEW code, NEW kind, NEW at, NEW locals, NEW w, NEW tt, NEW b, Opening(T, code, kind, at, locals, w, tt, b),
         NEW U, NEW Q, Wrt(cu, T, code, U, Q, Frame(cu), 0)
  PROVE  /\ Good(w, tt, todo, U, Q, Mark, jumps, ends) /\ w \in UnitTypes
         /\ Count(w) = Count(code) /\ Held(w) = Held(cu) /\ w.loops = cu.loops /\ w.upvalueNums = cu.upvalueNums
         /\ \A a : ByteAt(w, a) = ByteAt(code, a)
         /\ Len(w.upvalueNums) <= Count(w)
<1>1. Compiling(T) /\ ReadingOK(cu, scopes, todo)
  BY DEF Opening, Compiles
<1>2. /\ cu \in UnitTypes /\ Count(cu) \in Nat /\ Frame(cu) \in Stacks /\ Frame(cu).d = Len(cu.localVars) /\ Len(cu.localVars) \in Nat
      /\ Good(cu, scopes, todo, T, Waiting(cu, todo), Mark, jumps, ends)
  BY <1>1, CompilingFacts
<1>3. /\ code.loops = cu.loops /\ code.upvalueNums = cu.upvalueNums /\ code.isModule = cu.isModule /\ code.localVars = cu.localVars
      /\ code \in UnitTypes /\ Above(cu, T, code, U, Q, Frame(cu), 0) /\ Count(code) \in Nat /\ Count(cu) <= Count(code)
  BY WrtFacts DEF SameBut
<1>4. /\ w \in UnitTypes /\ w.code = code.code /\ w.localVars = code.localVars /\ w.loops = code.loops
      /\ w.upvalueNums = code.upvalueNums
      /\ w.isModule = code.isModule /\ w.stackSlotNum = code.stackSlotNum /\ w.maxSlots = code.maxSlots
  BY <1>3, EnterScopeSame DEF Opening
<1>5. Above(cu, T, w, U, Q, Frame(cu), 0)
  BY <1>3, <1>4, AboveSame
<1>6. Sound(w, U, Q) /\ Grew(cu, T, w, U, Len(cu.localVars)) /\ U[Count(w)] = Frame(cu)
  <2>1. U[Count(w)] = On(Frame(cu), 0)
    BY <1>5 DEF Above
  <2> QED
    BY <1>2, <1>5, <2>1, OnIs DEF Above
<1>7. Frame(w) = Frame(cu) /\ Alike(cu, w) /\ Held(w) = Held(cu)
  BY <1>3, <1>4 DEF Frame, Held, Alike
<1>8. ScopesOK(w, tt) /\ SameBases(cu, todo, scopes, tt) /\ \A j \in 1..Len(cu.loops) : Base(scopes, cu.loops[j]) <= Len(cu.localVars)
  BY OpeningFacts
<1>9. Appends(cu, scopes, todo, T, w, tt, U, Q, Len(cu.localVars))
  BY <1>2, <1>3, <1>4, <1>6, <1>7, <1>8 DEF Appends
<1>10. Good(w, tt, todo, U, Q, Mark, jumps, ends)
  BY <1>2, <1>9, GoodAppends
<1>11. Count(w) = Count(code) /\ \A a : ByteAt(w, a) = ByteAt(code, a)
  BY <1>4 DEF Count, ByteAt
<1>12. Len(w.upvalueNums) <= Count(w)
  <2>1. Len(cu.upvalueNums) \in Nat /\ Len(cu.upvalueNums) <= Count(cu)
    BY <1>1, <1>2, UnitFacts DEF Compiling
  <2> QED
    BY <1>2, <1>3, <1>4, <1>11, <2>1
<1> QED
  BY <1>3, <1>4, <1>7, <1>10, <1>11, <1>12

LEMMA NoIfBegins ==
  ASSUME NEW t \in Seq(TodoTypes), NEW b, b.kind \notin IfKinds
  PROVE  Ifs(Append(t, b)) = Ifs(t) /\ \A i \in Ifs(t) : Append(t, b)[i] = t[i]
<1>1. \A c : /\ Ifs(Append(t, c)) = Ifs(t) \union (IF c.kind \in IfKinds THEN {Len(t) + 1} ELSE {})
             /\ \A i \in Ifs(t) : Append(t, c)[i] = t[i] /\ i # Len(t) + 1
             /\ Append(t, c)[Len(t) + 1] = c
  BY IfsAre
<1>2. /\ Ifs(Append(t, b)) = Ifs(t) \union (IF b.kind \in IfKinds THEN {Len(t) + 1} ELSE {})
      /\ \A i \in Ifs(t) : Append(t, b)[i] = t[i]
  BY <1>1, Zenon
<1> QED
  BY <1>2

LEMMA BlockCompiles ==
  ASSUME NEW T, Compiles(T), Block
  PROVE  \E U : Compiling(U)'
<1> DEFINE w == EnterScope(cu)
           tt == scopes \o <<>> \o <<<<>>>>
           b == [kind |-> "block", at |-> 0, outer |-> Len(scopes)]
           O == Waiting(cu, todo)
<1>1. Compiling(T) /\ ReadingOK(cu, scopes, todo) /\ Nested(cu, scopes, todo)
  BY DEF Compiles, Compiling
<1>2. "block" \in Kinds /\ "block" \notin LoopKinds /\ "block" \notin IfKinds /\ 0 \in Int /\ <<>> \in Blocks
  BY EmptySeq DEF Kinds, LoopKinds, IfKinds, Blocks
<1>3. ReadingOK(cu', scopes', todo')
  BY <1>1, BlockReads
<1>4. Opening(T, cu, "block", 0, <<>>, w, tt, b)
  BY <1>2, <1>3 DEF Opening, Block
<1> HIDE DEF w, tt, b
<1>5. cu \in UnitTypes /\ scopes \in Blocks /\ todo \in Seq(TodoTypes)
  BY <1>1 DEF ReadingOK, ScopesOK
<1>6. Wrt(cu, T, cu, T, O, Frame(cu), 0)
  BY <1>1, WrtSelf
<1>7. Good(w, tt, todo, T, O, Mark, jumps, ends) /\ w.loops = cu.loops /\ Len(w.upvalueNums) <= Count(w)
  BY <1>4, <1>6, OpeningGood
<1>8. b \in TodoTypes /\ b.kind = "block" /\ b.outer = Len(scopes) /\ Len(tt) = Len(scopes) + Levels(b.kind)
  BY <1>4, OpeningFacts
<1>9. Nested(w, tt, Append(todo, b))
  BY <1>1, <1>2, <1>5, <1>7, <1>8, NestedEnter
<1>10. Ifs(Append(todo, b)) = Ifs(todo) /\ \A i \in Ifs(todo) : Append(todo, b)[i] = todo[i]
  BY <1>2, <1>5, <1>8, NoIfBegins
<1>11. Good(w, tt, Append(todo, b), T, O, Mark, jumps, ends) /\ Waiting(w, Append(todo, b)) = Waiting(w, todo)
  BY <1>7, <1>10, GoodTodo
<1>12. Waiting(w, todo) = O
  BY <1>7, WaitingSame
<1> QED
  BY <1>4, <1>7, <1>9, <1>11, <1>12, OpeningCompiles

\* The jump over the true branch is waiting for its end.
LEMMA IfCompiles ==
  ASSUME NEW T, Compiles(T), If
  PROVE  \E U : Compiling(U)'
<1> DEFINE x == Expression(cu)
           test == EmitInstrWithPlaceholder(x, JUMP_IF_FALSE)
           at == Placeholder(test)
           w == EnterScope(test)
           tt == scopes \o <<>> \o <<<<>>>>
           b == [kind |-> "then", at |-> at, outer |-> Len(scopes)]
           O == Waiting(cu, todo)
           f == Frame(cu)
           q == Count(x)
<1>1. Compiling(T) /\ ReadingOK(cu, scopes, todo) /\ Nested(cu, scopes, todo)
  BY DEF Compiles, Compiling
<1>2. "then" \in Kinds /\ "then" \notin LoopKinds /\ "then" \in IfKinds /\ <<>> \in Blocks /\ JUMP_IF_FALSE \in Branching
  BY EmptySeq DEF Kinds, LoopKinds, IfKinds, Blocks, Branching
<1>3. ReadingOK(cu', scopes', todo')
  BY <1>1, IfReads
<1>4. Enter(test, "then", at, <<>>)
  BY DEF If
<1>5. /\ cu \in UnitTypes /\ scopes \in Blocks /\ todo \in Seq(TodoTypes) /\ Count(cu) \in Nat
      /\ f \in Stacks /\ f.d = Len(cu.localVars) /\ f.c = Held(cu) /\ Len(cu.localVars) \in Nat
  BY <1>1, CompilingFacts
<1>6. Wrt(cu, T, cu, T, O, f, 0)
  BY <1>1, WrtSelf
<1>7. PICK X : Wrt(cu, T, x, X, O, f, 0 + 1) /\ Count(x) = Count(cu) + 3
  BY <1>6, WrtExpression
<1> HIDE DEF x
<1>8. /\ \E U : /\ Wrt(cu, T, test, U, O \union {q}, f, 0)
                /\ Opened(cu, test, U, q, f, 0)
      /\ at = q + 1
  BY <1>2, <1>7, WrtBranch
<1>9. PICK U : Wrt(cu, T, test, U, O \union {q}, f, 0) /\ Opened(cu, test, U, q, f, 0)
  BY <1>8
<1>10. at \in Int /\ at - 1 = q
  BY <1>5, <1>7, <1>8
<1>11. Opening(T, test, "then", at, <<>>, w, tt, b)
  BY <1>2, <1>3, <1>4, <1>10, Zenon DEF Opening
<1> HIDE DEF w, tt, b, at, test
<1>12. /\ Good(w, tt, todo, U, O \union {q}, Mark, jumps, ends) /\ w \in UnitTypes
       /\ Count(w) = Count(test) /\ Held(w) = Held(cu) /\ w.loops = cu.loops
       /\ \A a : ByteAt(w, a) = ByteAt(test, a)
       /\ Len(w.upvalueNums) <= Count(w)
  BY <1>9, <1>11, OpeningGood
<1>13. /\ b \in TodoTypes /\ b.kind = "then" /\ b.at = at /\ b.outer = Len(scopes) /\ Len(tt) = Len(scopes) + Levels(b.kind)
       /\ UpTo(tt, Len(scopes)) = Len(cu.localVars)
  BY <1>11, OpeningFacts
<1>14. Nested(w, tt, Append(todo, b))
  BY <1>1, <1>2, <1>5, <1>12, <1>13, NestedEnter
<1>15. IfOK(w, U, b.at - 1, UpTo(tt, b.outer))
  <2>1. On(f, 0) = f
    BY <1>5, OnIs
  <2>2. /\ q \in DOMAIN U /\ q < Count(w) /\ ByteAt(w, q) \in Branching \union {JUMP}
        /\ Lands(ByteAt(w, q), U[q]) = f
    BY <1>9, <1>12, <2>1 DEF Opened
  <2>3. Lands(ByteAt(w, q), U[q]).c = U[q].c
    BY DEF Lands
  <2>4. \A s \in U[q].c : s \in Held(w) /\ s < Len(cu.localVars)
    <3>1. \A s \in f.c : s < f.d
      BY <1>5, OnIs
    <3> QED
      BY <1>5, <1>12, <2>2, <2>3, <3>1
  <2>5. Pending(w, U, q, Len(cu.localVars))
    BY <1>5, <2>2, <2>4 DEF Pending
  <2> QED
    BY <1>10, <1>13, <2>2, <2>5 DEF IfOK
<1>16. b.at - 1 \notin DOMAIN jumps
  <2>1. JumpsOK(cu, todo, T, jumps, ends)
    BY <1>1 DEF Compiling, Good
  <2>2. \A a \in DOMAIN jumps : a < Count(cu)
    BY <2>1 DEF JumpsOK, JumpOK
  <2>3. ~(q < Count(cu))
    BY <1>5, <1>7
  <2> QED
    BY <1>10, <1>13, <2>2, <2>3
<1>17. /\ Good(w, tt, Append(todo, b), U, O \union {q}, Mark, jumps, ends)
       /\ Waiting(w, Append(todo, b)) = Waiting(w, todo) \union {b.at - 1}
  <2>1. Good(w, tt, todo, U, O \union {q}, Mark, jumps, ends) /\ todo \in Seq(TodoTypes) /\ b.kind \in IfKinds
    BY <1>2, <1>5, <1>12, <1>13
  <2> HIDE DEF O, q
  <2> QED
    BY <1>15, <1>16, <2>1, GoodIf
<1>18. Waiting(w, todo) = O
  BY <1>12, WaitingSame
<1>19. Waiting(w, Append(todo, b)) = O \union {q}
  BY <1>10, <1>13, <1>17, <1>18
<1> QED
  BY <1>11, <1>12, <1>14, <1>17, <1>19, OpeningCompiles

\* A loop begins at the end of the code of u, and the body at the end of that of w.
Opens(u, ss, t, T, w, tt, U, Q, l) ==
  /\ Sound(w, U, Q) /\ Grew(u, T, w, U, Len(u.localVars)) /\ U[Count(w)] = Frame(w) /\ ScopesOK(w, tt) /\ SameBases(u, t, ss, tt)
  /\ w.loops = Append(u.loops, l) /\ l \in LoopTypes /\ w.upvalueNums = u.upvalueNums /\ w.isModule = u.isModule /\ Alike(u, w)
  /\ Len(u.localVars) <= Len(w.localVars)
  /\ \A j \in 1..Len(u.loops) : Base(ss, u.loops[j]) <= Len(u.localVars)
  /\ Start(l) = Count(u) /\ l.bodyStartIndex = Count(w) /\ Base(tt, l) = Len(u.localVars)

\* The test of the loop leaves it by the jump at address a.
Exits(u, w, U, a) ==
  /\ a \in DOMAIN U /\ a >= Count(u) /\ a < Count(w) /\ ByteAt(w, a) = JUMP_IF_FALSE
  /\ U[a].d = Len(u.localVars) + 1 /\ U[a].c \subseteq Held(u)

LEMMA LoopOpens ==
  ASSUME NEW u, NEW ss, NEW t, NEW T, NEW P, NEW mk, NEW jm, NEW en, Good(u, ss, t, T, P, mk, jm, en),
         NEW w, NEW tt, NEW U, NEW Q, NEW l, Opens(u, ss, t, T, w, tt, U, Q, l), Exits(u, w, U, l.exitIndex - 1)
  PROVE  Good(w, tt, t, U, Q, mk, jm, en) /\ Waiting(w, t) = Waiting(u, t) \union {l.exitIndex - 1}
<1> DEFINE v == [w EXCEPT !.loops = u.loops]
           N == Count(u)
           M == Count(w)
           m == Len(u.localVars)
           a == l.exitIndex - 1
<1>1. Sound(u, T, P) /\ T[N] = Frame(u) /\ Shape(u, ss, t, T) /\ JumpsOK(u, t, T, jm, en) /\ u \in UnitTypes /\ N \in Nat /\ m \in Nat
      /\ N \in DOMAIN T /\ DOMAIN T \subseteq 0..N
  <2>1. Sound(u, T, P) /\ T[N] = Frame(u) /\ Shape(u, ss, t, T) /\ JumpsOK(u, t, T, jm, en)
    BY DEF Good
  <2>2. u \in UnitTypes /\ N \in Nat /\ N \in DOMAIN T /\ DOMAIN T \subseteq 0..N
    BY <2>1, SoundFacts
  <2>3. m \in Nat
    BY <2>2, UnitFacts
  <2> QED
    BY <2>1, <2>2, <2>3
<1>2. /\ Frame(u).d = m /\ Frame(u).c = Held(u) /\ \A s \in Held(u) : s \in Nat /\ s < m
  <2>1. Frame(u) \in Stacks /\ Frame(u).d = m /\ Frame(u).c = Held(u)
    BY <1>1, FrameIs
  <2> QED
    BY <2>1, OnIs
<1>3. Sound(w, U, Q) /\ w \in UnitTypes /\ M \in Nat /\ Grew(u, T, w, U, m)
  BY SoundFacts DEF Opens
<1>4. u.loops \in Seq(LoopTypes) /\ w.loops \in Seq(LoopTypes) /\ Len(w.localVars) \in Nat
  BY <1>1, <1>3, UnitFacts
<1>5. /\ v \in UnitTypes /\ v.code = w.code /\ v.localVars = w.localVars /\ v.loops = u.loops /\ v.upvalueNums = w.upvalueNums
      /\ v.isModule = w.isModule /\ v.stackSlotNum = w.stackSlotNum /\ v.maxSlots = w.maxSlots /\ v.scopeDepth = w.scopeDepth
  BY <1>3, <1>4 DEF UnitTypes
<1> HIDE DEF v
<1>6. Sound(v, U, Q) /\ Count(v) = M /\ \A x : ByteAt(v, x) = ByteAt(w, x)
  <2>1. U[M].d <= w.stackSlotNum /\ w.stackSlotNum <= w.maxSlots
    BY <1>3 DEF Sound, RoomOK
  <2> QED
    BY <1>3, <1>5, <2>1, SoundSame
<1>7. Held(v) = Held(w) /\ Frame(v) = Frame(w)
  BY <1>5 DEF Held, Frame
<1>8. SameVariables(w, v) /\ SameVariables(v, w)
  BY <1>3, <1>5 DEF SameVariables
<1>9. ScopesOK(v, tt)
  BY <1>8, ScopesSameVariables DEF Opens
<1>10. Grew(u, T, v, U, m) /\ Alike(u, v)
  <2>1. Grew(u, T, v, U, m)
    BY <1>3, <1>5, <1>6 DEF Grew
  <2>2. Alike(u, v)
    BY <1>5, <1>7 DEF Opens, Alike
  <2> QED
    BY <2>1, <2>2
<1>11. Appends(u, ss, t, T, v, tt, U, Q, m)
  BY <1>1, <1>5, <1>6, <1>7, <1>9, <1>10 DEF Opens, Appends
<1>12. Good(v, tt, t, U, Q, mk, jm, en)
  BY <1>11, GoodAppends
<1>13. /\ N <= M /\ DOMAIN T \subseteq DOMAIN U /\ \A x \in DOMAIN T : U[x] = T[x]
       /\ \A x \in DOMAIN U : x \in DOMAIN T \/ (x > N /\ U[x].d >= m)
       /\ \A x \in DOMAIN U : x >= N /\ x < M => ByteAt(w, x) # LOOP /\ ByteAt(w, x) # END
       /\ M \in DOMAIN U /\ DOMAIN U \subseteq 0..M
  BY <1>3, SoundFacts DEF Grew
<1>14. a \in DOMAIN U /\ a >= N /\ a < M /\ ByteAt(w, a) = JUMP_IF_FALSE /\ U[a].d = m + 1 /\ U[a].c \subseteq Held(u)
  BY DEF Exits
<1>15. Start(l) = N /\ l.bodyStartIndex = M /\ Base(tt, l) = m /\ m <= Len(w.localVars) /\ l \in LoopTypes /\ l.exitIndex \in Int
  BY DEF Opens, LoopTypes
<1>16. \A s \in Nat : s < m => (s \in Held(u) <=> s \in Held(v))
  BY <1>1, <1>4, <1>7, <1>15 DEF Opens, Alike
<1>17. LoopOK(v, U, l, m)
  <2>1. N \in DOMAIN U /\ U[N].d = m /\ U[N].c = Held(u)
    BY <1>1, <1>2, <1>13
  <2>2. \A s \in Held(v) : s < m => s \in U[N].c
    <3>1. Held(v) \subseteq Nat
      BY <1>5, FrameIs
    <3> QED
      BY <1>16, <2>1, <3>1
  <2>3. Pending(v, U, a, m)
    <3>1. Lands(JUMP_IF_FALSE, U[a]).d = U[a].d - 1
      BY DEF Lands
    <3>2. Lands(ByteAt(v, a), U[a]).d = m
      BY <1>1, <1>6, <1>14, <3>1
    <3>3. \A s \in U[a].c : s \in Held(v) /\ s < m
      BY <1>2, <1>14, <1>16
    <3> QED
      BY <1>6, <1>14, <3>2, <3>3 DEF Pending
  <2>4. \A x \in DOMAIN U : x >= N => U[x].d >= m
    <3> SUFFICES ASSUME NEW x \in DOMAIN U, x >= N PROVE U[x].d >= m
      OBVIOUS
    <3>1. CASE x \in DOMAIN T
      <4>1. x = N
        BY <1>1, <3>1
      <4> QED
        BY <1>1, <2>1, <4>1
    <3>2. CASE x \notin DOMAIN T
      BY <1>13, <3>2
    <3> QED
      BY <3>1, <3>2
  <2>5. \A x \in DOMAIN U : ~(x >= N /\ x < M /\ ByteAt(v, x) = LOOP)
    BY <1>6, <1>13
  <2>6. N <= a /\ a < M /\ ByteAt(v, a) = JUMP_IF_FALSE
    BY <1>6, <1>13, <1>14
  <2> HIDE DEF a, N, M, m
  <2>7. l.exitIndex - 1 = a /\ Count(v) = M
    BY <1>6 DEF a
  <2> QED
    BY <1>13, <1>15, <2>1, <2>2, <2>3, <2>4, <2>5, <2>6, <2>7 DEF LoopOK
<1>18. NewLoop(v, tt, U, en, w, l)
  <2>1. \A j \in 1..Len(u.loops) : u.loops[j].bodyStartIndex <= N
    <3> SUFFICES ASSUME NEW j \in 1..Len(u.loops) PROVE u.loops[j].bodyStartIndex <= N
      OBVIOUS
    <3>1. u.loops[j].bodyStartIndex \in DOMAIN T
      BY <1>1 DEF Shape, LoopOK
    <3> QED
      BY <1>1, <3>1
  <2>2. \A x \in DOMAIN U : x < M /\ ByteAt(v, x) = END => x < N
    <3> SUFFICES ASSUME NEW x \in DOMAIN U, x < M, ByteAt(v, x) = END PROVE x < N
      OBVIOUS
    <3>1. ~(x >= N)
      BY <1>6, <1>13
    <3>2. x \in Nat
      BY <1>3, SoundFacts
    <3> QED
      BY <1>1, <3>1, <3>2
  <2>3. N \notin DOMAIN en
    <3>1. \A x \in DOMAIN en : x \in Int /\ x < N
      BY <1>1 DEF JumpsOK
    <3> QED
      BY <1>1, <3>1
  <2>4. w.loops = Append(v.loops, l)
    BY <1>5 DEF Opens
  <2> HIDE DEF N, M, m
  <2> QED
    BY <1>4, <1>5, <1>6, <1>8, <1>15, <1>17, <2>1, <2>2, <2>3, <2>4 DEF NewLoop
<1>19. Good(w, tt, t, U, Q, mk, jm, en) /\ Waiting(w, t) = Waiting(v, t) \union {l.exitIndex - 1}
  BY <1>12, <1>18, GoodLoop
<1>20. Waiting(v, t) = Waiting(u, t)
  BY <1>5, WaitingSame
<1> QED
  BY <1>19, <1>20

-----------------------------------------------------------------------------
\* What is noted of the innermost loop.
LEMMA LoopNotes ==
  ASSUME NEW u \in UnitTypes, NEW L \in Seq(LoopTypes), NEW l \in LoopTypes, u.loops = Append(L, l)
  PROVE  /\ LET w == MarkExit(u)
                k == [l EXCEPT !.exitIndex = Placeholder(u)]
            IN  /\ SameVariables(u, w) /\ w.loops = Append(L, k) /\ w.code = u.code /\ w.stackSlotNum = u.stackSlotNum
                /\ w.maxSlots = u.maxSlots /\ k \in LoopTypes
         /\ LET w == BeginBody(u)
                k == [l EXCEPT !.bodyStartIndex = Count(u)]
            IN  /\ SameVariables(u, w) /\ w.loops = Append(L, k) /\ w.code = u.code /\ w.stackSlotNum = u.stackSlotNum
                /\ w.maxSlots = u.maxSlots /\ k \in LoopTypes
<1>1. Append(L, l) # <<>> /\ Front(Append(L, l)) = L /\ Last(Append(L, l)) = l
  <2>1. Append(L, l) \in Seq(LoopTypes) /\ Append(L, l) # <<>> /\ Len(Append(L, l)) = Len(L) + 1 /\ Len(L) \in Nat
        /\ Append(L, l)[Len(L) + 1] = l /\ \A i \in 1..Len(L) : Append(L, l)[i] = L[i]
    BY AppendProperties
  <2> DEFINE s == Append(L, l)
  <2> HIDE DEF s
  <2>2. /\ Last(s) = s[Len(s)] /\ Front(s) \in Seq(LoopTypes) /\ Len(Front(s)) = Len(s) - 1
        /\ \A i \in 1..Len(s) - 1 : Front(s)[i] = s[i]
    BY <2>1, LastIs DEF s
  <2>3. Len(s) = Len(L) + 1 /\ Len(s) - 1 = Len(L) /\ s[Len(L) + 1] = l
    BY <2>1 DEF s
  <2>4. Last(s) = l
    BY <2>2, <2>3
  <2>5. \A i \in 1..Len(L) : s[i] = L[i]
    BY <2>1 DEF s
  <2>6. Front(s) = L
    <3>1. Len(Front(s)) = Len(L) /\ \A i \in 1..Len(L) : Front(s)[i] = L[i]
      BY <2>2, <2>3, <2>5
    <3> QED
      BY <2>2, <3>1, SeqEqual
  <2> QED
    BY <2>1, <2>4, <2>6 DEF s
<1>2. u.loops # <<>> /\ Front(u.loops) = L /\ Last(u.loops) = l
  BY <1>1
<1> QED
  BY <1>2, MarkExitIs, BeginBodyIs

LEMMA WhileCompiles ==
  ASSUME NEW T, Compiles(T), While
  PROVE  \E U : Compiling(U)'
<1> DEFINE c0 == EnterLoop(cu)
           l0 == [condStartIndex |-> Count(cu) - 1, bodyStartIndex |-> 0, scopeDepth |-> cu.scopeDepth, exitIndex |-> 0]
           x == Expression(c0)
           test == EmitInstrWithPlaceholder(x, JUMP_IF_FALSE)
           l1 == [l0 EXCEPT !.exitIndex = Placeholder(test)]
           c1 == MarkExit(test)
           l2 == [l1 EXCEPT !.bodyStartIndex = Count(c1)]
           code == BeginBody(c1)
           w == EnterScope(code)
           tt == scopes \o <<>> \o <<<<>>>>
           b == [kind |-> "while", at |-> Count(cu), outer |-> Len(scopes)]
           O == Waiting(cu, todo)
           f == Frame(cu)
           q == Count(x)
<1>1. Compiling(T) /\ ReadingOK(cu, scopes, todo) /\ Nested(cu, scopes, todo)
  BY DEF Compiles, Compiling
<1>2. "while" \in Kinds /\ "while" \in LoopKinds /\ "while" \notin IfKinds /\ <<>> \in Blocks /\ JUMP_IF_FALSE \in Branching
  BY EmptySeq DEF Kinds, LoopKinds, IfKinds, Blocks, Branching
<1>3. /\ cu \in UnitTypes /\ scopes \in Blocks /\ todo \in Seq(TodoTypes) /\ Count(cu) \in Nat /\ Sound(cu, T, O) /\ T[Count(cu)] = f
      /\ f \in Stacks /\ f.d = Len(cu.localVars) /\ f.c = Held(cu) /\ Len(cu.localVars) \in Nat /\ ScopesOK(cu, scopes)
      /\ Good(cu, scopes, todo, T, O, Mark, jumps, ends)
  BY <1>1, CompilingFacts
<1>4. Opening(T, code, "while", Count(cu), <<>>, w, tt, b)
  <2>1. ReadingOK(cu', scopes', todo')
    BY <1>1, WhileReads
  <2>2. Enter(code, "while", Count(cu), <<>>)
    BY DEF While
  <2>3. Count(cu) \in Int
    BY <1>3
  <2> QED
    BY <1>2, <2>1, <2>2, <2>3, Zenon DEF Opening
<1> HIDE DEF b, tt
<1>5. /\ l0 \in LoopTypes /\ SameVariables(cu, c0) /\ c0.loops = Append(cu.loops, l0)
      /\ c0.code = cu.code /\ c0.stackSlotNum = cu.stackSlotNum /\ c0.maxSlots = cu.maxSlots
  BY <1>3, EnterLoopIs
<1>6. l0.condStartIndex = Count(cu) - 1 /\ l0.scopeDepth = cu.scopeDepth
  OBVIOUS
<1> HIDE DEF c0, l0
<1>7. Wrt(c0, T, c0, T, O, f, 0) /\ c0 \in UnitTypes /\ Count(c0) = Count(cu)
  <2>1. T[Count(cu)].d <= cu.stackSlotNum /\ cu.stackSlotNum <= cu.maxSlots
    BY <1>3 DEF Sound, RoomOK
  <2>2. c0 \in UnitTypes /\ c0.upvalueNums = cu.upvalueNums
    BY <1>5 DEF SameVariables
  <2>3. Sound(c0, T, O) /\ Count(c0) = Count(cu)
    BY <1>3, <1>5, <2>1, <2>2, SoundSame
  <2>4. Above(c0, T, c0, T, O, f, 0)
    BY <1>3, <2>3, AboveSelf
  <2>5. SameBut(c0, c0)
    BY <2>2 DEF SameBut
  <2> QED
    BY <2>2, <2>3, <2>4, <2>5 DEF Wrt
<1>8. PICK X : Wrt(c0, T, x, X, O, f, 0 + 1) /\ Count(x) = Count(c0) + 3
  BY <1>7, WrtExpression
<1> HIDE DEF x
<1>9. /\ \E U : /\ Wrt(c0, T, test, U, O \union {q}, f, 0)
                /\ Opened(c0, test, U, q, f, 0)
      /\ Placeholder(test) = q + 1 /\ Count(test) = q + 3 /\ ByteAt(test, q) = JUMP_IF_FALSE
  BY <1>2, <1>8, WrtBranch
<1>10. PICK U : Wrt(c0, T, test, U, O \union {q}, f, 0) /\ Opened(c0, test, U, q, f, 0)
  BY <1>9
<1> HIDE DEF test
<1>11. /\ Above(c0, T, test, U, O \union {q}, f, 0) /\ SameBut(c0, test) /\ test \in UnitTypes /\ Sound(test, U, O \union {q})
       /\ U[Count(test)] = On(f, 0)
  BY <1>10, WrtFacts
<1>12. /\ SameVariables(test, c1) /\ c1.loops = Append(cu.loops, l1) /\ c1.code = test.code /\ c1.stackSlotNum = test.stackSlotNum
       /\ c1.maxSlots = test.maxSlots /\ l1 \in LoopTypes /\ c1 \in UnitTypes
  <2>1. test.loops = Append(cu.loops, l0) /\ cu.loops \in Seq(LoopTypes)
    BY <1>3, <1>5, <1>11, UnitFacts DEF SameBut
  <2>2. /\ SameVariables(test, c1) /\ c1.loops = Append(cu.loops, l1) /\ c1.code = test.code /\ c1.stackSlotNum = test.stackSlotNum
        /\ c1.maxSlots = test.maxSlots /\ l1 \in LoopTypes
    BY <1>5, <1>11, <2>1, LoopNotes
  <2> QED
    BY <2>2 DEF SameVariables
<1>13. l1.condStartIndex = Count(cu) - 1 /\ l1.scopeDepth = cu.scopeDepth /\ l1.exitIndex = q + 1
  BY <1>5, <1>6, <1>9 DEF LoopTypes
<1> HIDE DEF c1, l1
<1>14. /\ SameVariables(c1, code) /\ code.loops = Append(cu.loops, l2) /\ code.code = c1.code /\ code.stackSlotNum = c1.stackSlotNum
       /\ code.maxSlots = c1.maxSlots /\ l2 \in LoopTypes /\ code \in UnitTypes
  <2>1. cu.loops \in Seq(LoopTypes)
    BY <1>3, UnitFacts
  <2>2. /\ SameVariables(c1, code) /\ code.loops = Append(cu.loops, l2) /\ code.code = c1.code /\ code.stackSlotNum = c1.stackSlotNum
        /\ code.maxSlots = c1.maxSlots /\ l2 \in LoopTypes
    BY <1>12, <2>1, LoopNotes
  <2> QED
    BY <2>2 DEF SameVariables
<1>15. l2.condStartIndex = Count(cu) - 1 /\ l2.scopeDepth = cu.scopeDepth /\ l2.exitIndex = q + 1 /\ l2.bodyStartIndex = Count(test)
  BY <1>12, <1>13 DEF LoopTypes, Count
<1> HIDE DEF code, l2
<1>16. /\ w \in UnitTypes /\ w.code = test.code /\ w.localVars = cu.localVars /\ w.loops = Append(cu.loops, l2)
       /\ w.upvalueNums = cu.upvalueNums /\ w.isModule = cu.isModule
       /\ w.upvalueNums = test.upvalueNums /\ w.stackSlotNum = test.stackSlotNum /\ w.maxSlots = test.maxSlots
  <2>1. /\ w \in UnitTypes /\ w.code = code.code /\ w.localVars = code.localVars /\ w.loops = code.loops /\ w.upvalueNums = code.upvalueNums
        /\ w.isModule = code.isModule /\ w.stackSlotNum = code.stackSlotNum /\ w.maxSlots = code.maxSlots
    BY <1>14, EnterScopeSame
  <2> HIDE DEF w
  <2> QED
    BY <1>5, <1>11, <1>12, <1>14, <2>1 DEF SameVariables, SameBut
<1> HIDE DEF w
<1>17. Above(c0, T, w, U, O \union {q}, f, 0) /\ Count(w) = Count(test) /\ \A a : ByteAt(w, a) = ByteAt(test, a)
  BY <1>11, <1>16, AboveSame DEF Count, ByteAt
<1>18. Frame(w) = f /\ Held(w) = Held(cu) /\ Alike(cu, w)
  BY <1>16 DEF Frame, Held, Alike
<1>19. Sound(w, U, O \union {q}) /\ Grew(cu, T, w, U, Len(cu.localVars)) /\ U[Count(w)] = f
  <2>1. Sound(w, U, O \union {q}) /\ Grew(c0, T, w, U, Len(cu.localVars)) /\ U[Count(w)] = f
    BY <1>3, <1>11, <1>17, OnIs DEF Above
  <2>2. Grew(cu, T, w, U, Len(cu.localVars))
    BY <1>5, <1>7, <2>1 DEF Grew
  <2> QED
    BY <2>1, <2>2
<1>20. /\ ScopesOK(w, tt) /\ SameBases(cu, todo, scopes, tt) /\ UpTo(tt, Len(scopes)) = Len(cu.localVars)
       /\ \A j \in 1..Len(cu.loops) : Base(scopes, cu.loops[j]) <= Len(cu.localVars)
       /\ b \in TodoTypes /\ b.kind = "while" /\ b.at = Count(cu) /\ b.outer = Len(scopes) /\ Len(tt) = Len(scopes) + Levels(b.kind)
  BY <1>4, OpeningFacts
<1>21. Start(l2) = Count(cu) /\ Base(tt, l2) = Len(cu.localVars) /\ l2.scopeDepth + 1 = Len(scopes) /\ l2.exitIndex - 1 = q
  <2>1. Len(scopes) = cu.scopeDepth + 1 /\ q \in Nat /\ Count(cu) \in Nat
    BY <1>3, <1>7, <1>8 DEF ScopesOK
  <2>2. Start(l2) = (Count(cu) - 1) + 1
    BY <1>15 DEF Start
  <2> QED
    BY <1>15, <1>20, <2>1, <2>2 DEF Base
<1>22. Opens(cu, scopes, todo, T, w, tt, U, O \union {q}, l2)
  BY <1>3, <1>14, <1>15, <1>16, <1>17, <1>18, <1>19, <1>20, <1>21 DEF Opens
<1>23. Exits(cu, w, U, q)
  <2>1. /\ q \in DOMAIN U /\ q >= Count(cu) /\ q < Count(w) /\ ByteAt(w, q) = JUMP_IF_FALSE /\ Lands(JUMP_IF_FALSE, U[q]) = On(f, 0)
    BY <1>7, <1>9, <1>10, <1>17 DEF Opened
  <2>2. U[q].d = Len(cu.localVars) + 1 /\ U[q].c = Held(cu)
    <3>1. Lands(JUMP_IF_FALSE, U[q]).d = U[q].d - 1 /\ Lands(JUMP_IF_FALSE, U[q]).c = U[q].c
      BY DEF Lands
    <3>2. On(f, 0) = f /\ U[q].d \in Nat
      BY <1>3, <1>19, <2>1, OnIs, SoundFacts
    <3> QED
      BY <1>3, <2>1, <3>1, <3>2
  <2> QED
    BY <2>1, <2>2 DEF Exits
<1>24. Good(w, tt, todo, U, O \union {q}, Mark, jumps, ends) /\ Waiting(w, todo) = O \union {q}
  <2>1. Exits(cu, w, U, l2.exitIndex - 1)
    BY <1>21, <1>23
  <2>2. Good(w, tt, todo, U, O \union {q}, Mark, jumps, ends) /\ Waiting(w, todo) = Waiting(cu, todo) \union {l2.exitIndex - 1}
    BY <1>3, <1>22, <2>1, LoopOpens
  <2> QED
    BY <1>21, <2>2
<1>25. Nested(w, tt, Append(todo, b))
  <2>1. b.kind \in LoopKinds /\ b.at = Start(l2) /\ l2.scopeDepth + 1 = b.outer + (IF b.kind = "for" THEN 1 ELSE 0)
    <3>1. b.kind # "for" /\ Len(scopes) \in Nat
      BY <1>3, <1>20 DEF Blocks
    <3> QED
      BY <1>2, <1>20, <1>21, <3>1
  <2> QED
    BY <1>1, <1>3, <1>16, <1>20, <2>1, NestedEnterLoop
<1>26. Ifs(Append(todo, b)) = Ifs(todo) /\ \A i \in Ifs(todo) : Append(todo, b)[i] = todo[i]
  BY <1>2, <1>3, <1>20, NoIfBegins
<1>27. Good(w, tt, Append(todo, b), U, O \union {q}, Mark, jumps, ends) /\ Waiting(w, Append(todo, b)) = Waiting(w, todo)
  BY <1>24, <1>26, GoodTodo
<1>28. Len(w.upvalueNums) <= Count(w)
  <2>1. Len(cu.upvalueNums) \in Nat /\ Len(cu.upvalueNums) <= Count(cu)
    BY <1>1, <1>3, UnitFacts DEF Compiling
  <2> QED
    BY <1>3, <1>7, <1>8, <1>9, <1>16, <1>17, <2>1
<1> QED
  BY <1>4, <1>24, <1>25, <1>27, <1>28, OpeningCompiles DEF w

-----------------------------------------------------------------------------
\* A variable that is in the table is found there.
LEMMA FoundLocal ==
  ASSUME NEW u \in UnitTypes, NEW i \in 1..Len(u.localVars)
  PROVE  FindLocal(u, u.localVars[i].name) \in 0..Len(u.localVars) - 1
<1> DEFINE n == Len(u.localVars)
           found == {j \in DOMAIN u.localVars : u.localVars[j].name = u.localVars[i].name}
<1>1. u.localVars \in Seq(LocalTypes) /\ DOMAIN u.localVars = 1..n /\ n \in Nat
  BY UnitFacts
<1>2. found \subseteq 1..n /\ i \in found /\ found # {}
  BY <1>1
<1>3. FindLocal(u, u.localVars[i].name) = Max(found) - 1
  BY <1>2 DEF FindLocal
<1> HIDE DEF found
<1>4. Max(found) \in 1..n
  <2>1. found \subseteq 0..n
    BY <1>1, <1>2
  <2> QED
    BY <1>1, <1>2, <2>1, MaxIs
<1> QED
  BY <1>1, <1>3, <1>4

\* seq.iterate(iter) or seq.iteratorValue(iter): two variables are pushed, and one value is left.
LEMMA ForCallWrites ==
  ASSUME NEW o, NEW O, NEW u, NEW T, NEW P, NEW f, NEW k, Wrt(o, O, u, T, P, f, k), NEW s \in Bytes, NEW r \in Bytes
  PROVE  LET x == WriteBytes(WriteOpCode(u, LOAD_LOCAL_VAR), <<s>>)
             y == WriteBytes(WriteOpCode(x, LOAD_LOCAL_VAR), <<r>>)
             w == WriteShort(y, CALL1, 0)
         IN  /\ \E U : Wrt(o, O, w, U, P, f, k + 1) /\ Grew(u, T, w, U, f.d)
             /\ Count(w) = (Count(u) + 4) + 3
<1> DEFINE x0 == WriteOpCode(u, LOAD_LOCAL_VAR)
           x == WriteBytes(x0, <<s>>)
           y0 == WriteOpCode(x, LOAD_LOCAL_VAR)
           y == WriteBytes(y0, <<r>>)
           w == WriteShort(y, CALL1, 0)
<1>1. /\ Above(o, O, u, T, P, f, k) /\ SameBut(o, u) /\ u \in UnitTypes /\ k \in Nat /\ Sound(u, T, P) /\ f \in Stacks /\ Count(u) \in Nat
      /\ f.d \in Nat
  <2>1. /\ Above(o, O, u, T, P, f, k) /\ SameBut(o, u) /\ u \in UnitTypes /\ k \in Nat /\ Sound(u, T, P) /\ f \in Stacks /\ Count(u) \in Nat
    BY WrtFacts
  <2> QED
    BY <2>1, OnIs
<1>2. /\ SlotsUsed(LOAD_LOCAL_VAR) = 1 /\ SlotsUsed(CALL1) = -1 /\ LOAD_LOCAL_VAR \in Opcodes /\ CALL1 \in Opcodes
      /\ <<s>> \in Seq(Int) /\ <<r>> \in Seq(Int) /\ Len(<<s>>) = 1 /\ Len(<<r>>) = 1
  BY SlotsUsedIs, OpcodeTypes, BytesAre, BytesInt
<1>3. /\ x \in UnitTypes /\ SameBut(u, x) /\ Count(x) = Count(u) + 2
  <2>1. x0 \in UnitTypes /\ Count(x0) = Count(u) + 1 /\ SameBut(u, x0)
    BY <1>1, <1>2, CountsAre, WritersKeep
  <2> HIDE DEF x0
  <2>2. x \in UnitTypes /\ Count(x) = Count(x0) + 1 /\ SameBut(x0, x)
    BY <1>2, <2>1, CountsAre, WritersKeep
  <2> HIDE DEF x
  <2> QED
    BY <1>1, <2>1, <2>2, SameButTwice
<1>4. PICK X : Above(o, O, x, X, P, f, k + 1) /\ Grew(u, T, x, X, f.d)
  BY <1>1, <1>2, LocalAbove
<1> HIDE DEF x
<1>5. /\ y \in UnitTypes /\ SameBut(x, y) /\ Count(y) = Count(x) + 2
  <2>1. y0 \in UnitTypes /\ Count(y0) = Count(x) + 1 /\ SameBut(x, y0)
    BY <1>2, <1>3, CountsAre, WritersKeep
  <2> HIDE DEF y0
  <2>2. y \in UnitTypes /\ Count(y) = Count(y0) + 1 /\ SameBut(y0, y)
    BY <1>2, <2>1, CountsAre, WritersKeep
  <2> HIDE DEF y
  <2> QED
    BY <1>1, <1>3, <2>1, <2>2, SameButTwice
<1>6. PICK Y : Above(o, O, y, Y, P, f, (k + 1) + 1) /\ Grew(x, X, y, Y, f.d)
  BY <1>2, <1>4, LocalAbove
<1> HIDE DEF y
<1>7. (k + 1) + 1 + SlotsUsed(CALL1) = k + 1 /\ (k + 1) + 1 + SlotsUsed(CALL1) >= 0
  BY <1>1, <1>2
<1>8. PICK U : Above(o, O, w, U, P, f, k + 1) /\ Grew(y, Y, w, U, f.d)
  <2>1. \E U : Above(o, O, w, U, P, f, (k + 1) + 1 + SlotsUsed(CALL1)) /\ Grew(y, Y, w, U, f.d)
    BY <1>6, <1>7, WriteShortAbove
  <2> QED
    BY <1>7, <2>1
<1>9. w \in UnitTypes /\ Count(w) = Count(y) + 3 /\ SameBut(y, w)
  <2>1. 0 \in Int
    OBVIOUS
  <2> QED
    BY <1>2, <1>5, <2>1, CountsAre, WritersKeep
<1> HIDE DEF w
<1>10. Grew(u, T, w, U, f.d)
  <2>1. Sound(x, X, P) /\ Sound(y, Y, P) /\ Sound(w, U, P)
    BY <1>4, <1>6, <1>8 DEF Above
  <2>2. Count(x) \in Nat /\ f.d \in Int
    BY <1>1, <1>3
  <2>3. Grew(u, T, y, Y, f.d)
    BY <1>1, <1>4, <1>6, <2>1, <2>2, GrewTwice
  <2> QED
    BY <1>1, <1>8, <2>1, <2>2, <2>3, GrewTwice
<1>11. SameBut(o, w)
  BY <1>1, <1>3, <1>5, <1>9, SameButTwice
<1>12. Count(w) = (Count(u) + 4) + 3
  BY <1>1, <1>3, <1>5, <1>9
<1> QED
  BY <1>8, <1>10, <1>11, <1>12 DEF Wrt, w, y, x

\* The hidden variables of a for statement.
ForScopes == Append(scopes, Append(Append(<<>>, seqName), iterName))

\* compileForStatment() up to the loop: the two hidden variables have been declared.
LEMMA ForVariables ==
  ASSUME NEW T, Compiles(T), ~cu.isModule
  PROVE  LET seq == AddLocalVar(Expression(EnterScope(cu)), seqName)
             iter == AddLocalVar(WriteOpCode(seq, PUSH_NULL), iterName)
         IN  /\ \E X : Good(iter, ForScopes, todo, X, Waiting(cu, todo), Mark, jumps, ends)
             /\ iter \in UnitTypes /\ iter.loops = cu.loops /\ iter.upvalueNums = cu.upvalueNums /\ iter.isModule = cu.isModule
             /\ iter.scopeDepth = cu.scopeDepth + 1 /\ Count(iter) = Count(cu) + 4
             /\ Len(iter.localVars) = Len(cu.localVars) + 2
             /\ FindLocal(iter, seqName) \in 0..Len(iter.localVars) - 1 /\ FindLocal(iter, iterName) \in 0..Len(iter.localVars) - 1
             /\ SameBases(cu, todo, scopes, ForScopes) /\ ForScopes \in Blocks /\ Len(ForScopes) = Len(scopes) + 1
             /\ UpTo(ForScopes, Len(scopes)) = Len(cu.localVars)
<1> DEFINE c1 == EnterScope(cu)
           c2 == Expression(c1)
           seq == AddLocalVar(c2, seqName)
           c3 == WriteOpCode(seq, PUSH_NULL)
           iter == AddLocalVar(c3, iterName)
           one == Append(<<>>, seqName)
           two == Append(one, iterName)
           O == Waiting(cu, todo)
           f == Frame(cu)
<1>1. Compiling(T) /\ ReadingOK(cu, scopes, todo) /\ Nested(cu, scopes, todo)
  BY DEF Compiles, Compiling
<1>2. /\ cu \in UnitTypes /\ scopes \in Blocks /\ todo \in Seq(TodoTypes) /\ Count(cu) \in Nat /\ Sound(cu, T, O) /\ T[Count(cu)] = f
      /\ f \in Stacks /\ f.d = Len(cu.localVars) /\ f.c = Held(cu) /\ Len(cu.localVars) \in Nat /\ ScopesOK(cu, scopes)
      /\ Good(cu, scopes, todo, T, O, Mark, jumps, ends)
      /\ \A j \in 1..Len(cu.loops) : Base(scopes, cu.loops[j]) <= Len(cu.localVars)
  BY <1>1, CompilingFacts
<1>3. /\ <<>> \in Seq(Names) /\ one \in Seq(Names) /\ two \in Seq(Names) /\ seqName \in Names /\ iterName \in Names
      /\ Len(scopes) \in Nat /\ two = Append(one, iterName)
  BY <1>2, EmptySeq, AppendProperties DEF Names, Blocks
<1>4. ForScopes \in Blocks /\ Len(ForScopes) = Len(scopes) + 1 /\ \A i \in 1..Len(scopes) : ForScopes[i] = scopes[i]
  <2> HIDE DEF one, two
  <2>1. ForScopes = Append(scopes, two)
    BY DEF ForScopes, one, two
  <2> QED
    BY <1>2, <1>3, <2>1, UpToAppend
<1>5. /\ c1 \in UnitTypes /\ c1.code = cu.code /\ c1.localVars = cu.localVars /\ c1.loops = cu.loops /\ c1.upvalueNums = cu.upvalueNums
      /\ c1.isModule = cu.isModule /\ c1.stackSlotNum = cu.stackSlotNum /\ c1.maxSlots = cu.maxSlots
      /\ c1.scopeDepth = cu.scopeDepth + 1
  BY <1>2, EnterScopeSame
<1>6. ScopesOK(c1, Append(scopes, <<>>))
  BY <1>2, EnterScopeIs
<1> HIDE DEF c1
<1>7. Wrt(c1, T, c1, T, O, f, 0) /\ Count(c1) = Count(cu) /\ Frame(c1) = f
  <2>1. T[Count(cu)].d <= cu.stackSlotNum /\ cu.stackSlotNum <= cu.maxSlots
    BY <1>2 DEF Sound, RoomOK
  <2>2. Sound(c1, T, O) /\ Count(c1) = Count(cu)
    BY <1>2, <1>5, <2>1, SoundSame
  <2>3. Above(c1, T, c1, T, O, f, 0)
    BY <1>2, <2>2, AboveSelf
  <2>4. SameBut(c1, c1) /\ Frame(c1) = f
    BY <1>5 DEF SameBut, Frame, Held
  <2> QED
    BY <2>2, <2>3, <2>4 DEF Wrt
<1>8. PICK X2 : Wrt(c1, T, c2, X2, O, f, 0 + 1) /\ Count(c2) = Count(c1) + 3
  BY <1>7, WrtExpression
<1>9. Above(c1, T, c2, X2, O, f, 1) /\ SameBut(c1, c2) /\ c2 \in UnitTypes
  BY <1>8, WrtFacts
<1> HIDE DEF c2
<1>10. /\ seq \in UnitTypes /\ seq.code = c2.code /\ seq.loops = c2.loops /\ seq.upvalueNums = c2.upvalueNums /\ seq.isModule = c2.isModule
       /\ seq.stackSlotNum = c2.stackSlotNum /\ seq.maxSlots = c2.maxSlots /\ seq.scopeDepth = c2.scopeDepth
       /\ Len(seq.localVars) = Len(c2.localVars) + 1 /\ Held(seq) = Held(c2) /\ Frame(seq) = On(Frame(c2), 1)
       /\ seq.localVars[Len(seq.localVars)].name = seqName
  BY <1>3, <1>9, AddedVariable
<1>11. ScopesOK(seq, Append(scopes, one))
  <2>1. ScopesOK(c2, Append(scopes, <<>>)) /\ ~c2.isModule
    BY <1>5, <1>6, <1>9, ScopesSame DEF SameBut
  <2> QED
    BY <1>2, <1>3, <2>1, AddLocalVarIs
<1> HIDE DEF seq, one
<1>12. Above(c1, T, seq, X2, O, f, 1)
  BY <1>9, <1>10, AboveSame
<1>13. SameBut(seq, c3) /\ c3 \in UnitTypes /\ Count(c3) = Count(seq) + 1
  BY <1>10, WritersKeep, CountsAre, OpcodeTypes
<1>14. PICK X : Above(c1, T, c3, X, O, f, 2)
  <2>1. 1 + SlotsUsed(PUSH_NULL) = 2
    BY SlotsUsedIs
  <2> QED
    BY <1>12, <2>1, WriteOpCodeAbove
<1> HIDE DEF c3
<1>15. /\ iter \in UnitTypes /\ iter.code = c3.code /\ iter.loops = c3.loops /\ iter.upvalueNums = c3.upvalueNums
       /\ iter.isModule = c3.isModule
       /\ iter.stackSlotNum = c3.stackSlotNum /\ iter.maxSlots = c3.maxSlots /\ iter.scopeDepth = c3.scopeDepth
       /\ Len(iter.localVars) = Len(c3.localVars) + 1 /\ Held(iter) = Held(c3) /\ Frame(iter) = On(Frame(c3), 1)
       /\ iter.localVars[Len(iter.localVars)].name = iterName /\ \A i \in 1..Len(c3.localVars) : iter.localVars[i] = c3.localVars[i]
  BY <1>3, <1>13, AddedVariable
<1>16. ScopesOK(iter, ForScopes)
  <2>1. ScopesOK(c3, Append(scopes, one)) /\ ~c3.isModule
    BY <1>5, <1>9, <1>10, <1>11, <1>13, ScopesSame DEF SameBut
  <2>2. ScopesOK(iter, Append(scopes, Append(one, iterName)))
    BY <1>2, <1>3, <2>1, AddLocalVarIs
  <2> QED
    BY <2>2 DEF ForScopes, one
<1> HIDE DEF iter, two
<1>17. Above(c1, T, iter, X, O, f, 2)
  BY <1>14, <1>15, AboveSame
<1>18. /\ iter.loops = cu.loops /\ iter.upvalueNums = cu.upvalueNums /\ iter.isModule = cu.isModule
       /\ iter.scopeDepth = cu.scopeDepth + 1
  BY <1>5, <1>9, <1>10, <1>13, <1>15 DEF SameBut
<1>19. Count(iter) = Count(cu) + 4
  <2>1. Count(iter) = Count(c3) /\ Count(seq) = Count(c2)
    BY <1>10, <1>15 DEF Count
  <2> QED
    BY <1>2, <1>7, <1>8, <1>13, <2>1
<1>20. Held(iter) = Held(cu) /\ Frame(iter) = On(f, 2) /\ Alike(cu, iter)
  <2>1. Frame(c2) = Frame(c1) /\ Held(c2) = Held(c1) /\ Frame(c3) = Frame(seq) /\ Held(c3) = Held(seq) /\ Held(c1) = Held(cu)
    BY <1>5, <1>9, <1>13 DEF Frame, Held, SameBut
  <2>2. Held(iter) = Held(cu)
    BY <1>10, <1>15, <2>1
  <2>3. Frame(iter) = On(On(f, 1), 1)
    BY <1>7, <1>10, <1>15, <2>1
  <2>4. On(On(f, 1), 1) = On(f, 2)
    <3>1. (f.d + 1) + 1 = f.d + 2
      BY <1>2
    <3> QED
      BY <3>1 DEF On
  <2> QED
    BY <2>2, <2>3, <2>4 DEF Alike
<1>21. Len(iter.localVars) = Len(cu.localVars) + 2
  <2>1. Len(c2.localVars) = Len(cu.localVars) /\ Len(c3.localVars) = Len(seq.localVars)
    BY <1>5, <1>9, <1>13 DEF SameBut
  <2> QED
    BY <1>2, <1>10, <1>15, <2>1
<1>22. FindLocal(iter, seqName) \in 0..Len(iter.localVars) - 1 /\ FindLocal(iter, iterName) \in 0..Len(iter.localVars) - 1
  <2>1. PICK p \in Nat : p = Len(cu.localVars)
    BY <1>2
  <2>2. Len(iter.localVars) = p + 2 /\ p + 1 \in 1..p + 2 /\ p + 2 \in 1..p + 2
    BY <1>21, <2>1
  <2>3. Len(seq.localVars) = p + 1 /\ c3.localVars = seq.localVars /\ p + 1 \in 1..p + 1
    BY <1>5, <1>9, <1>10, <1>13, <2>1 DEF SameBut
  <2>4. iter.localVars[p + 1].name = seqName /\ iter.localVars[p + 2].name = iterName
    BY <1>10, <1>15, <2>2, <2>3
  <2>5. FindLocal(iter, iter.localVars[p + 1].name) \in 0..Len(iter.localVars) - 1
    BY <1>15, <2>2, FoundLocal
  <2>6. FindLocal(iter, iter.localVars[p + 2].name) \in 0..Len(iter.localVars) - 1
    BY <1>15, <2>2, FoundLocal
  <2> QED
    BY <2>4, <2>5, <2>6
<1>23. SameBases(cu, todo, scopes, ForScopes) /\ UpTo(ForScopes, Len(scopes)) = Len(cu.localVars)
  <2>1. Len(scopes) - 1 <= Len(ForScopes) /\ Len(scopes) <= Len(ForScopes) /\ Len(scopes) \in 0..Len(scopes)
    BY <1>3, <1>4
  <2>2. \A i \in 1..Len(scopes) - 1 : scopes[i] = ForScopes[i]
    BY <1>3, <1>4
  <2>3. SameBases(cu, todo, scopes, ForScopes)
    BY <1>1, <1>4, <2>1, <2>2, NestedBases
  <2>4. UpTo(scopes, Len(scopes)) = UpTo(ForScopes, Len(scopes))
    BY <1>2, <1>4, <2>1, UpToSame
  <2> QED
    BY <1>2, <2>3, <2>4, ScopesFacts
<1>24. Sound(iter, X, O) /\ Grew(cu, T, iter, X, Len(cu.localVars)) /\ X[Count(iter)] = Frame(iter)
  <2>1. Sound(iter, X, O) /\ Grew(c1, T, iter, X, f.d) /\ X[Count(iter)] = On(f, 2)
    BY <1>17 DEF Above
  <2>2. Grew(cu, T, iter, X, f.d)
    BY <1>5, <1>7, <2>1 DEF Grew
  <2> QED
    BY <1>2, <1>20, <2>1, <2>2
<1>25. Appends(cu, scopes, todo, T, iter, ForScopes, X, O, Len(cu.localVars))
  BY <1>2, <1>16, <1>18, <1>20, <1>23, <1>24 DEF Appends
<1>26. Good(iter, ForScopes, todo, X, O, Mark, jumps, ends)
  BY <1>2, <1>25, GoodAppends
<1> QED
  BY <1>4, <1>15, <1>18, <1>19, <1>21, <1>22, <1>23, <1>26 DEF iter, c3, seq, c2, c1

-----------------------------------------------------------------------------
\* A loop l has been opened from u to w, as far as the code and the table of variables go.
Looped(u, T, P, w, U, l) ==
  /\ Sound(w, U, P \union {l.exitIndex - 1}) /\ Grew(u, T, w, U, Len(u.localVars)) /\ U[Count(w)] = Frame(w)
  /\ w.loops = Append(u.loops, l) /\ l \in LoopTypes /\ w.upvalueNums = u.upvalueNums /\ w.isModule = u.isModule /\ Alike(u, w)
  /\ Len(w.localVars) = Len(u.localVars) + 1
  /\ Start(l) = Count(u) /\ l.bodyStartIndex = Count(w) /\ l.scopeDepth = u.scopeDepth /\ Exits(u, w, U, l.exitIndex - 1)

\* A call of iterate() or iteratorValue() with the variables in two slots.
IterCall(u, s, r) ==
  WriteShort(WriteBytes(WriteOpCode(WriteBytes(WriteOpCode(u, LOAD_LOCAL_VAR), <<s>>), LOAD_LOCAL_VAR), <<r>>), CALL1, 0)

\* The test of a for statement.
LEMMA ForTest ==
  ASSUME NEW o, NEW O, NEW P, NEW f, Wrt(o, O, o, O, P, f, 0), NEW s \in Bytes, NEW r \in Bytes
  PROVE  LET c == IterCall(o, s, r)
             next == WriteBytes(WriteOpCode(c, STORE_LOCAL_VAR), <<r>>)
             w == EmitInstrWithPlaceholder(next, JUMP_IF_FALSE)
             q == Count(next)
         IN  /\ \E U : Wrt(o, O, w, U, P \union {q}, f, 0) /\ Opened(o, w, U, q, f, 0) /\ Grew(o, O, w, U, f.d)
             /\ Placeholder(w) = q + 1 /\ Count(w) = q + 3 /\ ByteAt(w, q) = JUMP_IF_FALSE /\ q \in Nat /\ q >= Count(o)
<1> DEFINE c == IterCall(o, s, r)
           x == WriteOpCode(c, STORE_LOCAL_VAR)
           next == WriteBytes(x, <<r>>)
           w == EmitInstrWithPlaceholder(next, JUMP_IF_FALSE)
           q == Count(next)
<1>1. (\E U : Wrt(o, O, c, U, P, f, 0 + 1) /\ Grew(o, O, c, U, f.d)) /\ Count(c) = (Count(o) + 4) + 3
  BY ForCallWrites DEF IterCall
<1>2. PICK X : Wrt(o, O, c, X, P, f, 1) /\ Grew(o, O, c, X, f.d)
  BY <1>1
<1>3. Above(o, O, c, X, P, f, 1) /\ SameBut(o, c) /\ c \in UnitTypes /\ Count(c) \in Nat /\ Count(o) \in Nat /\ f \in Stacks
  BY <1>2, WrtFacts
<1> HIDE DEF c
<1>4. SlotsUsed(STORE_LOCAL_VAR) = 0 /\ STORE_LOCAL_VAR \in Opcodes /\ <<r>> \in Seq(Int) /\ Len(<<r>>) = 1 /\ JUMP_IF_FALSE \in Branching
  BY SlotsUsedIs, OpcodeTypes, BytesAre, BytesInt DEF Branching
<1>5. next \in UnitTypes /\ SameBut(o, next) /\ Count(next) = Count(c) + 2
  <2>1. x \in UnitTypes /\ Count(x) = Count(c) + 1 /\ SameBut(c, x)
    BY <1>3, <1>4, CountsAre, WritersKeep
  <2> HIDE DEF x
  <2>2. next \in UnitTypes /\ Count(next) = Count(x) + 1 /\ SameBut(x, next)
    BY <1>4, <2>1, CountsAre, WritersKeep
  <2> HIDE DEF next
  <2> QED
    BY <1>3, <2>1, <2>2, SameButTwice
<1>6. PICK Y : Above(o, O, next, Y, P, f, 1)
  <2>1. \E U : Above(o, O, next, U, P, f, 1 + SlotsUsed(STORE_LOCAL_VAR))
    BY <1>3, LocalAbove
  <2>2. 1 + SlotsUsed(STORE_LOCAL_VAR) = 1
    BY <1>4
  <2> QED
    BY <2>1, <2>2
<1> HIDE DEF next
<1>7. Wrt(o, O, next, Y, P, f, 0 + 1)
  BY <1>5, <1>6 DEF Wrt
<1>8. /\ \E U : Wrt(o, O, w, U, P \union {q}, f, 0) /\ Opened(o, w, U, q, f, 0)
      /\ Placeholder(w) = q + 1 /\ Count(w) = q + 3 /\ ByteAt(w, q) = JUMP_IF_FALSE
  <2>1. JUMP_IF_FALSE \in Branching
    BY <1>4
  <2> HIDE DEF q
  <2>2. q = Count(next)
    BY DEF q
  <2>3. /\ \E U : /\ Wrt(o, O, w, U, P \union {Count(next)}, f, 0) /\ Grew(next, Y, w, U, f.d)
                  /\ Opened(o, w, U, Count(next), f, 0)
        /\ Placeholder(w) = Count(next) + 1 /\ Count(w) = Count(next) + 3 /\ ByteAt(w, Count(next)) = JUMP_IF_FALSE
    BY <1>7, <2>1, WrtBranch
  <2> QED
    BY <2>2, <2>3
<1>9. PICK U : Wrt(o, O, w, U, P \union {q}, f, 0) /\ Opened(o, w, U, q, f, 0)
  BY <1>8
<1>10. Grew(o, O, w, U, f.d)
  BY <1>9 DEF Wrt, Above
<1>11. q \in Nat /\ q >= Count(o)
  BY <1>1, <1>3, <1>5
<1> QED
  BY <1>8, <1>9, <1>10, <1>11 DEF w, next, c

\* From the beginning of the loop of a for statement to that of its block.
LEMMA ForBody ==
  ASSUME NEW it \in UnitTypes, NEW X, NEW P, Sound(it, X, P), X[Count(it)] = Frame(it), NEW s \in Bytes, NEW r \in Bytes, NEW n \in Names
  PROVE  LET next == WriteBytes(WriteOpCode(IterCall(EnterLoop(it), s, r), STORE_LOCAL_VAR), <<r>>)
             test == MarkExit(EmitInstrWithPlaceholder(next, JUMP_IF_FALSE))
             value == AddLocalVar(EnterScope(IterCall(test, s, r)), n)
             w == EnterScope(BeginBody(value))
         IN  w \in UnitTypes /\ Count(it) <= Count(w) /\ \E U, l : Looped(it, X, P, w, U, l)
<1> DEFINE c4 == EnterLoop(it)
           l0 == [condStartIndex |-> Count(it) - 1, bodyStartIndex |-> 0, scopeDepth |-> it.scopeDepth, exitIndex |-> 0]
           next == WriteBytes(WriteOpCode(IterCall(c4, s, r), STORE_LOCAL_VAR), <<r>>)
           c7 == EmitInstrWithPlaceholder(next, JUMP_IF_FALSE)
           test == MarkExit(c7)
           c8 == IterCall(test, s, r)
           c9 == EnterScope(c8)
           value == AddLocalVar(c9, n)
           e == BeginBody(value)
           w == EnterScope(e)
           l1 == [l0 EXCEPT !.exitIndex = Placeholder(c7)]
           l2 == [l1 EXCEPT !.bodyStartIndex = Count(value)]
           g == Frame(it)
           q == Count(next)
           Q == P \union {q}
<1>1. /\ g \in Stacks /\ g.d = Len(it.localVars) /\ g.c = Held(it) /\ Len(it.localVars) \in Nat /\ g.d \in Int
      /\ Count(it) \in Nat /\ it.loops \in Seq(LoopTypes) /\ X[Count(it)].d <= it.stackSlotNum /\ it.stackSlotNum <= it.maxSlots
  <2>1. X[Count(it)].d <= it.stackSlotNum /\ it.stackSlotNum <= it.maxSlots
    BY DEF Sound, RoomOK
  <2>2. /\ g \in Stacks /\ g.d = Len(it.localVars) /\ g.c = Held(it) /\ Len(it.localVars) \in Nat
    BY FrameIs
  <2> QED
    BY <2>1, <2>2, UnitFacts
<1>2. /\ l0 \in LoopTypes /\ SameVariables(it, c4) /\ c4.loops = Append(it.loops, l0)
      /\ c4.code = it.code /\ c4.stackSlotNum = it.stackSlotNum /\ c4.maxSlots = it.maxSlots
  BY EnterLoopIs
<1>3. l0.condStartIndex = Count(it) - 1 /\ l0.scopeDepth = it.scopeDepth
  OBVIOUS
<1> HIDE DEF c4, l0
<1>4. Wrt(c4, X, c4, X, P, g, 0) /\ c4 \in UnitTypes /\ Count(c4) = Count(it)
  <2>2. c4 \in UnitTypes /\ c4.upvalueNums = it.upvalueNums
    BY <1>2 DEF SameVariables
  <2>3. Sound(c4, X, P) /\ Count(c4) = Count(it)
    BY <1>1, <1>2, <2>2, SoundSame
  <2>4. Above(c4, X, c4, X, P, g, 0)
    BY <1>1, <2>3, AboveSelf
  <2>5. SameBut(c4, c4)
    BY <2>2 DEF SameBut
  <2> QED
    BY <2>2, <2>3, <2>4, <2>5 DEF Wrt
<1>5. /\ \E U : Wrt(c4, X, c7, U, P \union {q}, g, 0) /\ Opened(c4, c7, U, q, g, 0) /\ Grew(c4, X, c7, U, g.d)
      /\ Placeholder(c7) = q + 1 /\ Count(c7) = q + 3 /\ ByteAt(c7, q) = JUMP_IF_FALSE /\ q \in Nat /\ q >= Count(c4)
  BY <1>4, ForTest
<1>6. PICK U1 : Wrt(c4, X, c7, U1, Q, g, 0) /\ Opened(c4, c7, U1, q, g, 0) /\ Grew(c4, X, c7, U1, g.d)
  BY <1>5
<1> HIDE DEF c7, q
<1>7. Above(c4, X, c7, U1, Q, g, 0) /\ SameBut(c4, c7) /\ c7 \in UnitTypes /\ Sound(c7, U1, Q) /\ U1[Count(c7)] = On(g, 0)
      /\ On(g, 0) = g
  BY <1>1, <1>6, WrtFacts, OnIs
<1>8. /\ SameVariables(c7, test) /\ test.loops = Append(it.loops, l1) /\ test.code = c7.code /\ test.stackSlotNum = c7.stackSlotNum
      /\ test.maxSlots = c7.maxSlots /\ l1 \in LoopTypes /\ test \in UnitTypes
  <2>1. c7.loops = Append(it.loops, l0)
    BY <1>2, <1>7 DEF SameBut
  <2>2. /\ SameVariables(c7, test) /\ test.loops = Append(it.loops, l1) /\ test.code = c7.code /\ test.stackSlotNum = c7.stackSlotNum
        /\ test.maxSlots = c7.maxSlots /\ l1 \in LoopTypes
    BY <1>1, <1>2, <1>7, <2>1, LoopNotes
  <2> QED
    BY <2>2 DEF SameVariables
<1>9. l1.condStartIndex = Count(it) - 1 /\ l1.scopeDepth = it.scopeDepth /\ l1.exitIndex = q + 1
  BY <1>2, <1>3, <1>5 DEF LoopTypes
<1> HIDE DEF test, l1, Q
<1>10. Wrt(test, U1, test, U1, Q, g, 0) /\ Count(test) = Count(c7)
  <2>1. U1[Count(c7)].d <= c7.stackSlotNum /\ c7.stackSlotNum <= c7.maxSlots
    BY <1>7 DEF Sound, RoomOK
  <2>2. test.upvalueNums = c7.upvalueNums
    BY <1>8 DEF SameVariables
  <2>3. Sound(test, U1, Q) /\ Count(test) = Count(c7)
    BY <1>7, <1>8, <2>1, <2>2, SoundSame
  <2>4. Above(test, U1, test, U1, Q, g, 0)
    BY <1>7, <2>3, AboveSelf
  <2>5. SameBut(test, test)
    BY <1>8 DEF SameBut
  <2> QED
    BY <2>3, <2>4, <2>5 DEF Wrt
<1>11. (\E U : Wrt(test, U1, c8, U, Q, g, 0 + 1) /\ Grew(test, U1, c8, U, g.d)) /\ Count(c8) = (Count(test) + 4) + 3
  BY <1>10, ForCallWrites DEF IterCall
<1>12. PICK U : Wrt(test, U1, c8, U, Q, g, 1) /\ Grew(test, U1, c8, U, g.d)
  BY <1>11
<1>13. Above(test, U1, c8, U, Q, g, 1) /\ SameBut(test, c8) /\ c8 \in UnitTypes /\ Sound(c8, U, Q) /\ U[Count(c8)] = On(g, 1)
       /\ Count(c8) \in Nat /\ Count(test) \in Nat
  BY <1>12, WrtFacts
<1> HIDE DEF c8
<1>14. Grew(it, X, c8, U, g.d)
  <2>1. Grew(it, X, c7, U1, g.d)
    BY <1>2, <1>4, <1>6 DEF Grew
  <2>2. Grew(c7, U1, c8, U, g.d)
    BY <1>8, <1>10, <1>12 DEF Grew
  <2> QED
    BY <1>1, <1>7, <1>13, <2>1, <2>2, GrewTwice
<1>15. /\ c9 \in UnitTypes /\ c9.code = c8.code /\ c9.localVars = c8.localVars /\ c9.loops = c8.loops /\ c9.upvalueNums = c8.upvalueNums
       /\ c9.isModule = c8.isModule /\ c9.stackSlotNum = c8.stackSlotNum /\ c9.maxSlots = c8.maxSlots
  BY <1>13, EnterScopeSame
<1> HIDE DEF c9
<1>16. /\ value \in UnitTypes /\ value.code = c9.code /\ value.loops = c9.loops /\ value.upvalueNums = c9.upvalueNums
       /\ value.isModule = c9.isModule
       /\ value.stackSlotNum = c9.stackSlotNum /\ value.maxSlots = c9.maxSlots
       /\ Len(value.localVars) = Len(c9.localVars) + 1 /\ Held(value) = Held(c9) /\ Frame(value) = On(Frame(c9), 1)
  BY <1>15, AddedVariable
<1> HIDE DEF value
<1>17. /\ SameVariables(value, e) /\ e.loops = Append(it.loops, l2) /\ e.code = value.code /\ e.stackSlotNum = value.stackSlotNum
       /\ e.maxSlots = value.maxSlots /\ l2 \in LoopTypes /\ e \in UnitTypes
  <2>1. value.loops = Append(it.loops, l1)
    BY <1>8, <1>13, <1>15, <1>16 DEF SameBut
  <2>2. /\ SameVariables(value, e) /\ e.loops = Append(it.loops, l2) /\ e.code = value.code /\ e.stackSlotNum = value.stackSlotNum
        /\ e.maxSlots = value.maxSlots /\ l2 \in LoopTypes
    BY <1>1, <1>8, <1>16, <2>1, LoopNotes
  <2> QED
    BY <2>2 DEF SameVariables
<1>18. l2.condStartIndex = Count(it) - 1 /\ l2.scopeDepth = it.scopeDepth /\ l2.exitIndex = q + 1 /\ l2.bodyStartIndex = Count(value)
  BY <1>8, <1>9 DEF LoopTypes
<1> HIDE DEF e, l2
<1>19. /\ w \in UnitTypes /\ w.code = e.code /\ w.localVars = e.localVars /\ w.loops = e.loops /\ w.upvalueNums = e.upvalueNums
       /\ w.isModule = e.isModule /\ w.stackSlotNum = e.stackSlotNum /\ w.maxSlots = e.maxSlots
  BY <1>17, EnterScopeSame
<1> HIDE DEF w
<1>20. w.code = c8.code /\ w.stackSlotNum = c8.stackSlotNum /\ w.maxSlots = c8.maxSlots /\ w.upvalueNums = c8.upvalueNums
  BY <1>15, <1>16, <1>17, <1>19 DEF SameVariables
<1>21. w.upvalueNums = it.upvalueNums /\ w.isModule = it.isModule /\ Len(w.localVars) = Len(it.localVars) + 1 /\ Held(w) = Held(it)
       /\ Frame(w) = On(g, 1)
  <2>1. c8.localVars = it.localVars /\ c8.upvalueNums = it.upvalueNums /\ c8.isModule = it.isModule
    BY <1>2, <1>7, <1>8, <1>13 DEF SameBut, SameVariables
  <2>2. Frame(c9) = g /\ Held(c9) = Held(it)
    BY <1>15, <2>1 DEF Frame, Held
  <2>3. Frame(w) = Frame(value) /\ Held(w) = Held(value)
    BY <1>17, <1>19 DEF Frame, Held, SameVariables
  <2>4. w.localVars = value.localVars /\ w.upvalueNums = value.upvalueNums /\ w.isModule = value.isModule
    BY <1>17, <1>19 DEF SameVariables
  <2> QED
    BY <1>15, <1>16, <2>1, <2>2, <2>3, <2>4
<1>22. Above(test, U1, w, U, Q, g, 1) /\ Count(w) = Count(c8) /\ \A a : ByteAt(w, a) = ByteAt(c8, a)
  BY <1>13, <1>19, <1>20, AboveSame DEF Count, ByteAt
<1>23. Sound(w, U, Q) /\ Grew(it, X, w, U, Len(it.localVars)) /\ U[Count(w)] = Frame(w)
  <2>1. Grew(it, X, w, U, Len(it.localVars))
    BY <1>1, <1>14, <1>20, <1>22 DEF Grew
  <2> QED
    BY <1>21, <1>22, <2>1 DEF Above
<1>24. Start(l2) = Count(it) /\ l2.exitIndex - 1 = q /\ l2.bodyStartIndex = Count(w)
  <2>1. Start(l2) = (Count(it) - 1) + 1
    BY <1>18 DEF Start
  <2>2. Count(value) = Count(w)
    BY <1>17, <1>19 DEF Count
  <2> QED
    BY <1>1, <1>5, <1>18, <2>1, <2>2
<1>25. Exits(it, w, U, q)
  <2>1. /\ q \in DOMAIN U1 /\ q < Count(c7) /\ Lands(JUMP_IF_FALSE, U1[q]) = On(g, 0)
    BY <1>5, <1>6 DEF Opened
  <2>2. U1[q].d = Len(it.localVars) + 1 /\ U1[q].c = Held(it)
    <3>1. Lands(JUMP_IF_FALSE, U1[q]).d = U1[q].d - 1 /\ Lands(JUMP_IF_FALSE, U1[q]).c = U1[q].c
      BY DEF Lands
    <3>2. U1[q].d \in Nat
      BY <1>7, <2>1, SoundFacts
    <3> QED
      BY <1>1, <1>7, <2>1, <3>1, <3>2
  <2>3. Grew(c7, U1, w, U, g.d)
    BY <1>8, <1>10, <1>12, <1>20, <1>22 DEF Grew
  <2>4. q \in DOMAIN U /\ U[q] = U1[q] /\ q < Count(w) /\ ByteAt(w, q) = ByteAt(c7, q)
    <3>1. q + 1 \in 1..Count(c7) /\ Count(c7) <= Count(w)
      BY <1>5, <2>3 DEF Grew
    <3>2. w.code[q + 1] = c7.code[q + 1]
      BY <2>3, <3>1 DEF Grew
    <3> QED
      BY <1>5, <1>13, <1>22, <2>1, <2>3, <3>1, <3>2 DEF Grew, ByteAt
  <2> QED
    BY <1>4, <1>5, <2>2, <2>4 DEF Exits
<1>26. Alike(it, w)
  BY <1>21 DEF Alike
<1>27. w.loops = Append(it.loops, l2) /\ l2.scopeDepth = it.scopeDepth /\ l2 \in LoopTypes /\ Q = P \union {l2.exitIndex - 1}
  BY <1>17, <1>18, <1>19, <1>24 DEF Q
<1>28. Exits(it, w, U, l2.exitIndex - 1)
  BY <1>24, <1>25
<1>29. Looped(it, X, P, w, U, l2)
  <2> HIDE DEF g
  <2> QED
    BY <1>21, <1>23, <1>24, <1>26, <1>27, <1>28 DEF Looped
<1>30. Count(it) <= Count(w)
  BY <1>23 DEF Grew
<1> QED
  BY <1>19, <1>29, <1>30 DEF w, e, value, c9, c8, test, c7, c4

\* The blocks that a for statement opens.
LEMMA ForLocals ==
  ASSUME NEW n \in Names, NEW locals, locals = <<<<seqName, iterName>>, <<n>>>>, scopes \in Blocks
  PROVE  /\ locals \in Blocks
         /\ LET tt == scopes \o locals \o <<<<>>>>
            IN  \A i \in 1..Len(scopes) + 1 : tt[i] = ForScopes[i]
<1> DEFINE two == Append(Append(<<>>, seqName), iterName)
           one == Append(<<>>, n)
<1>1. two \in Seq(Names) /\ one \in Seq(Names) /\ <<>> \in Seq(Names) /\ Len(scopes) \in Nat
  BY EmptySeq, AppendProperties DEF Names, Blocks
<1>2. <<seqName, iterName>> = two /\ <<n>> = one
  OBVIOUS
<1>3. locals = <<two, one>>
  BY <1>2
<1>4. ForScopes = Append(scopes, two)
  BY DEF ForScopes
<1> HIDE DEF two, one
<1>5. locals \in Seq(Seq(Names)) /\ Len(locals) = 2 /\ locals[1] = two
  <2>1. \A A : \A x, y \in A : <<x, y>> \in Seq(A) /\ Len(<<x, y>>) = 2 /\ <<x, y>>[1] = x
    OBVIOUS
  <2>2. <<two, one>> \in Seq(Seq(Names)) /\ Len(<<two, one>>) = 2 /\ <<two, one>>[1] = two
    BY <1>1, <2>1
  <2> QED
    BY <1>3, <2>2
<1>6. scopes \in Seq(Seq(Names)) /\ <<<<>>>> \in Seq(Seq(Names))
  BY <1>1 DEF Blocks
<1>7. ForScopes[Len(scopes) + 1] = two /\ \A i \in 1..Len(scopes) : ForScopes[i] = scopes[i]
  BY <1>1, <1>4, <1>6, AppendProperties
<1>8. \A A : \A x, y, z \in Seq(A) : /\ Len(y) = 2 => (x \o y \o z)[Len(x) + 1] = y[1]
                                     /\ \A i \in 1..Len(x) : (x \o y \o z)[i] = x[i]
  OBVIOUS
<1>9. /\ (scopes \o locals \o <<<<>>>>)[Len(scopes) + 1] = locals[1]
      /\ \A i \in 1..Len(scopes) : (scopes \o locals \o <<<<>>>>)[i] = scopes[i]
  BY <1>5, <1>6, <1>8
<1>10. \A i \in 1..Len(scopes) + 1 : i # Len(scopes) + 1 => i \in 1..Len(scopes)
  BY <1>1
<1> QED
  BY <1>5, <1>7, <1>9, <1>10 DEF Blocks

\* compileForStatment()
LEMMA ForCompiles ==
  ASSUME NEW T, Compiles(T), NEW n \in Name, For(n), Len(cu'.localVars) <= BYTE
  PROVE  \E U : Compiling(U)'
<1> DEFINE seq == AddLocalVar(Expression(EnterScope(cu)), seqName)
           it == AddLocalVar(WriteOpCode(seq, PUSH_NULL), iterName)
           s == FindLocal(it, seqName)
           r == FindLocal(it, iterName)
           next == WriteBytes(WriteOpCode(IterCall(EnterLoop(it), s, r), STORE_LOCAL_VAR), <<r>>)
           test == MarkExit(EmitInstrWithPlaceholder(next, JUMP_IF_FALSE))
           value == AddLocalVar(EnterScope(IterCall(test, s, r)), n)
           code == BeginBody(value)
           w == EnterScope(code)
           locals == <<<<seqName, iterName>>, <<n>>>>
           tt == scopes \o locals \o <<<<>>>>
           b == [kind |-> "for", at |-> Count(it), outer |-> Len(scopes)]
           O == Waiting(cu, todo)
<1>1. Compiling(T) /\ ReadingOK(cu, scopes, todo) /\ Nested(cu, scopes, todo) /\ ~cu.isModule /\ n \in Names
  BY DEF Compiles, Compiling, For, MayDeclare, ReadingOK, Names
<1>2. /\ cu \in UnitTypes /\ scopes \in Blocks /\ todo \in Seq(TodoTypes) /\ Count(cu) \in Nat /\ Len(cu.localVars) \in Nat
      /\ Len(scopes) \in Nat /\ ScopesOK(cu, scopes)
  BY <1>1, CompilingFacts DEF Blocks
<1>3. "for" \in Kinds /\ "for" \in LoopKinds /\ "for" \notin IfKinds /\ locals \in Blocks
  <2>1. locals \in Blocks
    BY <1>1, <1>2, ForLocals
  <2> HIDE DEF locals
  <2> QED
    BY <2>1 DEF Kinds, LoopKinds, IfKinds
<1>4. \A i \in 1..Len(scopes) + 1 : tt[i] = ForScopes[i]
  BY <1>1, <1>2, ForLocals
<1>5. Enter(code, "for", Count(it), locals)
  BY DEF For, IterCall
<1>6. /\ \E X : Good(it, ForScopes, todo, X, Waiting(cu, todo), Mark, jumps, ends)
      /\ it \in UnitTypes /\ it.loops = cu.loops /\ it.upvalueNums = cu.upvalueNums /\ it.isModule = cu.isModule
      /\ it.scopeDepth = cu.scopeDepth + 1 /\ Count(it) = Count(cu) + 4
      /\ Len(it.localVars) = Len(cu.localVars) + 2
      /\ s \in 0..Len(it.localVars) - 1 /\ r \in 0..Len(it.localVars) - 1
      /\ SameBases(cu, todo, scopes, ForScopes) /\ ForScopes \in Blocks /\ Len(ForScopes) = Len(scopes) + 1
  BY <1>1, ForVariables
<1> HIDE DEF it, s, r
<1>7. PICK X : Good(it, ForScopes, todo, X, O, Mark, jumps, ends)
  BY <1>6
<1>8. Sound(it, X, O) /\ X[Count(it)] = Frame(it) /\ ScopesOK(it, ForScopes)
  BY <1>7 DEF Good
<1> HIDE DEF locals
<1>9. Opening(T, code, "for", Count(it), locals, w, tt, b)
  <2>1. ReadingOK(cu', scopes', todo')
    BY <1>1, ForReads
  <2>2. Count(it) \in Int
    BY <1>2, <1>6
  <2> QED
    BY <1>3, <1>5, <2>1, <2>2, Zenon DEF Opening
<1> HIDE DEF b, tt
<1>10. /\ cu' = w /\ ScopesOK(w, tt) /\ tt \in Blocks
       /\ SameBases(cu, todo, scopes, tt) /\ UpTo(tt, Len(scopes)) = Len(cu.localVars)
       /\ \A j \in 1..Len(cu.loops) : Base(scopes, cu.loops[j]) <= Len(cu.localVars)
       /\ b \in TodoTypes /\ b.kind = "for" /\ b.at = Count(it) /\ b.outer = Len(scopes) /\ Len(tt) = Len(scopes) + Levels(b.kind)
  BY <1>9, OpeningFacts
<1> HIDE DEF w
<1>11. s \in Bytes /\ r \in Bytes
  <2>1. Len(w.localVars) <= BYTE
    BY <1>10
  <2>2. Len(w.localVars) >= Len(cu.localVars) + 2
    <3>1. UpTo(tt, Len(scopes) + 1) = UpTo(ForScopes, Len(scopes) + 1) /\ UpTo(tt, Len(scopes) + 1) <= Len(w.localVars)
      <4>1. Levels(b.kind) = 3
        BY <1>10 DEF Levels
      <4>2. Len(scopes) + 1 \in 0..Len(tt) /\ Len(scopes) + 1 <= Len(ForScopes)
        BY <1>2, <1>6, <1>10, <4>1
      <4>3. UpTo(tt, Len(scopes) + 1) = UpTo(ForScopes, Len(scopes) + 1)
        BY <1>4, <1>6, <1>10, <4>2, UpToSame
      <4>4. UpTo(tt, Len(scopes) + 1) \in 0..Len(w.localVars)
        BY <1>10, <4>2, ScopesFacts
      <4> QED
        BY <4>3, <4>4
    <3>2. UpTo(ForScopes, Len(ForScopes)) = Len(it.localVars)
      BY <1>8, ScopesFacts
    <3> QED
      BY <1>6, <3>1, <3>2
  <2>3. w \in UnitTypes /\ Len(w.localVars) \in Nat
    BY <1>10, ScopesFacts
  <2>4. PICK p, p2, z \in Nat : p = Len(it.localVars) /\ p2 = Len(w.localVars) /\ z = BYTE
    <3>1. Len(it.localVars) \in Nat
      BY <1>2, <1>6
    <3>2. BYTE \in Nat
      BY ByteFacts
    <3> QED
      BY <2>3, <3>1, <3>2
  <2>5. p2 <= z /\ p <= p2
    <3>1. p = Len(cu.localVars) + 2
      BY <1>6, <2>4
    <3> QED
      BY <2>1, <2>2, <2>4, <3>1
  <2>6. s \in 0..p - 1 /\ r \in 0..p - 1
    BY <1>6, <2>4
  <2>7. s \in 0..z - 1 /\ r \in 0..z - 1
    BY <2>4, <2>5, <2>6
  <2> QED
    BY <2>4, <2>7 DEF Bytes
<1>12. w \in UnitTypes /\ Count(it) <= Count(w) /\ \E U, l : Looped(it, X, O, w, U, l)
  BY <1>1, <1>6, <1>8, <1>11, ForBody DEF w
<1>13. PICK U, l : Looped(it, X, O, w, U, l)
  BY <1>12
<1> DEFINE Q == O \union {l.exitIndex - 1}
<1> HIDE DEF Q
<1>14. /\ Sound(w, U, Q) /\ Grew(it, X, w, U, Len(it.localVars)) /\ U[Count(w)] = Frame(w)
       /\ w.loops = Append(it.loops, l) /\ l \in LoopTypes /\ w.upvalueNums = it.upvalueNums /\ w.isModule = it.isModule /\ Alike(it, w)
       /\ Len(w.localVars) = Len(it.localVars) + 1
       /\ Start(l) = Count(it) /\ l.bodyStartIndex = Count(w) /\ l.scopeDepth = it.scopeDepth /\ Exits(it, w, U, l.exitIndex - 1)
  BY <1>13 DEF Looped, Q
<1>15. Levels(b.kind) = 3 /\ Len(tt) = Len(scopes) + 3
  BY <1>10 DEF Levels
<1>16. SameBases(it, todo, ForScopes, tt)
  <2>1. Len(scopes) <= Len(ForScopes) /\ Len(scopes) <= Len(tt)
    BY <1>2, <1>6, <1>15
  <2>2. \A i \in 1..Len(scopes) : ForScopes[i] = tt[i]
    BY <1>2, <1>4
  <2>3. \A j \in 1..Len(it.loops) : it.loops[j].scopeDepth + 1 \in 0..Len(scopes)
    <3>1. \A j \in 1..Len(cu.loops) : cu.loops[j].scopeDepth + 1 \in 0..Len(scopes)
      BY <1>10 DEF SameBases
    <3> QED
      BY <1>6, <3>1
  <2>4. \A i \in Ifs(todo) : todo[i].outer \in 0..Len(scopes)
    BY <1>10 DEF SameBases
  <2> QED
    BY <1>2, <1>6, <1>10, <2>1, <2>2, <2>3, <2>4, BasesSame
<1>17. Base(tt, l) = Len(it.localVars) /\ l.scopeDepth + 1 = Len(scopes) + 1
  <2>1. l.scopeDepth + 1 = Len(scopes) + 1
    <3>1. Len(scopes) = cu.scopeDepth + 1 /\ cu.scopeDepth \in Int
      BY <1>2, UnitFacts DEF ScopesOK
    <3> QED
      BY <1>6, <1>14, <3>1
  <2>2. Len(scopes) + 1 \in 0..Len(tt) /\ Len(scopes) + 1 <= Len(ForScopes)
    BY <1>2, <1>6, <1>15
  <2>3. UpTo(tt, Len(scopes) + 1) = UpTo(ForScopes, Len(scopes) + 1)
    BY <1>4, <1>6, <1>10, <2>2, UpToSame
  <2>4. UpTo(ForScopes, Len(ForScopes)) = Len(it.localVars)
    BY <1>8, ScopesFacts
  <2> QED
    BY <1>6, <2>1, <2>3, <2>4 DEF Base
<1>18. \A j \in 1..Len(it.loops) : Base(ForScopes, it.loops[j]) <= Len(it.localVars)
  <2> SUFFICES ASSUME NEW j \in 1..Len(cu.loops) PROVE Base(ForScopes, cu.loops[j]) <= Len(it.localVars)
    BY <1>6
  <2>1. Base(ForScopes, cu.loops[j]) = Base(scopes, cu.loops[j]) /\ Base(scopes, cu.loops[j]) <= Len(cu.localVars)
    BY <1>6, <1>10 DEF SameBases
  <2>2. Base(scopes, cu.loops[j]) \in 0..Len(cu.localVars)
    <3>1. cu.loops[j].scopeDepth + 1 \in 0..Len(scopes)
      BY <1>10 DEF SameBases
    <3> QED
      BY <1>2, <3>1, ScopesFacts DEF Base
  <2> QED
    BY <1>2, <1>6, <2>1, <2>2
<1>19. Len(it.localVars) <= Len(w.localVars)
  BY <1>2, <1>6, <1>14
<1>20. Opens(it, ForScopes, todo, X, w, tt, U, Q, l)
  BY <1>10, <1>14, <1>16, <1>17, <1>18, <1>19 DEF Opens
<1>21. Good(w, tt, todo, U, Q, Mark, jumps, ends) /\ Waiting(w, todo) = Q
  <2>1. Good(w, tt, todo, U, Q, Mark, jumps, ends) /\ Waiting(w, todo) = Waiting(it, todo) \union {l.exitIndex - 1}
    BY <1>7, <1>14, <1>20, LoopOpens
  <2>2. Waiting(it, todo) = O
    BY <1>6, WaitingSame
  <2> QED
    BY <2>1, <2>2 DEF Q
<1>22. Nested(w, tt, Append(todo, b))
  <2>1. b.kind \in LoopKinds /\ b.at = Start(l) /\ l.scopeDepth + 1 = b.outer + (IF b.kind = "for" THEN 1 ELSE 0)
    BY <1>3, <1>10, <1>14, <1>17
  <2>2. w.loops = Append(cu.loops, l)
    BY <1>6, <1>14
  <2> QED
    BY <1>1, <1>2, <1>10, <2>1, <2>2, NestedEnterLoop
<1>23. Ifs(Append(todo, b)) = Ifs(todo) /\ \A i \in Ifs(todo) : Append(todo, b)[i] = todo[i]
  BY <1>2, <1>3, <1>10, NoIfBegins
<1>24. Good(w, tt, Append(todo, b), U, Q, Mark, jumps, ends) /\ Waiting(w, Append(todo, b)) = Waiting(w, todo)
  BY <1>21, <1>23, GoodTodo
<1>25. Len(w.upvalueNums) <= Count(w)
  <2>1. Len(cu.upvalueNums) \in Nat /\ Len(cu.upvalueNums) <= Count(cu) /\ Count(w) \in Nat
    BY <1>1, <1>2, <1>12, UnitFacts DEF Compiling
  <2> QED
    BY <1>2, <1>6, <1>12, <1>14, <2>1
<1> QED
  BY <1>9, <1>21, <1>22, <1>24, <1>25, OpeningCompiles DEF w

-----------------------------------------------------------------------------
(***************************************************************************)
(* Blocks end.                                                             *)
(***************************************************************************)
LEMMA ScopeIsLeft ==
  ASSUME NEW u, NEW tt \in Blocks, NEW b \in Seq(Names), NEW t, NEW T, NEW P, NEW mk, NEW jm, NEW en,
         Good(u, Append(tt, b), t, T, P, mk, jm, en), u.isModule \/ Len(tt) > 0, SameBases(u, t, Append(tt, b), tt),
         \A j \in 1..Len(u.loops) : Base(Append(tt, b), u.loops[j]) <= UpTo(tt, Len(tt))
  PROVE  LET w == LeaveScope(u)
         IN  /\ \E U : Good(w, tt, t, U, P, mk, jm, en)
             /\ w \in UnitTypes /\ w.loops = u.loops /\ w.upvalueNums = u.upvalueNums /\ w.isModule = u.isModule
             /\ Count(w) \in Nat /\ Count(u) <= Count(w) /\ Len(w.localVars) = UpTo(tt, Len(tt))
<1> DEFINE ss == Append(tt, b)
           w == LeaveScope(u)
           m == UpTo(tt, Len(tt))
<1> HIDE DEF ss
<1>1. Good(u, ss, t, T, P, mk, jm, en) /\ SameBases(u, t, ss, tt) /\ \A j \in 1..Len(u.loops) : Base(ss, u.loops[j]) <= m
  BY DEF ss
<1>2. Sound(u, T, P) /\ T[Count(u)] = Frame(u) /\ ScopesOK(u, ss)
  BY <1>1 DEF Good
<1>3. /\ \E U : Sound(w, U, P) /\ Grew(u, T, w, U, Len(w.localVars)) /\ U[Count(w)] = Frame(w)
      /\ Len(w.localVars) = m /\ \A s : s \in Held(w) <=> s \in Held(u) /\ s < Len(w.localVars)
  BY <1>2, LeaveScopeIsSound DEF ss
<1>4. ScopesOK(w, tt) /\ w.isModule = u.isModule /\ w.upvalueNums = u.upvalueNums /\ w.loops = u.loops
  BY <1>2, LeaveScopeIs DEF ss
<1>5. PICK U : Sound(w, U, P) /\ Grew(u, T, w, U, Len(w.localVars)) /\ U[Count(w)] = Frame(w)
  BY <1>3
<1> HIDE DEF w
<1>6. w \in UnitTypes /\ Count(w) \in Nat /\ m \in Int
  <2>1. w \in UnitTypes /\ Len(w.localVars) \in Nat
    BY <1>4, ScopesFacts
  <2> QED
    BY <1>3, <2>1, UnitFacts
<1>7. Alike(u, w)
  BY <1>3 DEF Alike
<1>8. Appends(u, ss, t, T, w, tt, U, P, m)
  BY <1>1, <1>3, <1>4, <1>5, <1>6, <1>7 DEF Appends
<1>9. Good(w, tt, t, U, P, mk, jm, en)
  BY <1>1, <1>8, GoodAppends
<1>10. Count(u) <= Count(w)
  BY <1>5 DEF Grew
<1> QED
  BY <1>3, <1>4, <1>6, <1>9, <1>10 DEF w

LEMMA GoodWeaker ==
  ASSUME NEW u, NEW ss, NEW t, NEW T, NEW P, NEW mk, NEW jm, NEW en, Good(u, ss, t, T, P, mk, jm, en), NEW Q, P \subseteq Q
  PROVE  Good(u, ss, t, T, Q, mk, jm, en)
<1>1. Sound(u, T, P)
  BY DEF Good
<1>2. Sound(u, T, Q)
  BY <1>1, SoundWeaker
<1> QED
  BY <1>2 DEF Good

\* The statement that ends, and the block around it.
Leaving(T, kind, code, tt) ==
  /\ Compiles(T) /\ Leave(kind, code) /\ tt = SubSeq(scopes, 1, Last(todo).outer)

LEMMA LeavingFacts ==
  ASSUME NEW T, NEW kind, NEW code, NEW tt, Leaving(T, kind, code, tt)
  PROVE  /\ cu' = code /\ scopes' = tt /\ todo' = Front(todo) /\ marks' = marks /\ jumps' = jumps
         /\ ip' = ip /\ depth' = depth /\ open' = open
         /\ Compiling(T) /\ ReadingOK(cu, scopes, todo) /\ Nested(cu, scopes, todo)
         /\ cu \in UnitTypes /\ Count(cu) \in Nat /\ scopes \in Blocks /\ Len(scopes) \in Nat /\ todo \in Seq(TodoTypes) /\ todo # <<>>
         /\ Last(todo) \in TodoTypes /\ Last(todo).kind = kind /\ Last(todo) = todo[Len(todo)] /\ Len(todo) \in 1..Len(todo)
         /\ tt \in Blocks /\ Len(tt) = Last(todo).outer /\ Last(todo).outer \in Nat /\ Last(todo).outer = Len(scopes) - Levels(kind)
         /\ Good(cu, scopes, todo, T, Waiting(cu, todo), marks, jumps, ends)
         /\ cu.isModule \/ Len(tt) > 0
         /\ Len(cu.upvalueNums) \in Nat /\ Len(cu.upvalueNums) <= Count(cu)
<1>1. Compiling(T) /\ ReadingOK(cu, scopes, todo) /\ Nested(cu, scopes, todo) /\ Leave(kind, code)
  BY DEF Leaving, Compiles, Compiling
<1>2. /\ cu' = code /\ scopes' = tt /\ todo' = Front(todo) /\ marks' = marks /\ jumps' = jumps
      /\ ip' = ip /\ depth' = depth /\ open' = open /\ todo # <<>> /\ Last(todo).kind = kind
  BY <1>1 DEF Leave, Leaving, machine
<1>3. /\ cu \in UnitTypes /\ Count(cu) \in Nat /\ scopes \in Blocks /\ todo \in Seq(TodoTypes)
      /\ Len(cu.upvalueNums) \in Nat /\ Len(cu.upvalueNums) <= Count(cu)
  BY <1>1, CompilingFacts, UnitFacts DEF Compiling
<1>4. /\ Last(todo) \in TodoTypes /\ Last(todo).outer \in Nat
      /\ Last(todo).outer = Len(scopes) - Levels(kind)
      /\ Len(scopes) \in Nat /\ (cu.isModule \/ Last(todo).outer > 0)
  BY <1>1, <1>2, InnermostStatement
<1>5. Last(todo) = todo[Len(todo)] /\ Len(todo) \in 1..Len(todo)
  BY <1>2, <1>3, LastIs
<1>6. tt \in Blocks /\ Len(tt) = Last(todo).outer
  <2>1. Levels(kind) \in Nat
    BY DEF Levels
  <2>2. Last(todo).outer \in 0..Len(scopes) /\ scopes \in Seq(Seq(Names))
    BY <1>3, <1>4, <2>1 DEF Blocks
  <2>3. SubSeq(scopes, 1, Last(todo).outer) \in Seq(Seq(Names)) /\ Len(SubSeq(scopes, 1, Last(todo).outer)) = Last(todo).outer
    BY <2>2, SubSeqIs
  <2> QED
    BY <2>3 DEF Leaving, Blocks
<1>7. Good(cu, scopes, todo, T, Waiting(cu, todo), marks, jumps, ends)
  BY <1>1 DEF Compiling
<1> QED
  BY <1>1, <1>2, <1>3, <1>4, <1>5, <1>6, <1>7

LEMMA LeavingCompiles ==
  ASSUME NEW T, NEW kind, NEW code, NEW tt, Leaving(T, kind, code, tt),
         NEW U, Good(code, tt, Front(todo), U, Waiting(code, Front(todo)), marks, jumps, ends'),
         code.loops = (IF kind \in LoopKinds THEN Front(cu.loops) ELSE cu.loops), Len(code.upvalueNums) <= Count(code)
  PROVE  Compiling(U)'
<1>1. ip = 0 /\ depth = 0 /\ open = {}
  BY DEF Leaving, Compiles, Compiling
<1>2. /\ cu' = code /\ scopes' = tt /\ todo' = Front(todo) /\ marks' = marks /\ jumps' = jumps
      /\ ip' = ip /\ depth' = depth /\ open' = open /\ Nested(cu, scopes, todo) /\ cu \in UnitTypes /\ todo \in Seq(TodoTypes)
      /\ todo # <<>> /\ Last(todo).kind = kind /\ Len(tt) = Last(todo).outer
  BY LeavingFacts
<1>3. Nested(code, tt, Front(todo))
  BY <1>2, NestedLeave
<1>4. Good(cu', scopes', todo', U, Waiting(cu', todo'), marks', jumps', ends')
  BY <1>2
<1>5. Nested(cu', scopes', todo') /\ Len(cu'.upvalueNums) <= Count(cu')
  BY <1>2, <1>3
<1> QED
  BY <1>1, <1>2, <1>4, <1>5 DEF Compiling

\* The innermost block, which belongs to the last statement of todo, has been left.
LEMMA InnermostIsLeft ==
  ASSUME NEW T, Compiling(T), ReadingOK(cu, scopes, todo), todo # <<>>
  PROVE  LET w == LeaveScope(cu)
             fr == Front(scopes)
         IN  /\ \E U : Good(w, fr, todo, U, Waiting(w, todo), marks, jumps, ends)
             /\ w \in UnitTypes /\ w.loops = cu.loops /\ w.upvalueNums = cu.upvalueNums /\ w.isModule = cu.isModule
             /\ Count(w) \in Nat /\ Count(cu) <= Count(w) /\ Len(w.localVars) = UpTo(fr, Len(fr))
             /\ fr \in Blocks /\ Len(fr) = Len(scopes) - 1 /\ \A i \in 1..Len(fr) : fr[i] = scopes[i]
             /\ fr = SubSeq(scopes, 1, Len(scopes) - 1) /\ SameBases(cu, todo, scopes, fr)
<1> DEFINE w == LeaveScope(cu)
           fr == Front(scopes)
           b == Last(scopes)
<1>1. Good(cu, scopes, todo, T, Waiting(cu, todo), marks, jumps, ends) /\ Nested(cu, scopes, todo)
  BY DEF Compiling
<1>2. scopes \in Blocks /\ Len(scopes) \in Nat /\ Len(scopes) > 0 /\ (cu.isModule \/ Len(scopes) > 1)
  <2>1. /\ Last(todo).outer \in Nat /\ Last(todo).outer = Len(scopes) - Levels(Last(todo).kind)
        /\ Len(scopes) \in Nat /\ (cu.isModule \/ Last(todo).outer > 0) /\ scopes \in Blocks
    BY InnermostStatement
  <2>2. Levels(Last(todo).kind) \in 1..3
    BY DEF Levels
  <2> QED
    BY <2>1, <2>2
<1>3. fr \in Blocks /\ Len(fr) = Len(scopes) - 1 /\ b \in Seq(Names) /\ scopes = Append(fr, b) /\ \A i \in 1..Len(scopes) - 1 : fr[i] = scopes[i]
  <2>1. scopes \in Seq(Seq(Names)) /\ scopes # <<>>
    BY <1>2 DEF Blocks
  <2> QED
    BY <2>1, LastIs DEF Blocks
<1>4. fr = SubSeq(scopes, 1, Len(scopes) - 1)
  BY DEF Front
<1> HIDE DEF fr, b
<1>5. cu.isModule \/ Len(fr) > 0
  BY <1>2, <1>3
<1>6. /\ SameBases(cu, todo, scopes, fr)
      /\ \A j \in 1..Len(cu.loops) : Base(scopes, cu.loops[j]) <= UpTo(scopes, Len(scopes) - 1)
  <2>1. Len(scopes) - 1 <= Len(fr) /\ \A i \in 1..Len(scopes) - 1 : scopes[i] = fr[i]
    BY <1>2, <1>3
  <2> QED
    BY <1>1, <1>2, <1>3, <2>1, NestedBases
<1>7. UpTo(scopes, Len(scopes) - 1) = UpTo(fr, Len(fr))
  <2>1. Len(fr) \in 0..Len(scopes) /\ Len(fr) <= Len(fr) /\ \A i \in 1..Len(fr) : scopes[i] = fr[i]
    BY <1>2, <1>3
  <2>2. UpTo(scopes, Len(fr)) = UpTo(fr, Len(fr))
    BY <1>2, <1>3, <2>1, UpToSame
  <2> QED
    BY <1>3, <2>2
<1>8. Good(cu, Append(fr, b), todo, T, Waiting(cu, todo), marks, jumps, ends) /\ SameBases(cu, todo, Append(fr, b), fr)
      /\ \A j \in 1..Len(cu.loops) : Base(Append(fr, b), cu.loops[j]) <= UpTo(fr, Len(fr))
  BY <1>1, <1>3, <1>6, <1>7
<1>9. /\ \E U : Good(w, fr, todo, U, Waiting(cu, todo), marks, jumps, ends)
      /\ w \in UnitTypes /\ w.loops = cu.loops /\ w.upvalueNums = cu.upvalueNums /\ w.isModule = cu.isModule
      /\ Count(w) \in Nat /\ Count(cu) <= Count(w) /\ Len(w.localVars) = UpTo(fr, Len(fr))
  BY <1>3, <1>5, <1>8, ScopeIsLeft
<1>10. Waiting(w, todo) = Waiting(cu, todo)
  BY <1>9, WaitingSame
<1>11. \A i \in 1..Len(fr) : fr[i] = scopes[i]
  BY <1>3
<1> QED
  BY <1>3, <1>4, <1>6, <1>9, <1>10, <1>11 DEF fr

LEMMA EndBlockCompiles ==
  ASSUME NEW T, Compiles(T), EndBlock
  PROVE  \E U : Compiling(U)'
<1> DEFINE w == LeaveScope(cu)
           tt == SubSeq(scopes, 1, Last(todo).outer)
<1>1. Leaving(T, "block", w, tt) /\ ends' = ends
  BY DEF Leaving, EndBlock
<1>2. Levels("block") = 1 /\ "block" \notin IfKinds /\ "block" \notin LoopKinds
  BY DEF Levels, IfKinds, LoopKinds
<1> HIDE DEF w, tt
<1>3. /\ Compiling(T) /\ ReadingOK(cu, scopes, todo) /\ todo # <<>> /\ Last(todo).kind = "block" /\ todo \in Seq(TodoTypes)
      /\ Last(todo).outer = Len(scopes) - Levels("block") /\ Count(cu) \in Nat
      /\ Len(cu.upvalueNums) \in Nat /\ Len(cu.upvalueNums) <= Count(cu)
  BY <1>1, LeavingFacts
<1>4. /\ \E U : Good(w, tt, todo, U, Waiting(w, todo), marks, jumps, ends)
      /\ w.loops = cu.loops /\ w.upvalueNums = cu.upvalueNums /\ Count(w) \in Nat /\ Count(cu) <= Count(w)
  <2>1. /\ \E U : Good(w, Front(scopes), todo, U, Waiting(w, todo), marks, jumps, ends)
        /\ w.loops = cu.loops /\ w.upvalueNums = cu.upvalueNums /\ Count(w) \in Nat /\ Count(cu) <= Count(w)
        /\ Front(scopes) = SubSeq(scopes, 1, Len(scopes) - 1)
    BY <1>3, InnermostIsLeft DEF w
  <2>2. tt = Front(scopes)
    BY <1>2, <1>3, <2>1 DEF tt
  <2> QED
    BY <2>1, <2>2
<1>5. PICK U : Good(w, tt, todo, U, Waiting(w, todo), marks, jumps, ends)
  BY <1>4
<1>6. Good(w, tt, Front(todo), U, Waiting(w, todo), marks, jumps, ends) /\ Waiting(w, todo) = Waiting(w, Front(todo))
  BY <1>2, <1>3, <1>5, GoodFront
<1>7. Good(w, tt, Front(todo), U, Waiting(w, Front(todo)), marks, jumps, ends')
  BY <1>1, <1>6
<1>8. Len(w.upvalueNums) <= Count(w)
  BY <1>3, <1>4
<1> QED
  BY <1>1, <1>2, <1>4, <1>7, <1>8, LeavingCompiles

\* The other instructions stay when the target of one is written.
LEMMA PatchKeeps ==
  ASSUME NEW u, NEW T, NEW P, Sound(u, T, P), NEW a \in DOMAIN T, a < Count(u), ByteAt(u, a) \in Branching \union {JUMP}
  PROVE  \A b \in DOMAIN T : b < Count(u) => ByteAt(PatchPlaceholder(u, a + 1), b) = ByteAt(u, b)
<1> DEFINE w == PatchPlaceholder(u, a + 1)
<1>1. /\ Count(u) \in Nat /\ \A b \in DOMAIN T : b \in Nat /\ b <= Count(u)
      /\ InstrOK(u, DOMAIN T, a) /\ u \in UnitTypes
  BY SoundFacts DEF Sound, Chained
<1>2. \A i \in 1..Len(u.code) : i # a + 2 /\ i # a + 3 => w.code[i] = u.code[i]
  <2>1. a + 1 \in Int /\ (a + 1) + 2 = a + 3 /\ (a + 1) + 1 = a + 2
    BY <1>1
  <2>2. \A i \in 1..Len(u.code) :
          w.code[i] = IF i = (a + 1) + 2 THEN Low(Count(u) - (a + 1) - 2) ELSE IF i = (a + 1) + 1 THEN High(Count(u) - (a + 1) - 2) ELSE u.code[i]
    BY <1>1, <2>1, PatchPlaceholderIs
  <2> HIDE DEF w
  <2> QED
    BY <2>1, <2>2
<1> HIDE DEF w
<1>3. Count(u) = Len(u.code)
  BY DEF Count
<1>4. ASSUME NEW b \in DOMAIN T, b < Count(u) PROVE ByteAt(w, b) = ByteAt(u, b)
  <2>1. ByteAt(u, a) \in 1..END
    BY <1>1 DEF InstrOK
  <2>2. Width(u, a) = 3
    BY <2>1, WidthIs DEF Branching
  <2>3. b <= a \/ b >= a + 3
    BY <1>1, <2>2 DEF InstrOK
  <2>4. b + 1 \in 1..Len(u.code) /\ b + 1 # a + 2 /\ b + 1 # a + 3
    BY <1>1, <1>3, <1>4, <2>3
  <2> QED
    BY <1>2, <2>4 DEF ByteAt
<1> QED
  BY <1>4 DEF w

\* The branch of an if statement ends, and the jump over it gets its target.  The jumps R are waiting as well.
LEMMA BranchEnds ==
  ASSUME NEW u, NEW tt, NEW t \in Seq(TodoTypes), NEW U, NEW P, NEW mk, NEW jm, NEW en, Good(u, tt, t, U, P, mk, jm, en),
         NEW R, P \subseteq Waiting(u, t) \union R,
         t # <<>>, Last(t).kind \in IfKinds, UpTo(tt, Last(t).outer) = Len(u.localVars), Count(u) < BYTE * BYTE
  PROVE  LET x == PatchPlaceholder(u, Last(t).at)
         IN  /\ Good(x, tt, Front(t), U, Waiting(x, Front(t)) \union R, mk, jm, en) /\ SameBut(u, x) /\ Count(x) = Count(u)
             /\ x.stackSlotNum = u.stackSlotNum /\ \A b \in DOMAIN U : b < Count(u) => ByteAt(x, b) = ByteAt(u, b)
<1> DEFINE a == Last(t).at - 1
           x == PatchPlaceholder(u, Last(t).at)
<1>1. Len(t) \in Ifs(t) /\ Last(t) = t[Len(t)] /\ Last(t).at \in Int
  <2>1. Len(t) \in Ifs(t) /\ Last(t) = t[Len(t)]
    BY IfsAre
  <2>2. Last(t) \in TodoTypes
    BY LastIs
  <2> QED
    BY <2>1, <2>2 DEF TodoTypes
<1>2. a \in Waiting(u, t) /\ a + 1 = Last(t).at
  BY <1>1 DEF Waiting
<1>3. IfOK(u, U, t[Len(t)].at - 1, UpTo(tt, t[Len(t)].outer))
  BY <1>1 DEF Good, Shape
<1>4. IfOK(u, U, a, Len(u.localVars))
  BY <1>1, <1>3
<1> HIDE DEF a
<1>5. /\ Lands(ByteAt(u, a), U[a]).d = Len(u.localVars) /\ \A s \in U[a].c : s \in Held(u)
      /\ a \in DOMAIN U /\ a < Count(u) /\ ByteAt(u, a) \in Branching \union {JUMP}
  BY <1>4 DEF IfOK, Pending
<1>6. /\ Good(x, tt, t, U, P \ {a}, mk, jm, en) /\ SameBut(u, x) /\ Count(x) = Count(u)
      /\ x.stackSlotNum = u.stackSlotNum
  <2>1. LET w == PatchPlaceholder(u, a + 1)
        IN  /\ Good(w, tt, t, U, P \ {a}, mk, jm, en) /\ SameBut(u, w) /\ Count(w) = Count(u)
            /\ w.stackSlotNum = u.stackSlotNum /\ w.maxSlots = u.maxSlots
    BY <1>2, <1>5, GoodPatch
  <2> QED
    BY <1>2, <2>1
<1>7. \A b \in DOMAIN U : b < Count(u) => ByteAt(x, b) = ByteAt(u, b)
  <2>1. \A b \in DOMAIN U : b < Count(u) => ByteAt(PatchPlaceholder(u, a + 1), b) = ByteAt(u, b)
    BY <1>5, PatchKeeps DEF Good
  <2> QED
    BY <1>2, <2>1
<1> HIDE DEF x
<1>8. Waiting(x, t) = Waiting(u, t)
  BY <1>6, WaitingSame DEF SameBut
<1>9. Good(x, tt, Front(t), U, P \ {a}, mk, jm, en) /\ Waiting(x, t) = Waiting(x, Front(t)) \union {Last(t).at - 1}
  BY <1>6, GoodFront
<1>10. P \ {a} \subseteq Waiting(x, Front(t)) \union R
  BY <1>8, <1>9 DEF a
<1>11. Good(x, tt, Front(t), U, Waiting(x, Front(t)) \union R, mk, jm, en)
  BY <1>9, <1>10, GoodWeaker
<1> QED
  BY <1>6, <1>7, <1>11 DEF x

LEMMA EndBranchCompiles ==
  ASSUME NEW T, Compiles(T), EndIf \/ EndElse
  PROVE  \E U : Compiling(U)'
<1> DEFINE w == LeaveScope(cu)
           x == PatchPlaceholder(w, Last(todo).at)
           tt == SubSeq(scopes, 1, Last(todo).outer)
<1>1. PICK kind \in IfKinds : Leaving(T, kind, x, tt) /\ ends' = ends
  BY DEF Leaving, EndIf, EndElse, IfKinds
<1>2. Levels(kind) = 1 /\ kind \notin LoopKinds
  BY DEF Levels, IfKinds, LoopKinds
<1> HIDE DEF w, tt
<1>3. /\ Compiling(T) /\ ReadingOK(cu, scopes, todo) /\ todo # <<>> /\ Last(todo).kind = kind /\ todo \in Seq(TodoTypes)
      /\ Last(todo).outer = Len(scopes) - Levels(kind) /\ Count(cu) \in Nat
      /\ Len(cu.upvalueNums) \in Nat /\ Len(cu.upvalueNums) <= Count(cu) /\ cu' = x
      /\ Last(todo) \in TodoTypes /\ Len(tt) = Last(todo).outer
  BY <1>1, LeavingFacts
<1>4. /\ \E U : Good(w, tt, todo, U, Waiting(w, todo), marks, jumps, ends)
      /\ w.loops = cu.loops /\ w.upvalueNums = cu.upvalueNums /\ Count(w) \in Nat /\ Count(cu) <= Count(w)
      /\ Len(w.localVars) = UpTo(tt, Last(todo).outer) /\ w \in UnitTypes
  <2>1. /\ \E U : Good(w, Front(scopes), todo, U, Waiting(w, todo), marks, jumps, ends)
        /\ w.loops = cu.loops /\ w.upvalueNums = cu.upvalueNums /\ Count(w) \in Nat /\ Count(cu) <= Count(w)
        /\ Front(scopes) = SubSeq(scopes, 1, Len(scopes) - 1) /\ Len(w.localVars) = UpTo(Front(scopes), Len(Front(scopes)))
        /\ w \in UnitTypes
    BY <1>3, InnermostIsLeft DEF w
  <2>2. tt = Front(scopes)
    BY <1>2, <1>3, <2>1 DEF tt
  <2> QED
    BY <1>3, <2>1, <2>2
<1>5. PICK U : Good(w, tt, todo, U, Waiting(w, todo), marks, jumps, ends)
  BY <1>4
<1>6. Count(w) < BYTE * BYTE
  <2>1. Last(todo).at \in Int
    BY <1>3 DEF TodoTypes
  <2>2. Count(x) = Count(w)
    BY <1>4, <2>1, CountsAre
  <2>3. Count(cu') < BYTE * BYTE
    BY DEF Compiles
  <2> QED
    BY <1>3, <2>2, <2>3
<1>7. Good(x, tt, Front(todo), U, Waiting(x, Front(todo)), marks, jumps, ends) /\ SameBut(w, x) /\ Count(x) = Count(w)
  <2> DEFINE O == Waiting(w, todo)
  <2>1. Good(w, tt, todo, U, O, marks, jumps, ends) /\ O \subseteq Waiting(w, todo) \union {}
    BY <1>5
  <2> HIDE DEF O
  <2>2. Good(x, tt, Front(todo), U, Waiting(x, Front(todo)) \union {}, marks, jumps, ends) /\ SameBut(w, x) /\ Count(x) = Count(w)
    BY <1>3, <1>4, <1>6, <2>1, BranchEnds
  <2>3. Waiting(x, Front(todo)) \union {} = Waiting(x, Front(todo))
    OBVIOUS
  <2> QED
    BY <2>2, <2>3
<1> HIDE DEF x
<1>8. Len(x.upvalueNums) <= Count(x) /\ x.loops = cu.loops
  BY <1>3, <1>4, <1>7 DEF SameBut
<1> QED
  BY <1>1, <1>2, <1>7, <1>8, LeavingCompiles

-----------------------------------------------------------------------------
\* The jump from the end of the true branch over the other one.
LEMMA JumpIsAdded ==
  ASSUME NEW u, NEW ss, NEW t, NEW T, NEW P, NEW mk, NEW jm, NEW en, Good(u, ss, t, T, P, mk, jm, en),
         u \in UnitTypes, SameBases(u, t, ss, ss), \A j \in 1..Len(u.loops) : Base(ss, u.loops[j]) <= Len(u.localVars)
  PROVE  LET w == EmitInstrWithPlaceholder(u, JUMP)
             q == Count(u)
         IN  /\ \E U : /\ Good(w, ss, t, U, P \union {q}, mk, jm, en)
                       /\ q \in DOMAIN U /\ ByteAt(w, q) = JUMP /\ Lands(JUMP, U[q]) = Frame(u)
             /\ SameBut(u, w) /\ w \in UnitTypes /\ Placeholder(w) = q + 1 /\ q \in Nat /\ Count(w) = q + 3
<1> DEFINE w == EmitInstrWithPlaceholder(u, JUMP)
           q == Count(u)
           f == Frame(u)
<1>1. Sound(u, T, P) /\ T[Count(u)] = f /\ ScopesOK(u, ss)
  BY DEF Good
<1>2. f \in Stacks /\ f.d = Len(u.localVars) /\ f.c = Held(u) /\ Len(u.localVars) \in Nat /\ On(f, 0) = f /\ q \in Nat
      /\ f.d + 0 <= u.stackSlotNum
  <2>1. f \in Stacks /\ f.d = Len(u.localVars) /\ f.c = Held(u) /\ Len(u.localVars) \in Nat
    BY FrameIs
  <2>2. T[Count(u)].d <= u.stackSlotNum
    BY <1>1, SoundFacts
  <2> QED
    BY <1>1, <2>1, <2>2, OnIs, UnitFacts
<1>3. Wrt(u, T, u, T, P, f, 0)
  BY <1>1, AboveSelf DEF Wrt, SameBut
<1>4. /\ \E U : Wrt(u, T, w, U, P \union {q}, f, 0) /\ Grew(u, T, w, U, f.d) /\ Opened(u, w, U, q, f, 0)
      /\ Placeholder(w) = q + 1 /\ Count(w) = q + 3 /\ ByteAt(w, q) = JUMP
  <2>1. 0 \in Nat /\ f.d + 0 <= u.stackSlotNum
    BY <1>2
  <2> HIDE DEF f
  <2> QED
    BY <1>3, <2>1, WrtJump
<1>5. PICK U : Wrt(u, T, w, U, P \union {q}, f, 0) /\ Grew(u, T, w, U, f.d) /\ Opened(u, w, U, q, f, 0)
  BY <1>4
<1> HIDE DEF w
<1>6. Sound(w, U, P \union {q}) /\ U[Count(w)] = f /\ SameBut(u, w) /\ w \in UnitTypes
  BY <1>2, <1>5, WrtFacts
<1>7. Frame(w) = f /\ Alike(u, w)
  BY <1>6 DEF SameBut, Frame, Held, Alike
<1>8. ScopesOK(w, ss)
  BY <1>1, <1>6, ScopesSame
<1>9. Appends(u, ss, t, T, w, ss, U, P \union {q}, Len(u.localVars))
  BY <1>2, <1>5, <1>6, <1>7, <1>8 DEF Appends, SameBut
<1>10. Good(w, ss, t, U, P \union {q}, mk, jm, en)
  BY <1>9, GoodAppends
<1>11. q \in DOMAIN U /\ Lands(JUMP, U[q]) = f
  BY <1>2, <1>4, <1>5 DEF Opened
<1> QED
  BY <1>2, <1>4, <1>6, <1>10, <1>11 DEF w

\* The true branch ends, and the other one begins.
LEMMA ElseCompiles ==
  ASSUME NEW T, Compiles(T), Else
  PROVE  \E U : Compiling(U)'
<1> DEFINE w == LeaveScope(cu)
           skip == EmitInstrWithPlaceholder(w, JUMP)
           x == PatchPlaceholder(skip, Last(todo).at)
           y == EnterScope(x)
           fr == Front(scopes)
           tt == Append(fr, <<>>)
           b == [Last(todo) EXCEPT !.kind = "else", !.at = Placeholder(skip)]
           ft == Front(todo)
           q == Count(w)
<1>1. Compiling(T) /\ ReadingOK(cu, scopes, todo) /\ Nested(cu, scopes, todo) /\ Count(cu') < BYTE * BYTE
  BY DEF Compiles, Compiling
<1>2. /\ todo # <<>> /\ Last(todo).kind = "then" /\ cu' = y /\ todo' = Append(ft, b) /\ scopes' = tt
      /\ marks' = marks /\ jumps' = jumps /\ ends' = ends /\ ip' = ip /\ depth' = depth /\ open' = open
  BY DEF Else, machine
<1>3. Levels("then") = 1 /\ Levels("else") = 1 /\ "then" \in IfKinds /\ "else" \in IfKinds /\ "then" \notin LoopKinds
      /\ "else" \notin LoopKinds /\ "else" \in Kinds
  BY DEF Levels, IfKinds, LoopKinds, Kinds
<1>4. /\ Last(todo) \in TodoTypes /\ Last(todo).at \in Int /\ Last(todo).outer \in Nat /\ Last(todo).outer = Len(scopes) - 1
      /\ cu \in UnitTypes /\ Len(scopes) \in Nat
  BY <1>1, <1>2, <1>3, InnermostStatement
<1>5. todo \in Seq(TodoTypes) /\ Len(cu.upvalueNums) \in Nat /\ Len(cu.upvalueNums) <= Count(cu) /\ Count(cu) \in Nat
      /\ ft \in Seq(TodoTypes)
  BY <1>1, <1>2, <1>4, CompilingFacts, UnitFacts, LastIs DEF Compiling
<1>6. /\ \E U : Good(w, fr, todo, U, Waiting(w, todo), marks, jumps, ends)
      /\ w \in UnitTypes /\ w.loops = cu.loops /\ w.upvalueNums = cu.upvalueNums /\ w.isModule = cu.isModule
      /\ Count(w) \in Nat /\ Count(cu) <= Count(w) /\ Len(w.localVars) = UpTo(fr, Len(fr))
      /\ fr \in Blocks /\ Len(fr) = Len(scopes) - 1 /\ SameBases(cu, todo, scopes, fr)
  BY <1>1, <1>2, InnermostIsLeft
<1>7. PICK V : Good(w, fr, todo, V, Waiting(w, todo), marks, jumps, ends)
  BY <1>6
<1> HIDE DEF w, fr
<1>8. ScopesOK(w, fr) /\ Len(w.localVars) \in Nat
  BY <1>7, ScopesFacts DEF Good
<1>9. /\ \A j \in 1..Len(w.loops) : w.loops[j].scopeDepth + 1 \in 0..Len(fr)
      /\ \A i \in Ifs(todo) : todo[i].outer \in 0..Len(fr)
  BY <1>6 DEF SameBases
<1>10. SameBases(w, todo, fr, fr)
  BY <1>9 DEF SameBases
<1>11. \A j \in 1..Len(w.loops) : Base(fr, w.loops[j]) <= Len(w.localVars)
  <2>1. \A k \in 0..Len(fr) : UpTo(fr, k) \in 0..Len(w.localVars)
    BY <1>8, ScopesFacts
  <2>2. \A j \in 1..Len(w.loops) : Base(fr, w.loops[j]) \in 0..Len(w.localVars)
    BY <1>9, <2>1 DEF Base
  <2> QED
    BY <1>8, <2>2
<1> DEFINE O == Waiting(w, todo)
<1>12. /\ \E U : /\ Good(skip, fr, todo, U, O \union {q}, marks, jumps, ends)
                 /\ q \in DOMAIN U /\ ByteAt(skip, q) = JUMP /\ Lands(JUMP, U[q]) = Frame(w)
       /\ SameBut(w, skip) /\ skip \in UnitTypes /\ Placeholder(skip) = q + 1 /\ Count(skip) = q + 3
  <2>1. Good(w, fr, todo, V, O, marks, jumps, ends) /\ w \in UnitTypes /\ SameBases(w, todo, fr, fr)
        /\ \A j \in 1..Len(w.loops) : Base(fr, w.loops[j]) <= Len(w.localVars)
    BY <1>6, <1>7, <1>10, <1>11
  <2>2. LET w1 == EmitInstrWithPlaceholder(w, JUMP)
            q1 == Count(w)
        IN  /\ \E U : /\ Good(w1, fr, todo, U, O \union {q1}, marks, jumps, ends)
                      /\ q1 \in DOMAIN U /\ ByteAt(w1, q1) = JUMP /\ Lands(JUMP, U[q1]) = Frame(w)
            /\ SameBut(w, w1) /\ w1 \in UnitTypes /\ Placeholder(w1) = q1 + 1 /\ q1 \in Nat /\ Count(w1) = q1 + 3
    <3> HIDE DEF O, skip, q
    <3> QED
      BY ONLY <2>1, JumpIsAdded
  <2> QED
    BY <2>2
<1>13. PICK U : /\ Good(skip, fr, todo, U, O \union {q}, marks, jumps, ends)
                /\ q \in DOMAIN U /\ ByteAt(skip, q) = JUMP /\ Lands(JUMP, U[q]) = Frame(w)
  BY <1>12
<1> HIDE DEF skip
<1>14. O = Waiting(skip, todo) /\ skip.localVars = w.localVars /\ skip.loops = cu.loops /\ skip.upvalueNums = cu.upvalueNums
       /\ skip.isModule = cu.isModule
  BY <1>6, <1>12, WaitingSame DEF SameBut
<1>15. Count(skip) < BYTE * BYTE /\ Count(y) = Count(x)
  <2>1. x \in UnitTypes /\ Count(x) = Count(skip)
    BY <1>4, <1>12, CountsAre
  <2> HIDE DEF x
  <2>2. Count(y) = Count(x)
    BY <2>1, EnterScopeSame DEF Count
  <2> QED
    BY <1>1, <1>2, <2>1, <2>2
<1>16. /\ Good(x, fr, ft, U, Waiting(x, ft) \union {q}, marks, jumps, ends) /\ SameBut(skip, x) /\ Count(x) = Count(skip)
       /\ x.stackSlotNum = skip.stackSlotNum /\ \A a \in DOMAIN U : a < Count(skip) => ByteAt(x, a) = ByteAt(skip, a)
  <2>1. O \union {q} \subseteq Waiting(skip, todo) \union {q} /\ UpTo(fr, Last(todo).outer) = Len(skip.localVars)
        /\ Last(todo).kind \in IfKinds
    BY <1>2, <1>3, <1>4, <1>6, <1>14
  <2>2. Good(skip, fr, todo, U, O \union {q}, marks, jumps, ends)
    BY <1>13
  <2> DEFINE R == {q}
             P == O \union {q}
  <2>3. P \subseteq Waiting(skip, todo) \union R /\ Good(skip, fr, todo, U, P, marks, jumps, ends)
    BY <2>1, <2>2
  <2> HIDE DEF P, R
  <2>4. /\ Good(x, fr, ft, U, Waiting(x, ft) \union R, marks, jumps, ends) /\ SameBut(skip, x) /\ Count(x) = Count(skip)
        /\ x.stackSlotNum = skip.stackSlotNum /\ \A a \in DOMAIN U : a < Count(skip) => ByteAt(x, a) = ByteAt(skip, a)
    BY <1>2, <1>5, <1>15, <2>1, <2>3, BranchEnds
  <2> QED
    BY <2>4 DEF R
<1> HIDE DEF x
<1>17. x \in UnitTypes /\ x.localVars = w.localVars /\ x.loops = cu.loops /\ x.upvalueNums = cu.upvalueNums /\ x.isModule = cu.isModule
  BY <1>14, <1>16 DEF SameBut
<1>18. b \in TodoTypes /\ b.kind = "else" /\ b.at = q + 1 /\ b.outer = Len(fr) /\ b.at - 1 = q
  <2>1. q + 1 \in Int /\ (q + 1) - 1 = q
    BY <1>6
  <2>2. b = [Last(todo) EXCEPT !.kind = "else", !.at = q + 1]
    BY <1>12
  <2> HIDE DEF b, q
  <2>4. b \in TodoTypes /\ b.kind = "else" /\ b.at = q + 1 /\ b.outer = Last(todo).outer
    BY <1>3, <1>4, <2>1, <2>2 DEF TodoTypes
  <2> QED
    BY <1>4, <1>6, <2>1, <2>4
<1> HIDE DEF b
<1>19. IfOK(x, U, b.at - 1, UpTo(fr, b.outer))
  <2>1. q \in DOMAIN U /\ q < Count(skip) /\ q < Count(x)
    BY <1>6, <1>12, <1>13, <1>16
  <2>2. ByteAt(x, q) = JUMP
    BY <1>13, <1>16, <2>1
  <2>3. Lands(JUMP, U[q]).c = U[q].c
    BY DEF Lands
  <2>4. Held(x) = Held(w) /\ Frame(w).d = Len(w.localVars) /\ Frame(w).c = Held(w)
    BY <1>17 DEF Held, Frame
  <2>5. \A s \in Held(w) : s < Len(w.localVars)
    BY <1>8 DEF Held
  <2>6. Lands(JUMP, U[q]).d = Len(w.localVars) /\ \A s \in U[q].c : s \in Held(x) /\ s < Len(w.localVars)
    BY <1>13, <2>3, <2>4, <2>5
  <2>7. UpTo(fr, b.outer) = Len(w.localVars)
    BY <1>6, <1>18
  <2> QED
    BY <1>18, <2>1, <2>2, <2>6, <2>7 DEF IfOK, Pending
<1>20. b.at - 1 \notin DOMAIN jumps
  <2>1. JumpsOK(cu, todo, T, jumps, ends)
    BY <1>1 DEF Compiling, Good
  <2>2. \A a \in DOMAIN jumps : a < Count(cu)
    BY <2>1 DEF JumpsOK, JumpOK
  <2> QED
    BY <1>5, <1>6, <1>18, <2>2
<1> DEFINE nt == Append(ft, b)
<1>21. Good(x, fr, nt, U, Waiting(x, ft) \union {q}, marks, jumps, ends) /\ Waiting(x, nt) = Waiting(x, ft) \union {q}
  <2>1. b.kind \in IfKinds
    BY <1>3, <1>18
  <2> DEFINE P == Waiting(x, ft) \union {q}
  <2>2. Good(x, fr, ft, U, P, marks, jumps, ends)
    BY <1>16
  <2> HIDE DEF P
  <2>3. Good(x, fr, Append(ft, b), U, P, marks, jumps, ends) /\ Waiting(x, Append(ft, b)) = Waiting(x, ft) \union {b.at - 1}
    BY <1>5, <1>19, <1>20, <2>1, <2>2, GoodIf
  <2> QED
    BY <1>18, <2>3 DEF P
<1>22. Nested(x, fr, ft)
  <2>1. x.loops = (IF Last(todo).kind \in LoopKinds THEN Front(cu.loops) ELSE cu.loops) /\ Len(fr) = Last(todo).outer
    BY <1>2, <1>3, <1>4, <1>6, <1>17
  <2> QED
    BY <1>1, <1>2, <1>4, <1>5, <2>1, NestedLeave
<1>23. /\ y \in UnitTypes /\ y.code = x.code /\ y.localVars = x.localVars /\ y.loops = x.loops /\ y.upvalueNums = x.upvalueNums
       /\ y.isModule = x.isModule /\ y.stackSlotNum = x.stackSlotNum /\ y.maxSlots = x.maxSlots
  BY <1>17, EnterScopeSame
<1> HIDE DEF y
<1>24. ScopesOK(y, tt)
  <2>1. ReadingOK(cu', scopes', todo')
    BY <1>1, ElseReads
  <2> QED
    BY <1>2, <2>1 DEF ReadingOK
<1>25. tt \in Blocks /\ Len(tt) = Len(fr) + 1 /\ Len(fr) \in Nat /\ \A i \in 1..Len(fr) : tt[i] = fr[i]
  BY <1>6, EmptySeq, UpToAppend
<1> HIDE DEF tt, nt
<1>26. SameBases(x, nt, fr, tt)
  <2>1. \A j \in 1..Len(x.loops) : x.loops[j].scopeDepth + 1 \in 0..Len(fr)
    BY <1>6, <1>9, <1>17
  <2>2. \A i \in Ifs(nt) : nt[i].outer \in 0..Len(fr)
    <3>1. Ifs(nt) = Ifs(ft) \union {Len(ft) + 1} /\ nt[Len(ft) + 1] = b /\ \A i \in Ifs(ft) : nt[i] = ft[i]
      <4>1. \A c : /\ Ifs(Append(ft, c)) = Ifs(ft) \union (IF c.kind \in IfKinds THEN {Len(ft) + 1} ELSE {})
                   /\ \A i \in Ifs(ft) : Append(ft, c)[i] = ft[i] /\ i # Len(ft) + 1
                   /\ Append(ft, c)[Len(ft) + 1] = c
        <5> HIDE DEF ft
        <5> QED
          BY <1>5, IfsAre
      <4>2. b.kind \in IfKinds
        BY <1>3, <1>18
      <4> QED
        BY <4>1, <4>2 DEF nt
    <3>2. \A i \in Ifs(ft) : i \in Ifs(todo) /\ ft[i] = todo[i]
      BY <1>2, <1>5, IfsAre
    <3>3. Len(fr) \in 0..Len(fr)
      BY <1>25
    <3> QED
      BY <1>9, <1>18, <3>1, <3>2, <3>3
  <2>3. Len(fr) <= Len(fr) /\ Len(fr) <= Len(tt) /\ \A i \in 1..Len(fr) : fr[i] = tt[i]
    BY <1>25
  <2> QED
    BY <1>6, <1>25, <2>1, <2>2, <2>3, BasesSame
<1>27. Good(y, tt, nt, U, Waiting(y, nt), marks, jumps, ends)
  <2> DEFINE P == Waiting(x, nt)
  <2>1. Waiting(y, nt) = P
    BY <1>23, WaitingSame
  <2>2. Good(x, fr, nt, U, P, marks, jumps, ends)
    BY <1>21
  <2> HIDE DEF P
  <2>3. Sound(x, U, P) /\ U[Count(x)].d <= x.stackSlotNum /\ x.stackSlotNum <= x.maxSlots
    BY <2>2 DEF Good, Sound, RoomOK
  <2>4. Sound(y, U, P)
    BY <1>23, <2>3, SoundSame
  <2>5. Good(y, tt, nt, U, P, marks, jumps, ends)
    BY <1>23, <1>24, <1>26, <2>2, <2>4, GoodSame
  <2> QED
    BY <2>1, <2>5
<1>28. Nested(y, tt, nt)
  <2>1. Len(tt) = Len(fr) + Levels(b.kind) /\ b.kind \notin LoopKinds
    BY <1>3, <1>18, <1>25
  <2> QED
    BY <1>5, <1>6, <1>17, <1>18, <1>22, <1>23, <2>1, NestedEnter DEF nt
<1>29. Len(y.upvalueNums) <= Count(y)
  BY <1>5, <1>6, <1>12, <1>15, <1>16, <1>17, <1>23
<1>30. ip = 0 /\ depth = 0 /\ open = {}
  BY <1>1 DEF Compiling
<1>31. todo' = nt
  BY <1>2 DEF nt
<1>32. Good(cu', scopes', todo', U, Waiting(cu', todo'), marks', jumps', ends') /\ Nested(cu', scopes', todo')
       /\ Len(cu'.upvalueNums) <= Count(cu')
  BY <1>2, <1>27, <1>28, <1>29, <1>31 DEF tt, y
<1> QED
  BY <1>2, <1>30, <1>32 DEF Compiling

-----------------------------------------------------------------------------
\* leaveLoopPatch() adds the jump back.
LEMMA LoopPatchCount ==
  ASSUME NEW u \in UnitTypes, u.loops # <<>>
  PROVE  LeaveLoopPatch(u) \in UnitTypes /\ Count(LeaveLoopPatch(u)) = Count(u) + 3
<1> DEFINE back == JumpBack(u)
           exited == PatchPlaceholder(back, Last(u.loops).exitIndex)
           breaks == BreaksFrom(exited, Last(u.loops).bodyStartIndex)
           broken == PatchBreaks(exited, breaks)
<1>1. LeaveLoopPatch(u) = [broken EXCEPT !.loops = Front(broken.loops)]
  BY DEF LeaveLoopPatch
<1>2. back \in UnitTypes /\ Count(back) = Count(u) + 3 /\ Last(u.loops).exitIndex \in Int
  <2>1. Last(u.loops) \in LoopTypes
    BY JumpBackIs
  <2>2. Last(u.loops).exitIndex \in Int /\ Last(u.loops).condStartIndex \in Int /\ Count(u) \in Int
    BY <2>1, UnitFacts DEF LoopTypes
  <2>3. LOOP \in Opcodes /\ Count(u) - Last(u.loops).condStartIndex + 2 \in Int
    BY <2>2, OpcodeTypes
  <2> QED
    BY <2>2, <2>3, CountsAre DEF JumpBack
<1> HIDE DEF back
<1>3. exited \in UnitTypes /\ Count(exited) = Count(back)
  BY <1>2, CountsAre
<1> HIDE DEF exited
<1>4. broken \in UnitTypes /\ Count(broken) = Count(exited)
  BY <1>3, PatchBreaksIs DEF SameBut, Count
<1> HIDE DEF broken
<1>5. LeaveLoopPatch(u).code = broken.code
  BY <1>1, <1>4 DEF UnitTypes
<1>6. LeaveLoopPatch(u) \in UnitTypes
  BY LeaveLoopPatchKeeps DEF SameVariables
<1> QED
  BY <1>2, <1>3, <1>4, <1>5, <1>6 DEF Count

\* The loop that the last statement of t opened ends.
LEMMA LoopLeft ==
  ASSUME NEW u, NEW ss, NEW t \in Seq(TodoTypes), NEW T, NEW mk, NEW jm, NEW en,
         Good(u, ss, t, T, Waiting(u, t), mk, jm, en),
         t # <<>>, Last(t).kind \in LoopKinds, u.loops # <<>>, SameBases(u, t, ss, ss),
         Last(u.loops).scopeDepth + 1 = Len(ss), Start(Last(u.loops)) = Last(t).at,
         Count(LeaveLoopPatch(u)) < BYTE * BYTE
  PROVE  LET v == LeaveLoopPatch(u)
             fin == Noted(en, Last(t).at, Count(v))
         IN  /\ \E U : Good(v, ss, Front(t), U, Waiting(v, Front(t)), mk, jm, fin)
             /\ v \in UnitTypes /\ v.loops = Front(u.loops) /\ v.upvalueNums = u.upvalueNums /\ v.isModule = u.isModule
             /\ v.localVars = u.localVars /\ Count(v) = Count(u) + 3 /\ Count(v) \in Nat
<1> DEFINE v == LeaveLoopPatch(u)
           fin == Noted(en, Last(t).at, Count(v))
           r == Front(t)
<1>1. /\ Sound(u, T, Waiting(u, t)) /\ T[Count(u)] = Frame(u) /\ ScopesOK(u, ss) /\ Shape(u, ss, t, T)
      /\ JumpsOK(u, t, T, jm, en) /\ MarksOK(T, mk) /\ T[0].d = IF u.isModule THEN 0 ELSE 1
  BY DEF Good
<1>2. u \in UnitTypes /\ 0 \in DOMAIN T
  BY <1>1, SoundFacts
<1>3. v \in UnitTypes /\ Count(v) = Count(u) + 3 /\ Count(u) + 3 < BYTE * BYTE /\ Count(v) \in Nat
  <2>1. v \in UnitTypes /\ Count(v) = Count(u) + 3
    BY <1>2, LoopPatchCount
  <2> QED
    BY <2>1, UnitFacts
<1>4. Base(ss, Last(u.loops)) = Len(u.localVars)
  BY <1>1, ScopesFacts DEF Base
<1>5. LoopEnds(u, ss, t, T, jm, en)
  BY <1>1, <1>3, <1>4 DEF LoopEnds
<1>6. /\ SameVariables(u, v) /\ v.loops = Front(u.loops)
      /\ \E U : /\ Sound(v, U, Waiting(v, r)) /\ U[Count(v)] = Frame(v)
                /\ Shape(v, ss, r, U) /\ JumpsOK(v, r, U, jm, fin)
                /\ DOMAIN T \subseteq DOMAIN U /\ \A a \in DOMAIN T : U[a] = T[a]
  BY <1>5, LoopIsLeft
<1>7. PICK U : /\ Sound(v, U, Waiting(v, r)) /\ U[Count(v)] = Frame(v)
               /\ Shape(v, ss, r, U) /\ JumpsOK(v, r, U, jm, fin)
               /\ DOMAIN T \subseteq DOMAIN U /\ \A a \in DOMAIN T : U[a] = T[a]
  BY <1>6
<1> HIDE DEF v, fin, r
<1>8. ScopesOK(v, ss)
  BY <1>1, <1>6, ScopesSameVariables
<1>9. MarksOK(U, mk)
  BY <1>1, <1>7 DEF MarksOK
<1>10. U[0].d = IF v.isModule THEN 0 ELSE 1
  BY <1>1, <1>2, <1>6, <1>7 DEF SameVariables
<1>11. Good(v, ss, r, U, Waiting(v, r), mk, jm, fin)
  BY <1>7, <1>8, <1>9, <1>10 DEF Good
<1>12. v.upvalueNums = u.upvalueNums /\ v.isModule = u.isModule /\ v.localVars = u.localVars
  BY <1>6 DEF SameVariables
<1> QED
  BY <1>3, <1>6, <1>11, <1>12 DEF v, fin, r

LEMMA EndWhileCompiles ==
  ASSUME NEW T, Compiles(T), EndWhile
  PROVE  \E U : Compiling(U)'
<1> DEFINE w == LeaveScope(cu)
           v == LeaveLoopPatch(w)
           fr == Front(scopes)
           tt == SubSeq(scopes, 1, Last(todo).outer)
<1>1. Leaving(T, "while", v, tt) /\ ends' = Noted(ends, Last(todo).at, Count(v))
  BY DEF Leaving, EndWhile
<1>2. Levels("while") = 1 /\ "while" \in LoopKinds /\ "while" # "for"
  BY DEF Levels, LoopKinds
<1> HIDE DEF w, tt
<1>3. /\ Compiling(T) /\ ReadingOK(cu, scopes, todo) /\ Nested(cu, scopes, todo)
      /\ todo # <<>> /\ Last(todo).kind = "while" /\ todo \in Seq(TodoTypes) /\ cu \in UnitTypes
      /\ Last(todo).outer \in Nat /\ Last(todo).outer = Len(scopes) - Levels("while") /\ Count(cu) \in Nat
      /\ Len(cu.upvalueNums) \in Nat /\ Len(cu.upvalueNums) <= Count(cu) /\ cu' = v
  BY <1>1, LeavingFacts
<1>4. /\ \E U : Good(w, fr, todo, U, Waiting(w, todo), marks, jumps, ends)
      /\ w \in UnitTypes /\ w.loops = cu.loops /\ w.upvalueNums = cu.upvalueNums
      /\ Count(w) \in Nat /\ Count(cu) <= Count(w)
      /\ fr = SubSeq(scopes, 1, Len(scopes) - 1) /\ Len(fr) = Len(scopes) - 1 /\ SameBases(cu, todo, scopes, fr)
  BY <1>3, InnermostIsLeft DEF w
<1>5. tt = fr /\ Len(fr) = Last(todo).outer
  BY <1>2, <1>3, <1>4 DEF tt
<1> HIDE DEF fr
<1>6. PICK U : Good(w, fr, todo, U, Waiting(w, todo), marks, jumps, ends)
  BY <1>4
<1>7. w.loops # <<>> /\ Last(w.loops).scopeDepth + 1 = Len(fr) /\ Start(Last(w.loops)) = Last(todo).at
  <2>1. cu.loops # <<>> /\ LoopAt(todo, Len(todo), Last(cu.loops)) /\ Last(todo) = todo[Len(todo)]
    BY <1>2, <1>3, InnermostLoop
  <2>2. /\ Start(Last(cu.loops)) = Last(todo).at
        /\ Last(cu.loops).scopeDepth + 1 = Last(todo).outer + 0
    BY <1>2, <1>3, <2>1 DEF LoopAt
  <2> QED
    BY <1>3, <1>4, <1>5, <2>1, <2>2
<1>8. SameBases(w, todo, fr, fr)
  BY <1>4 DEF SameBases
<1>9. Count(v) < BYTE * BYTE
  <2>1. Count(cu') < BYTE * BYTE
    BY DEF Compiles
  <2> QED
    BY <1>3, <2>1
<1>10. /\ \E X : Good(v, fr, Front(todo), X, Waiting(v, Front(todo)), marks, jumps, Noted(ends, Last(todo).at, Count(v)))
       /\ v.loops = Front(cu.loops) /\ v.upvalueNums = cu.upvalueNums /\ Count(v) = Count(w) + 3
  BY <1>2, <1>3, <1>4, <1>6, <1>7, <1>8, <1>9, LoopLeft
<1> HIDE DEF v
<1>11. PICK X : Good(v, fr, Front(todo), X, Waiting(v, Front(todo)), marks, jumps, ends')
  BY <1>1, <1>10
<1>12. Len(v.upvalueNums) <= Count(v) /\ v.loops = (IF "while" \in LoopKinds THEN Front(cu.loops) ELSE cu.loops)
  BY <1>2, <1>3, <1>4, <1>10
<1> QED
  BY <1>1, <1>5, <1>11, <1>12, LeavingCompiles

-----------------------------------------------------------------------------
\* leaveScope() only adds to the code.
LEMMA LeaveScopeGrows ==
  ASSUME NEW u, NEW tt \in Blocks, NEW b \in Seq(Names), ScopesOK(u, Append(tt, b)), u.isModule \/ Len(tt) > 0
  PROVE  Count(u) <= Count(LeaveScope(u)) /\ Count(LeaveScope(u)) \in Nat
<1> DEFINE w == LeaveScope(u)
           x == DiscardLocalVar(u, u.scopeDepth)
<1>1. w \in UnitTypes /\ w.code = IF u.isModule THEN u.code ELSE x.code
  BY LeaveScopeLeaves
<1>2. u \in UnitTypes /\ u.scopeDepth \in Int
  BY ScopesFacts, UnitFacts
<1> HIDE DEF w
<1>3. Discards(u, u.scopeDepth) \in Seq(Int) /\ x \in UnitTypes /\ x.code = u.code \o Discards(u, u.scopeDepth)
  BY <1>2, DiscardLocalVarIs DEF Wrote, SameBut
<1> HIDE DEF x
<1>4. Count(u) \in Nat /\ Count(w) \in Nat /\ Count(u) <= Count(x)
  <2>1. Count(u) \in Nat /\ Count(w) \in Nat
    BY <1>1, <1>2, UnitFacts
  <2>2. Count(x) = Count(u) + Len(Discards(u, u.scopeDepth)) /\ Len(Discards(u, u.scopeDepth)) \in Nat
    BY <1>2, <1>3, AppendedIs
  <2> QED
    BY <2>1, <2>2
<1> QED
  BY <1>1, <1>4 DEF w, Count

\* The loops and tests do not go into the innermost block, which is left.
LEMMA OneMoreIsLeft ==
  ASSUME NEW u, NEW ss \in Blocks, NEW t, NEW T, NEW P, NEW mk, NEW jm, NEW en, Good(u, ss, t, T, P, mk, jm, en),
         NEW k \in Nat, Len(ss) = k + 1, u.isModule \/ k > 0,
         \A j \in 1..Len(u.loops) : u.loops[j].scopeDepth + 1 \in 0..k, \A i \in Ifs(t) : t[i].outer \in 0..k
  PROVE  LET w == LeaveScope(u)
             fr == Front(ss)
         IN  /\ \E U : Good(w, fr, t, U, P, mk, jm, en)
             /\ w \in UnitTypes /\ w.loops = u.loops /\ w.upvalueNums = u.upvalueNums /\ w.isModule = u.isModule
             /\ Count(w) \in Nat /\ Count(u) <= Count(w)
             /\ fr \in Blocks /\ Len(fr) = k /\ \A i \in 1..k : fr[i] = ss[i]
<1> DEFINE w == LeaveScope(u)
           fr == Front(ss)
           b == Last(ss)
<1>1. ss \in Seq(Seq(Names)) /\ ss # <<>>
  BY DEF Blocks
<1>2. fr \in Blocks /\ Len(fr) = k /\ b \in Seq(Names) /\ ss = Append(fr, b) /\ \A i \in 1..k : fr[i] = ss[i]
  <2>1. /\ fr \in Seq(Seq(Names)) /\ Len(fr) = Len(ss) - 1 /\ b \in Seq(Names) /\ ss = Append(fr, b)
        /\ \A i \in 1..Len(ss) - 1 : fr[i] = ss[i]
    BY <1>1, LastIs
  <2>2. Len(ss) - 1 = k
    OBVIOUS
  <2> QED
    BY <2>1, <2>2 DEF Blocks
<1> HIDE DEF fr, b
<1>3. u.isModule \/ Len(fr) > 0
  BY <1>2
<1>4. SameBases(u, t, ss, fr)
  <2>1. k <= Len(ss) /\ k <= Len(fr) /\ \A i \in 1..k : ss[i] = fr[i]
    BY <1>2
  <2> QED
    BY <1>2, <2>1, BasesSame
<1>5. \A j \in 1..Len(u.loops) : Base(ss, u.loops[j]) <= UpTo(fr, Len(fr))
  <2>1. \A x \in 0..k : UpTo(fr, x) <= UpTo(fr, k)
    <3>1. \A x, y \in 0..Len(fr) : x <= y => UpTo(fr, x) <= UpTo(fr, y)
      BY <1>2, UpToFacts
    <3> QED
      BY <1>2, <3>1
  <2>2. \A j \in 1..Len(u.loops) : Base(fr, u.loops[j]) <= UpTo(fr, k)
    BY <2>1 DEF Base
  <2>3. \A j \in 1..Len(u.loops) : Base(ss, u.loops[j]) = Base(fr, u.loops[j])
    BY <1>4 DEF SameBases
  <2> QED
    BY <1>2, <2>2, <2>3
<1>6. Good(u, Append(fr, b), t, T, P, mk, jm, en) /\ SameBases(u, t, Append(fr, b), fr)
      /\ \A j \in 1..Len(u.loops) : Base(Append(fr, b), u.loops[j]) <= UpTo(fr, Len(fr))
  BY <1>2, <1>4, <1>5
<1>7. /\ \E U : Good(w, fr, t, U, P, mk, jm, en)
      /\ w \in UnitTypes /\ w.loops = u.loops /\ w.upvalueNums = u.upvalueNums /\ w.isModule = u.isModule
      /\ Count(w) \in Nat /\ Count(u) <= Count(w)
  BY <1>2, <1>3, <1>6, ScopeIsLeft
<1> QED
  BY <1>2, <1>7 DEF fr

\* The blocks of a for statement: its loop is in the second one, everything else in those around it.
LEMMA ForNests ==
  ASSUME NEW T, Compiling(T), ReadingOK(cu, scopes, todo), todo # <<>>, Last(todo).kind = "for"
  PROVE  LET o == Last(todo).outer
             l == Last(cu.loops)
         IN  /\ cu.loops # <<>> /\ cu.loops \in Seq(LoopTypes) /\ l.scopeDepth + 1 = o + 1 /\ Start(l) = Last(todo).at
             /\ o \in Nat /\ Len(scopes) = o + 3 /\ (cu.isModule \/ o > 0)
             /\ \A j \in 1..Len(cu.loops) : cu.loops[j].scopeDepth + 1 \in 0..o + 1
             /\ \A j \in 1..Len(Front(cu.loops)) : Front(cu.loops)[j].scopeDepth + 1 \in 0..o
             /\ \A i \in Ifs(todo) : todo[i].outer \in 0..o
             /\ \A i \in Ifs(Front(todo)) : Front(todo)[i].outer \in 0..o
<1> DEFINE o == Last(todo).outer
           l == Last(cu.loops)
           tt == SubSeq(scopes, 1, o)
           w == [cu EXCEPT !.loops = Front(cu.loops)]
<1>1. /\ Nested(cu, scopes, todo) /\ cu \in UnitTypes /\ scopes \in Blocks /\ todo \in Seq(TodoTypes)
      /\ Last(todo) \in TodoTypes /\ o \in Nat /\ o = Len(scopes) - Levels(Last(todo).kind) /\ Len(scopes) \in Nat
      /\ (cu.isModule \/ o > 0)
  BY InnermostStatement, CompilingFacts DEF Compiling
<1>2. Levels("for") = 3 /\ "for" \in LoopKinds /\ "for" \notin {"then", "else"}
  BY DEF Levels, LoopKinds
<1>3. Len(scopes) = o + 3
  BY <1>1, <1>2
<1>4. cu.loops # <<>> /\ LoopAt(todo, Len(todo), l) /\ Last(todo) = todo[Len(todo)]
  BY <1>1, <1>2, InnermostLoop
<1>5. l.scopeDepth + 1 = o + 1 /\ Start(l) = Last(todo).at
  BY <1>4 DEF LoopAt
<1>6. cu.loops \in Seq(LoopTypes) /\ Front(cu.loops) \in Seq(LoopTypes) /\ l \in LoopTypes
  BY <1>1, <1>4, UnitFacts, LastIs
<1>7. \A j \in 1..Len(cu.loops) : cu.loops[j].scopeDepth + 1 \in 0..o + 1
  <2>1. \A j \in 1..Len(cu.loops) : cu.loops[j].scopeDepth + 1 \in Nat /\ cu.loops[j].scopeDepth <= l.scopeDepth
    BY <1>1, NestedFacts
  <2>2. \A j \in 1..Len(cu.loops) : cu.loops[j].scopeDepth \in Int
    <3>1. \A j \in 1..Len(cu.loops) : cu.loops[j] \in LoopTypes
      BY <1>6
    <3> QED
      BY <3>1 DEF LoopTypes
  <2>3. l.scopeDepth \in Int /\ o + 1 \in Int
    BY <1>1, <1>6 DEF LoopTypes
  <2>4. \A x, y, z \in Int : x <= y /\ y + 1 = z /\ x + 1 \in Nat => x + 1 \in 0..z
    OBVIOUS
  <2> QED
    BY <1>5, <2>1, <2>2, <2>3, <2>4
<1>8. w \in UnitTypes /\ w.loops = Front(cu.loops)
  BY <1>1, <1>6 DEF UnitTypes
<1>9. tt \in Blocks /\ Len(tt) = o
  <2>1. o \in 0..Len(scopes)
    BY <1>1, <1>3
  <2> QED
    BY <1>1, <2>1, SubSeqIs DEF Blocks
<1> HIDE DEF w, tt
<1>10. Nested(w, tt, Front(todo)) /\ Front(todo) \in Seq(TodoTypes)
  BY <1>1, <1>2, <1>8, <1>9, NestedLeave, LastIs
<1>11. /\ \A j \in 1..Len(w.loops) : w.loops[j].scopeDepth + 1 \in Nat /\ w.loops[j].scopeDepth + 2 <= o
       /\ \A i \in Ifs(Front(todo)) : Front(todo)[i].outer \in Nat /\ Front(todo)[i].outer + 1 <= o
  <2>1. /\ \A j \in 1..Len(w.loops) : w.loops[j].scopeDepth + 1 \in Nat /\ w.loops[j].scopeDepth + 2 <= Len(tt)
        /\ \A i \in Ifs(Front(todo)) : Front(todo)[i].outer \in Nat /\ Front(todo)[i].outer + 1 <= Len(tt)
    BY <1>8, <1>9, <1>10, NestedFacts
  <2> QED
    BY <1>9, <2>1
<1>12. \A j \in 1..Len(Front(cu.loops)) : Front(cu.loops)[j].scopeDepth + 1 \in 0..o
  <2>1. \A j \in 1..Len(Front(cu.loops)) : Front(cu.loops)[j].scopeDepth \in Int
    <3>1. \A j \in 1..Len(Front(cu.loops)) : Front(cu.loops)[j] \in LoopTypes
      BY <1>6
    <3> QED
      BY <3>1 DEF LoopTypes
  <2>2. \A x \in Int : x + 2 <= o /\ x + 1 \in Nat => x + 1 \in 0..o
    BY <1>1
  <2> QED
    BY <1>8, <1>11, <2>1, <2>2
<1>13. \A i \in Ifs(Front(todo)) : Front(todo)[i].outer \in 0..o
  BY <1>1, <1>11
<1>14. Ifs(Front(todo)) = Ifs(todo) /\ \A i \in Ifs(Front(todo)) : Front(todo)[i] = todo[i]
  BY <1>1, <1>2, IfsAre DEF IfKinds
<1>15. \A i \in Ifs(todo) : todo[i].outer \in 0..o
  BY <1>13, <1>14
<1> QED
  BY <1>1, <1>3, <1>4, <1>5, <1>6, <1>7, <1>12, <1>13, <1>15


LEMMA EndForCompiles ==
  ASSUME NEW T, Compiles(T), EndFor
  PROVE  \E U : Compiling(U)'
<1> DEFINE w == LeaveScope(cu)
           x == LeaveScope(w)
           v == LeaveLoopPatch(x)
           e == LeaveScope(v)
           fr == Front(scopes)
           gr == Front(fr)
           hr == Front(gr)
           tt == SubSeq(scopes, 1, Last(todo).outer)
           o == Last(todo).outer
           fin == Noted(ends, Last(todo).at, Count(v))
<1>1. Leaving(T, "for", e, tt) /\ ends' = fin
  BY DEF Leaving, EndFor
<1>2. "for" \in LoopKinds
  BY DEF LoopKinds
<1>3. /\ Compiling(T) /\ ReadingOK(cu, scopes, todo) /\ todo # <<>> /\ Last(todo).kind = "for"
      /\ todo \in Seq(TodoTypes) /\ Count(cu) \in Nat /\ tt \in Blocks /\ Len(tt) = o /\ scopes \in Blocks
      /\ Len(cu.upvalueNums) \in Nat /\ Len(cu.upvalueNums) <= Count(cu) /\ cu' = e
  <2> HIDE DEF e, tt
  <2> QED
    BY <1>1, LeavingFacts
<1>4. /\ cu.loops # <<>> /\ cu.loops \in Seq(LoopTypes) /\ Last(cu.loops).scopeDepth + 1 = o + 1 /\ Start(Last(cu.loops)) = Last(todo).at
      /\ o \in Nat /\ Len(scopes) = o + 3 /\ (cu.isModule \/ o > 0)
      /\ \A j \in 1..Len(cu.loops) : cu.loops[j].scopeDepth + 1 \in 0..o + 1
      /\ \A j \in 1..Len(Front(cu.loops)) : Front(cu.loops)[j].scopeDepth + 1 \in 0..o
      /\ \A i \in Ifs(todo) : todo[i].outer \in 0..o
      /\ \A i \in Ifs(Front(todo)) : Front(todo)[i].outer \in 0..o
  BY <1>3, ForNests
\* The block of the body.
<1>5. /\ \E U : Good(w, fr, todo, U, Waiting(w, todo), marks, jumps, ends)
      /\ w \in UnitTypes /\ w.loops = cu.loops /\ w.upvalueNums = cu.upvalueNums /\ w.isModule = cu.isModule
      /\ Count(w) \in Nat /\ Count(cu) <= Count(w)
      /\ fr \in Blocks /\ Len(fr) = Len(scopes) - 1 /\ \A i \in 1..Len(fr) : fr[i] = scopes[i]
  BY <1>3, InnermostIsLeft
<1> HIDE DEF w, fr
<1>6. PICK U : Good(w, fr, todo, U, Waiting(w, todo), marks, jumps, ends)
  BY <1>5
\* The scope of the loop variable.
<1>7. /\ \E X : Good(x, gr, todo, X, Waiting(x, todo), marks, jumps, ends)
      /\ x \in UnitTypes /\ x.loops = cu.loops /\ x.upvalueNums = cu.upvalueNums /\ x.isModule = cu.isModule
      /\ Count(x) \in Nat /\ Count(w) <= Count(x)
      /\ gr \in Blocks /\ Len(gr) = o + 1 /\ \A i \in 1..o + 1 : gr[i] = fr[i]
  <2> DEFINE P == Waiting(w, todo)
             k == o + 1
  <2>1. k \in Nat /\ Len(fr) = k + 1 /\ k > 0
    BY <1>4, <1>5
  <2>2. \A j \in 1..Len(w.loops) : w.loops[j].scopeDepth + 1 \in 0..k
    BY <1>4, <1>5
  <2>3. \A i \in Ifs(todo) : todo[i].outer \in 0..k
    BY <1>4
  <2>4. Good(w, fr, todo, U, P, marks, jumps, ends)
    BY <1>6
  <2> HIDE DEF P, k
  <2>5. /\ \E X : Good(x, gr, todo, X, P, marks, jumps, ends)
        /\ x \in UnitTypes /\ x.loops = w.loops /\ x.upvalueNums = w.upvalueNums /\ x.isModule = w.isModule
        /\ Count(x) \in Nat /\ Count(w) <= Count(x)
        /\ gr \in Blocks /\ Len(gr) = k /\ \A i \in 1..k : gr[i] = fr[i]
    <3>1. /\ fr \in Blocks /\ k \in Nat /\ Len(fr) = k + 1 /\ (w.isModule \/ k > 0)
          /\ \A j \in 1..Len(w.loops) : w.loops[j].scopeDepth + 1 \in 0..k
          /\ \A i \in Ifs(todo) : todo[i].outer \in 0..k
          /\ Good(w, fr, todo, U, P, marks, jumps, ends)
      BY <1>5, <2>1, <2>2, <2>3, <2>4
    <3> QED
      BY ONLY <3>1, OneMoreIsLeft
  <2>6. Waiting(x, todo) = P
    BY <2>5, WaitingSame DEF P
  <2> QED
    BY <1>5, <2>5, <2>6 DEF k
<1> HIDE DEF x, gr
<1>8. PICK X : Good(x, gr, todo, X, Waiting(x, todo), marks, jumps, ends)
  BY <1>7
\* The loop.
<1>9. SameBases(x, todo, gr, gr)
  <2>1. \A j \in 1..Len(x.loops) : x.loops[j].scopeDepth + 1 \in 0..Len(gr)
    BY <1>4, <1>7
  <2>2. \A i \in Ifs(todo) : todo[i].outer \in 0..Len(gr)
    BY <1>4, <1>7
  <2> QED
    BY <2>1, <2>2 DEF SameBases
<1>10. Count(e) < BYTE * BYTE
  BY <1>3 DEF Compiles
<1>11. v \in UnitTypes /\ v.loops = Front(cu.loops) /\ v.isModule = cu.isModule /\ Count(v) = Count(x) + 3
  <2>1. x.loops # <<>>
    BY <1>4, <1>7
  <2>2. SameVariables(x, v) /\ v.loops = Front(x.loops)
    BY <1>7, <2>1, LeaveLoopPatchKeeps
  <2>3. v \in UnitTypes /\ Count(v) = Count(x) + 3
    BY <1>7, <2>1, LoopPatchCount
  <2> QED
    BY <1>7, <2>2, <2>3 DEF SameVariables
<1>12. ScopesOK(v, gr) /\ gr = Append(hr, Last(gr)) /\ hr \in Blocks /\ Last(gr) \in Seq(Names) /\ Len(hr) = o
       /\ \A i \in 1..o : hr[i] = gr[i]
  <2>1. x.loops # <<>>
    BY <1>4, <1>7
  <2>2. SameVariables(x, v)
    BY <1>7, <2>1, LeaveLoopPatchKeeps
  <2>3. gr \in Seq(Seq(Names)) /\ gr # <<>>
    BY <1>4, <1>7 DEF Blocks
  <2>4. /\ gr = Append(hr, Last(gr)) /\ hr \in Seq(Seq(Names)) /\ Last(gr) \in Seq(Names) /\ Len(hr) = Len(gr) - 1
        /\ \A i \in 1..Len(gr) - 1 : hr[i] = gr[i]
    BY <2>3, LastIs
  <2>5. Len(gr) - 1 = o
    BY <1>4, <1>7
  <2>6. ScopesOK(v, gr)
    BY <1>8, <2>2, ScopesSameVariables DEF Good
  <2> QED
    BY <2>4, <2>5, <2>6 DEF Blocks
<1>13. Count(v) < BYTE * BYTE
  <2>1. ScopesOK(v, Append(hr, Last(gr))) /\ (v.isModule \/ Len(hr) > 0)
    BY <1>4, <1>11, <1>12
  <2>2. Count(v) <= Count(e) /\ Count(e) \in Nat
    BY <1>12, <2>1, LeaveScopeGrows
  <2>3. Count(v) \in Nat
    BY <1>11, UnitFacts
  <2>4. BYTE * BYTE \in Nat
    BY ByteFacts
  <2> QED
    BY <1>10, <2>2, <2>3, <2>4
<1>14. /\ \E Y : Good(v, gr, Front(todo), Y, Waiting(v, Front(todo)), marks, jumps, fin)
       /\ v.upvalueNums = cu.upvalueNums /\ Count(v) \in Nat
  <2>1. Last(x.loops).scopeDepth + 1 = Len(gr) /\ Start(Last(x.loops)) = Last(todo).at /\ x.loops # <<>> /\ Last(todo).kind \in LoopKinds
    BY <1>2, <1>3, <1>4, <1>7
  <2>2. /\ \E Y : Good(v, gr, Front(todo), Y, Waiting(v, Front(todo)), marks, jumps, fin)
        /\ v.upvalueNums = x.upvalueNums /\ Count(v) \in Nat
    BY <1>3, <1>8, <1>9, <1>13, <2>1, LoopLeft
  <2> QED
    BY <1>7, <2>2
<1> HIDE DEF v, fin
<1>15. PICK Y : Good(v, gr, Front(todo), Y, Waiting(v, Front(todo)), marks, jumps, fin)
  BY <1>14
\* The scope of the sequence and the iterator.
<1>16. /\ \E Z : Good(e, hr, Front(todo), Z, Waiting(e, Front(todo)), marks, jumps, fin)
       /\ e.loops = Front(cu.loops) /\ e.upvalueNums = cu.upvalueNums /\ Count(e) \in Nat /\ Count(v) <= Count(e)
  <2> DEFINE P == Waiting(v, Front(todo))
  <2>1. Good(v, gr, Front(todo), Y, P, marks, jumps, fin)
    BY <1>15
  <2>2. \A j \in 1..Len(v.loops) : v.loops[j].scopeDepth + 1 \in 0..o
    BY <1>4, <1>11
  <2>3. \A i \in Ifs(Front(todo)) : Front(todo)[i].outer \in 0..o
    BY <1>4
  <2>4. v.isModule \/ o > 0
    BY <1>4, <1>11
  <2> HIDE DEF P, e
  <2>5. /\ \E Z : Good(LeaveScope(v), hr, Front(todo), Z, P, marks, jumps, fin)
        /\ LeaveScope(v).loops = v.loops /\ LeaveScope(v).upvalueNums = v.upvalueNums
        /\ Count(LeaveScope(v)) \in Nat /\ Count(v) <= Count(LeaveScope(v))
    BY <1>4, <1>7, <2>1, <2>2, <2>3, <2>4, OneMoreIsLeft
  <2>6. /\ \E Z : Good(e, hr, Front(todo), Z, P, marks, jumps, fin)
        /\ e.loops = v.loops /\ e.upvalueNums = v.upvalueNums /\ Count(e) \in Nat /\ Count(v) <= Count(e)
    BY <2>5 DEF e
  <2>7. Waiting(e, Front(todo)) = P
    BY <2>6, WaitingSame DEF P
  <2> QED
    BY <1>11, <1>14, <2>6, <2>7
<1>17. hr = tt
  <2>1. tt \in Seq(Seq(Names)) /\ hr \in Seq(Seq(Names)) /\ Len(tt) = o /\ Len(hr) = o
    BY <1>3, <1>12 DEF Blocks
  <2>2. \A i \in 1..o : tt[i] = scopes[i]
    <3>1. o \in 0..Len(scopes)
      BY <1>4
    <3>2. scopes \in Seq(Seq(Names))
      BY <1>3 DEF Blocks
    <3> QED
      BY <3>1, <3>2, SubSeqIs
  <2>3. \A i \in 1..o : i \in 1..o + 1 /\ i \in 1..Len(fr)
    BY <1>4, <1>5
  <2>4. \A i \in 1..o : hr[i] = scopes[i]
    BY <1>5, <1>7, <1>12, <2>3
  <2> HIDE DEF tt, hr
  <2>5. \A i \in 1..o : tt[i] = hr[i]
    BY <2>2, <2>4
  <2> QED
    BY <2>1, <2>5, SeqEqual
<1> HIDE DEF e, tt, hr
<1>18. PICK Z : Good(e, tt, Front(todo), Z, Waiting(e, Front(todo)), marks, jumps, ends')
  BY <1>1, <1>16, <1>17
<1>19. e.loops = (IF "for" \in LoopKinds THEN Front(cu.loops) ELSE cu.loops)
  BY <1>2, <1>16
<1>20. Len(e.upvalueNums) <= Count(e)
  BY <1>3, <1>5, <1>7, <1>11, <1>14, <1>16
<1> QED
  BY <1>1, <1>18, <1>19, <1>20, LeavingCompiles

-----------------------------------------------------------------------------
(***************************************************************************)
(* The complete function.                                                  *)
(***************************************************************************)
\* Each address of T is one of an instruction, from which control goes to such an address again.
InstrRuns(u, T, a) ==
  /\ a \in Addresses(u, 0) /\ ByteAt(u, a) \in 1..END /\ ByteAt(u, a) # END /\ a + Width(u, a) <= Count(u)
  /\ ByteAt(u, a) \in Straight \union Branching => a + Width(u, a) \in DOMAIN T
  /\ ByteAt(u, a) = CREATE_CLOSURE => u.upvalueNums[ShortAt(u, a + 1) + 1] \in Nat
  /\ FlowOK(u, T, {}, a) /\ T[a].d <= u.maxSlots

Runs(u, T) ==
  /\ u.code \in Seq(Bytes) /\ u.stackSlotNum \in 0..u.maxSlots
  /\ DOMAIN T \subseteq 0..Count(u) - 1 /\ T \in [DOMAIN T -> Stacks]
  /\ \A a \in DOMAIN T : InstrRuns(u, T, a)

\* The last three instructions: compileBody() or compileModule(), endCompileUnit().
Closed(u) == WriteOpCode(WriteOpCode(WriteOpCode(u, PUSH_NULL), RETURN), END)

\* One byte has been written.
LEMMA OneByte ==
  ASSUME NEW u \in UnitTypes, u.code \in Seq(Bytes), NEW op \in 1..END, NEW w, NEW k, Wrote(u, w, <<op>>, k)
  PROVE  /\ Count(w) = Count(u) + 1 /\ w.code \in Seq(Bytes) /\ \A a \in 0..Count(u) - 1 : ByteAt(w, a) = ByteAt(u, a)
         /\ ByteAt(w, Count(u)) = op
<1> DEFINE b == <<op>>
<1>1. b \in Seq(Bytes) /\ Len(b) = 1 /\ b[1] = op
  <2>1. op \in Bytes
    BY ByteTypes
  <2> QED
    BY <2>1, BytesAre
<1>2. b \in Seq(Int) /\ w.code = u.code \o b /\ w \in UnitTypes
  BY <1>1, BytesInt DEF Wrote, SameBut
<1> HIDE DEF b
<1>3. /\ Count(w) = Count(u) + Len(b) /\ \A a \in 0..Count(u) - 1 : ByteAt(w, a) = ByteAt(u, a)
      /\ \A j \in 0..Len(b) - 1 : ByteAt(w, Count(u) + j) = b[j + 1]
      /\ w.code \in Seq(Bytes) /\ Count(u) \in Nat
  BY <1>1, <1>2, AppendedIs
<1>4. ByteAt(w, Count(u) + 0) = b[0 + 1]
  <2>1. 0 \in 0..Len(b) - 1
    BY <1>1
  <2> QED
    BY <1>3, <2>1
<1> QED
  BY <1>1, <1>3, <1>4

LEMMA ClosedIs ==
  ASSUME NEW u, NEW T, Sound(u, T, {})
  PROVE  LET w == Closed(u)
             n == Count(u)
         IN  /\ w \in UnitTypes /\ w.upvalueNums = u.upvalueNums /\ w.code \in Seq(Bytes) /\ Count(w) = n + 3 /\ n \in Nat
             /\ \A a \in 0..n - 1 : ByteAt(w, a) = ByteAt(u, a)
             /\ ByteAt(w, n) = PUSH_NULL /\ ByteAt(w, n + 1) = RETURN /\ ByteAt(w, n + 2) = END
             /\ w.stackSlotNum = u.stackSlotNum + 1 /\ w.maxSlots >= u.maxSlots /\ w.maxSlots >= w.stackSlotNum
             /\ w.localVars = u.localVars
<1> DEFINE x == WriteOpCode(u, PUSH_NULL)
           y == WriteOpCode(x, RETURN)
           w == WriteOpCode(y, END)
           n == Count(u)
<1>1. /\ PUSH_NULL \in Opcodes /\ RETURN \in Opcodes /\ END \in Opcodes
      /\ <<PUSH_NULL>> \in Seq(Bytes) /\ <<RETURN>> \in Seq(Bytes) /\ <<END>> \in Seq(Bytes)
      /\ Len(<<PUSH_NULL>>) = 1 /\ Len(<<RETURN>>) = 1 /\ Len(<<END>>) = 1
      /\ <<PUSH_NULL>>[1] = PUSH_NULL /\ <<RETURN>>[1] = RETURN /\ <<END>>[1] = END
  <2>1. PUSH_NULL \in 0..END /\ RETURN \in 0..END /\ END \in 0..END
    BY OpcodesDiffer
  <2>2. PUSH_NULL \in Bytes /\ RETURN \in Bytes /\ END \in Bytes
    BY <2>1, ByteTypes
  <2> QED
    BY <2>1, <2>2, BytesAre DEF Opcodes
<1>2. <<PUSH_NULL>> \in Seq(Int) /\ <<RETURN>> \in Seq(Int) /\ <<END>> \in Seq(Int)
  BY <1>1, BytesInt
<1>3. u \in UnitTypes /\ u.code \in Seq(Bytes) /\ n \in Nat /\ u.stackSlotNum \in Int /\ u.maxSlots \in Int /\ u.maxSlots >= u.stackSlotNum
  BY SoundFacts DEF Sound, RoomOK
<1>4. Wrote(u, x, <<PUSH_NULL>>, 1)
  BY <1>1, <1>3, WriteOpCodeIs, SlotsUsedIs
<1> HIDE DEF x
<1>5. x \in UnitTypes /\ x.stackSlotNum \in Int /\ x.maxSlots \in Int
  BY <1>4, UnitFacts DEF Wrote, SameBut
<1>6. Wrote(x, y, <<RETURN>>, 0)
  BY <1>1, <1>5, WriteOpCodeIs, SlotsUsedIs
<1> HIDE DEF y
<1>7. y \in UnitTypes /\ y.stackSlotNum \in Int /\ y.maxSlots \in Int
  BY <1>6, UnitFacts DEF Wrote, SameBut
<1>8. Wrote(y, w, <<END>>, 0)
  BY <1>1, <1>7, WriteOpCodeIs, SlotsUsedIs
<1> HIDE DEF w
<1>9. w \in UnitTypes /\ w.stackSlotNum \in Int /\ w.maxSlots \in Int
  BY <1>8, UnitFacts DEF Wrote, SameBut
<1>10. /\ Count(x) = n + 1 /\ x.code \in Seq(Bytes) /\ \A a \in 0..n - 1 : ByteAt(x, a) = ByteAt(u, a)
       /\ ByteAt(x, n) = PUSH_NULL
  <2>1. PUSH_NULL \in 1..END
    BY OpcodesDiffer
  <2>2. /\ Count(x) = Count(u) + 1 /\ x.code \in Seq(Bytes) /\ \A a \in 0..Count(u) - 1 : ByteAt(x, a) = ByteAt(u, a)
        /\ ByteAt(x, Count(u)) = PUSH_NULL
    BY <1>3, <1>4, <2>1, OneByte
  <2> QED
    BY <1>3, <1>3, <2>2
<1>11. /\ Count(y) = n + 2 /\ y.code \in Seq(Bytes) /\ \A a \in 0..n : ByteAt(y, a) = ByteAt(x, a)
       /\ ByteAt(y, n + 1) = RETURN
  <2>1. RETURN \in 1..END
    BY OpcodesDiffer
  <2>2. /\ Count(y) = Count(x) + 1 /\ y.code \in Seq(Bytes) /\ \A a \in 0..Count(x) - 1 : ByteAt(y, a) = ByteAt(x, a)
        /\ ByteAt(y, Count(x)) = RETURN
    BY <1>5, <1>10, <1>6, <2>1, OneByte
  <2> QED
    BY <1>3, <1>5, <1>10, <2>2
<1>12. /\ Count(w) = n + 3 /\ w.code \in Seq(Bytes) /\ \A a \in 0..n + 1 : ByteAt(w, a) = ByteAt(y, a)
       /\ ByteAt(w, n + 2) = END
  <2>1. END \in 1..END
    BY OpcodesDiffer
  <2>2. /\ Count(w) = Count(y) + 1 /\ w.code \in Seq(Bytes) /\ \A a \in 0..Count(y) - 1 : ByteAt(w, a) = ByteAt(y, a)
        /\ ByteAt(w, Count(y)) = END
    BY <1>7, <1>11, <1>8, <2>1, OneByte
  <2> QED
    BY <1>3, <1>7, <1>11, <2>2
<1>13. /\ \A a \in 0..n - 1 : ByteAt(w, a) = ByteAt(u, a)
       /\ ByteAt(w, n) = PUSH_NULL /\ ByteAt(w, n + 1) = RETURN
  <2>1. \A a \in 0..n - 1 : a \in 0..n /\ a \in 0..n + 1
    BY <1>3
  <2>2. n \in 0..n /\ n \in 0..n + 1 /\ n + 1 \in 0..n + 1
    BY <1>3
  <2> QED
    BY <1>10, <1>11, <1>12, <2>1, <2>2
<1>14. w.stackSlotNum = u.stackSlotNum + 1 /\ w.maxSlots >= u.maxSlots /\ w.maxSlots >= w.stackSlotNum
  <2>1. x.stackSlotNum = u.stackSlotNum + 1 /\ x.maxSlots >= u.maxSlots /\ x.maxSlots >= x.stackSlotNum
    BY <1>3, <1>4 DEF Wrote
  <2>2. y.stackSlotNum = x.stackSlotNum + 0 /\ y.maxSlots >= x.maxSlots /\ y.maxSlots >= y.stackSlotNum
    BY <1>6, <2>1 DEF Wrote
  <2>3. w.stackSlotNum = y.stackSlotNum + 0 /\ w.maxSlots >= y.maxSlots /\ w.maxSlots >= w.stackSlotNum
    BY <1>8, <2>2 DEF Wrote
  <2> QED
    BY <1>3, <1>5, <1>7, <1>9, <2>1, <2>2, <2>3
<1>15. w.upvalueNums = u.upvalueNums /\ w.localVars = u.localVars
  BY <1>4, <1>6, <1>8 DEF Wrote, SameBut
<1> QED
  BY <1>3, <1>9, <1>12, <1>13, <1>14, <1>15 DEF Closed, w, y, x

LEMMA ClosedRuns ==
  ASSUME NEW u, NEW T, Sound(u, T, {}), \A a \in DOMAIN T : a < Count(u) => ByteAt(u, a) # END
  PROVE  \E U : Runs(Closed(u), U) /\ DOMAIN T \subseteq DOMAIN U /\ \A a \in DOMAIN T : U[a] = T[a]
<1> DEFINE w == Closed(u)
           n == Count(u)
           e == On(T[n], 1)
           D == DOMAIN T
           U == Ext(T, n + 1, e)
           A == (D \union {n + 1}) \union {n + 2}
<1>1. /\ w \in UnitTypes /\ w.upvalueNums = u.upvalueNums /\ w.code \in Seq(Bytes) /\ Count(w) = n + 3 /\ n \in Nat
      /\ \A a \in 0..n - 1 : ByteAt(w, a) = ByteAt(u, a)
      /\ ByteAt(w, n) = PUSH_NULL /\ ByteAt(w, n + 1) = RETURN /\ ByteAt(w, n + 2) = END
      /\ w.stackSlotNum = u.stackSlotNum + 1 /\ w.maxSlots >= u.maxSlots /\ w.maxSlots >= w.stackSlotNum
  BY ClosedIs
<1> HIDE DEF w
<1>2. /\ u \in UnitTypes /\ n \in D /\ D \subseteq 0..n /\ 0 \in D /\ T[n] \in Stacks /\ T[n].d \in Nat
      /\ u.stackSlotNum \in Int /\ u.maxSlots \in Int /\ w.maxSlots \in Int /\ T[n].d <= u.stackSlotNum
  BY <1>1, SoundFacts, UnitFacts
<1>3. /\ T \in [D -> Stacks] /\ \A a \in D : a < n => InstrOK(u, D, a) /\ FlowOK(u, T, {}, a)
      /\ \A a \in D : T[a].d <= u.maxSlots
  BY DEF Sound, Chained, RoomOK
<1>4. e \in Stacks /\ e.d = T[n].d + 1 /\ e.c = T[n].c
  <2>1. 1 \in Nat
    OBVIOUS
  <2> HIDE DEF n
  <2> QED
    BY <1>2, <2>1, OnIs
<1> HIDE DEF e
<1>5. /\ DOMAIN U = D \union {n + 1} /\ U[n + 1] = e /\ n + 1 \notin D /\ \A a \in D : U[a] = T[a]
      /\ U \in [DOMAIN U -> Stacks]
  <2>1. n + 1 \notin D
    BY <1>1, <1>2
  <2> QED
    BY <1>3, <1>4, <2>1 DEF Ext
<1> HIDE DEF U, D
\* The instructions there were.
<1>6. ASSUME NEW a \in D, a < n
      PROVE  /\ ByteAt(w, a) = ByteAt(u, a) /\ InstrOK(w, D, a) /\ Width(w, a) = Width(u, a) /\ FlowOK(w, U, {}, a)
             /\ a + Width(w, a) \in D /\ a + Width(w, a) > a /\ \A b \in A : b <= a \/ b >= a + Width(w, a)
  <2>1. a \in Nat /\ InstrOK(u, D, a) /\ FlowOK(u, T, {}, a)
    BY <1>2, <1>3, <1>6
  <2>2. Width(u, a) \in Nat /\ Width(u, a) >= 1 /\ a + Width(u, a) \in D /\ a + Width(u, a) <= n
    <3>1. Width(u, a) \in Nat /\ Width(u, a) >= 1
      BY <1>2, <2>1, WidthFacts
    <3>2. a + Width(u, a) \in D
      BY <2>1 DEF InstrOK
    <3> QED
      BY <1>2, <3>1, <3>2
  <2>3. Kept(u, w, a)
    <3>1. \A k \in 0..Width(u, a) - 1 : a + k \in 0..n - 1
      BY <1>1, <2>1, <2>2
    <3> QED
      BY <1>1, <3>1 DEF Kept
  <2>4. MoreUpvalues(u, w)
    BY <1>1 DEF MoreUpvalues
  <2>5. /\ ByteAt(w, a) = ByteAt(u, a) /\ Width(w, a) = Width(u, a) /\ InstrOK(w, D, a)
        /\ Width(u, a) >= 3 => ShortAt(w, a + 1) = ShortAt(u, a + 1)
        /\ \A s : Falls(w, a, s) = Falls(u, a, s)
    BY <1>1, <1>2, <2>1, <2>3, <2>4, KeptIs
  <2>6. ByteAt(u, a) \in Branching \union {JUMP, LOOP} => Target(w, a) = Target(u, a) /\ BackTarget(w, a) = BackTarget(u, a)
    <3>1. ByteAt(u, a) \in Branching \union {JUMP, LOOP} => Width(u, a) >= 3
      BY <1>2, <2>1, WidthFacts DEF Branching
    <3> QED
      BY <2>5, <3>1 DEF Target, BackTarget
  <2>7. FlowOK(w, U, {}, a)
    <3>1. ByteAt(u, a) \in Straight \union Branching => Leads(Falls(w, a, U[a]), U[a + Width(w, a)])
      BY <1>5, <2>1, <2>2, <2>5 DEF FlowOK
    <3>2. ByteAt(u, a) \in Branching \union {JUMP} =>
            Target(w, a) \in DOMAIN U /\ Leads(Lands(ByteAt(w, a), U[a]), U[Target(w, a)])
      <4> SUFFICES ASSUME ByteAt(u, a) \in Branching \union {JUMP}
                   PROVE  Target(w, a) \in DOMAIN U /\ Leads(Lands(ByteAt(w, a), U[a]), U[Target(w, a)])
        OBVIOUS
      <4>1. Target(u, a) \in D /\ Leads(Lands(ByteAt(u, a), T[a]), T[Target(u, a)])
        BY <2>1 DEF FlowOK, D
      <4>2. Target(w, a) = Target(u, a)
        BY <2>6
      <4> QED
        BY <1>5, <2>5, <4>1, <4>2
    <3>3. ByteAt(u, a) = LOOP => BackTarget(w, a) \in DOMAIN U /\ Leads(U[a], U[BackTarget(w, a)])
      <4> SUFFICES ASSUME ByteAt(u, a) = LOOP PROVE BackTarget(w, a) \in DOMAIN U /\ Leads(U[a], U[BackTarget(w, a)])
        OBVIOUS
      <4>1. BackTarget(u, a) \in D /\ Leads(T[a], T[BackTarget(u, a)])
        BY <2>1 DEF FlowOK, D
      <4>2. BackTarget(w, a) = BackTarget(u, a)
        BY <2>6
      <4> QED
        BY <1>5, <4>1, <4>2
    <3> QED
      BY <2>5, <3>1, <3>2, <3>3 DEF FlowOK
  <2>8. \A b \in A : b <= a \/ b >= a + Width(w, a)
    <3>1. \A b \in D : b <= a \/ b >= a + Width(w, a)
      BY <2>5 DEF InstrOK
    <3>2. n + 1 >= a + Width(w, a) /\ n + 2 >= a + Width(w, a)
      BY <1>1, <2>1, <2>2, <2>5
    <3> QED
      BY <3>1, <3>2
  <2> QED
    BY <2>1, <2>2, <2>5, <2>7, <2>8
\* Those that have been added.
<1>7. Width(w, n) = 1 /\ Width(w, n + 1) = 1 /\ Width(w, n + 2) = 3
  <2>1. PUSH_NULL \in 1..END /\ RETURN \in 1..END /\ END \in 1..END
    BY OpcodesDiffer
  <2> QED
    BY <1>1, <2>1, WidthIs
<1>8. Walks(w, A)
  <2>1. A \subseteq 0..Count(w) - 1 /\ Count(w) \in Nat
    BY <1>1, <1>2
  <2>2. ASSUME NEW a \in A
        PROVE  LET next == a + Width(w, a)
               IN  \/ next \in a + 1..Count(w) - 1 /\ next \in A /\ \A b \in A : b <= a \/ b >= next
                   \/ next \notin a + 1..Count(w) - 1 /\ \A b \in A : b <= a
    <3>1. CASE a \in D /\ a < n
      <4>1. a + Width(w, a) \in D /\ a + Width(w, a) > a /\ \A b \in A : b <= a \/ b >= a + Width(w, a)
        BY <1>6, <3>1
      <4>2. a + Width(w, a) \in 0..n /\ a \in 0..n
        BY <1>2, <3>1, <4>1
      <4>3. a + Width(w, a) \in a + 1..Count(w) - 1
        BY <1>1, <4>1, <4>2
      <4> QED
        BY <4>1, <4>3
    <3>2. CASE a = n
      <4>1. \A b \in A : b <= n \/ b >= n + 1
        BY <1>1, <1>2
      <4> QED
        BY <1>1, <1>7, <3>2, <4>1
    <3>3. CASE a = n + 1
      <4>1. \A b \in A : b <= n + 1 \/ b >= (n + 1) + 1
        BY <1>1, <1>2
      <4>2. (n + 1) + 1 = n + 2
        BY <1>1
      <4> QED
        BY <1>1, <1>7, <3>3, <4>1, <4>2
    <3>4. CASE a = n + 2
      <4>1. \A b \in A : b <= n + 2
        BY <1>1, <1>2
      <4> QED
        BY <1>1, <1>7, <3>4, <4>1
    <3>5. a \in D => a < n \/ a = n
      BY <1>1, <1>2
    <3> QED
      BY <3>1, <3>2, <3>3, <3>4, <3>5
  <2> QED
    BY <2>1, <2>2 DEF Walks
<1>9. Addresses(w, 0) = A
  <2>1. 0 \in A /\ \A x \in A : x >= 0
    BY <1>1, <1>2
  <2> QED
    BY <1>8, <2>1, AddressesAre
<1>10. ASSUME NEW a \in DOMAIN U PROVE InstrRuns(w, U, a)
  <2>1. a \in Addresses(w, 0)
    BY <1>5, <1>9
  <2>2. CASE a \in D /\ a < n
    <3>1. ByteAt(w, a) \in 1..END
      BY <1>6, <2>2 DEF InstrOK
    <3>2. ByteAt(w, a) # END
      BY <1>6, <2>2 DEF D
    <3>3. a + Width(w, a) \in DOMAIN U /\ FlowOK(w, U, {}, a)
      BY <1>5, <1>6, <2>2
    <3>4. T[a] \in Stacks /\ T[a].d <= u.maxSlots
      BY <1>3, <2>2
    <3>5. T[a].d \in Int
      BY <3>4 DEF Stacks
    <3>6. U[a].d <= w.maxSlots
      BY <1>1, <1>2, <1>5, <2>2, <3>4, <3>5
    <3>7. a + Width(w, a) <= Count(w)
      <4>1. a + Width(w, a) \in 0..n
        BY <1>2, <1>6, <2>2
      <4> QED
        BY <1>1, <4>1
    <3>8. ByteAt(w, a) = CREATE_CLOSURE => w.upvalueNums[ShortAt(w, a + 1) + 1] \in Nat
      <4>1. a \in Nat /\ InstrOK(w, D, a)
        BY <1>2, <1>6, <2>2
      <4> QED
        BY <1>1, <4>1, WidthFacts
    <3> QED
      BY <2>1, <3>1, <3>2, <3>3, <3>6, <3>7, <3>8 DEF InstrRuns
  <2>3. CASE a = n
    <3>1. PUSH_NULL \in 1..END /\ PUSH_NULL # END /\ PUSH_NULL \notin Branching \union {JUMP, LOOP, CLOSE_UPVALUE, CREATE_CLOSURE}
      BY OpcodesDiffer DEF Branching
    <3>2. a + Width(w, a) \in DOMAIN U /\ U[a + Width(w, a)] = e /\ U[a] = T[n]
      BY <1>2, <1>5, <1>7, <2>3
    <3>3. Leads(Falls(w, a, U[a]), U[a + Width(w, a)])
      BY <1>1, <1>4, <2>3, <3>1, <3>2, SlotsUsedIs DEF Leads, Falls
    <3>4. FlowOK(w, U, {}, a)
      BY <1>1, <2>3, <3>1, <3>3 DEF FlowOK
    <3>5. T[n].d <= w.maxSlots
      BY <1>1, <1>2
    <3>6. a + Width(w, a) <= Count(w)
      BY <1>1, <1>7, <2>3
    <3> QED
      BY <1>1, <2>1, <2>3, <3>1, <3>2, <3>4, <3>5, <3>6, OpcodesDiffer DEF InstrRuns
  <2>4. CASE a = n + 1
    <3>1. RETURN \in 1..END /\ RETURN # END /\ RETURN \notin Straight \union Branching \union {JUMP, LOOP}
      BY OpcodesDiffer DEF Branching, Straight
    <3>2. FlowOK(w, U, {}, a)
      BY <1>1, <2>4, <3>1 DEF FlowOK
    <3>3. e.d <= w.maxSlots
      BY <1>1, <1>2, <1>4
    <3>4. a + Width(w, a) <= Count(w)
      BY <1>1, <1>7, <2>4
    <3> QED
      BY <1>1, <1>5, <2>1, <2>4, <3>1, <3>2, <3>3, <3>4, OpcodesDiffer DEF InstrRuns
  <2>5. a \in D => a < n \/ a = n
    BY <1>1, <1>2
  <2> QED
    BY <1>5, <2>2, <2>3, <2>4, <2>5
<1>11. Runs(w, U)
  <2>1. w.stackSlotNum \in 0..w.maxSlots
    BY <1>1, <1>2
  <2>2. DOMAIN U \subseteq 0..Count(w) - 1
    BY <1>1, <1>2, <1>5
  <2> QED
    BY <1>1, <1>5, <1>10, <2>1, <2>2 DEF Runs
<1> QED
  BY <1>5, <1>11 DEF w, D

-----------------------------------------------------------------------------
(***************************************************************************)
(* The machine.                                                            *)
(***************************************************************************)
\* The frame is as T says at the next instruction.
Running(T) ==
  /\ Runs(cu, T) /\ MarksOK(T, marks) /\ BreaksLeaveTheirLoop
  /\ phase = "run" => ip \in DOMAIN T /\ depth = T[ip].d /\ open \subseteq T[ip].c
  /\ phase = "over" => ip \in 0..Count(cu) /\ depth = 1 /\ open = {}
  /\ phase = "aborted" => ip \in DOMAIN T /\ depth = T[ip].d /\ open \subseteq T[ip].c /\ Operand = 0

\* The breaks of loops that are complete.
LEMMA BreaksAreJumps ==
  ASSUME NEW u, NEW t, NEW T, NEW jm, NEW en, JumpsOK(u, t, T, jm, en), NEW a \in DOMAIN jm, jm[a] \in DOMAIN en
  PROVE  a \in DOMAIN T /\ a < Count(u) /\ ByteAt(u, a) = JUMP /\ a \notin Waiting(u, t) /\ Target(u, a) = en[jm[a]]
<1>1. JumpOK(u, t, T, en, a, jm[a]) /\ \A j \in 1..Len(u.loops) : Start(u.loops[j]) \notin DOMAIN en
  BY DEF JumpsOK
<1> QED
  BY <1>1 DEF JumpOK

LEMMA JumpIsSigned ==
  ASSUME NEW u, NEW T, NEW P, Sound(u, T, P), Count(u) < Half,
         NEW a \in DOMAIN T, a < Count(u), ByteAt(u, a) = JUMP, a \notin P
  PROVE  AsSigned(ShortAt(u, a + 1)) = ShortAt(u, a + 1) /\ a \in Nat /\ a + 3 <= Count(u)
<1>1. Target(u, a) \in DOMAIN T /\ InstrOK(u, DOMAIN T, a) /\ u.code \in Seq(Bytes)
  BY DEF Sound, FlowOK, Chained
<1>2. Count(u) \in Nat /\ \A b \in DOMAIN T : b \in Nat /\ b <= Count(u)
  BY SoundFacts
<1>3. Width(u, a) = 3
  BY <1>1, WidthIs DEF InstrOK
<1>4. a + 3 <= Count(u) /\ a \in Nat
  BY <1>1, <1>2, <1>3 DEF InstrOK
<1>5. Target(u, a) \in Int /\ Target(u, a) <= Count(u)
  BY <1>1, <1>2
<1> QED
  BY <1>1, <1>4, <1>5, SignedAhead

LEMMA BreaksWhileCompiling ==
  ASSUME NEW T, Compiling(T), Fits
  PROVE  BreaksLeaveTheirLoop
<1>1. JumpsOK(cu, todo, T, jumps, ends) /\ Sound(cu, T, Waiting(cu, todo)) /\ Count(cu) < Half
  BY DEF Compiling, Good, Fits
<1>2. ASSUME NEW a \in DOMAIN jumps, jumps[a] \in DOMAIN ends
      PROVE  ByteAt(cu, a) = JUMP /\ a + 3 + AsSigned(ShortAt(cu, a + 1)) = ends[jumps[a]]
  <2>1. /\ a \in DOMAIN T /\ a < Count(cu) /\ ByteAt(cu, a) = JUMP /\ a \notin Waiting(cu, todo)
        /\ Target(cu, a) = ends[jumps[a]]
    BY <1>1, <1>2, BreaksAreJumps
  <2> QED
    BY <1>1, <2>1, JumpIsSigned DEF Target
<1> QED
  BY <1>2 DEF BreaksLeaveTheirLoop

\* When no block is open, no loop is.
LEMMA NothingOpen ==
  ASSUME NEW u, NEW ss, NEW t, ReadingOK(u, ss, t), t = <<>>
  PROVE  Len(u.loops) = 0 /\ Ifs(t) = {} /\ Waiting(u, t) = {}
<1>1. Len(t) = 0
  BY EmptySeq
<1>2. LoopsIn(t) = {} /\ Ifs(t) = {}
  BY <1>1 DEF LoopsIn, Ifs
<1>3. Len(u.loops) = 0
  BY <1>2, FS_EmptySet DEF ReadingOK
<1> QED
  BY <1>2, <1>3 DEF Waiting

LEMMA EndUnitRuns ==
  ASSUME NEW T, Compiling(T), ReadingOK(cu, scopes, todo), Fits, EndUnit
  PROVE  \E U : Running(U)'
<1> DEFINE w == Closed(cu)
           n == Count(cu)
<1>1. /\ todo = <<>> /\ cu' = w /\ marks' = Mark /\ jumps' = jumps /\ ends' = ends /\ phase' = "run"
      /\ depth' = (IF cu.isModule THEN 0 ELSE 1) /\ ip' = ip /\ open' = open
  BY DEF EndUnit, Closed
<1>2. ip = 0 /\ open = {}
  BY DEF Compiling
<1>3. Len(cu.loops) = 0 /\ Waiting(cu, todo) = {}
  BY <1>1, NothingOpen
<1>4. Good(cu, scopes, todo, T, {}, Mark, jumps, ends)
  BY <1>3, CompilingFacts
<1>5. /\ Sound(cu, T, {}) /\ Shape(cu, scopes, todo, T) /\ JumpsOK(cu, todo, T, jumps, ends) /\ MarksOK(T, Mark)
      /\ T[0].d = IF cu.isModule THEN 0 ELSE 1
  BY <1>4 DEF Good
<1>6. cu \in UnitTypes /\ n \in Nat /\ 0 \in DOMAIN T /\ \A a \in DOMAIN T : a \in Nat /\ a <= n
  BY <1>5, SoundFacts
<1>7. \A a \in DOMAIN T : a < n => ByteAt(cu, a) # END
  <2>1. ASSUME NEW a \in DOMAIN T, a < n, ByteAt(cu, a) = END PROVE FALSE
    <3>1. BreakOK(cu, scopes, T, a)
      BY <1>5, <2>1 DEF Shape
    <3> QED
      BY <1>3, <3>1 DEF BreakOK
  <2> QED
    BY <2>1
<1> HIDE DEF w
<1>8. PICK U : Runs(w, U) /\ DOMAIN T \subseteq DOMAIN U /\ \A a \in DOMAIN T : U[a] = T[a]
  BY <1>5, <1>7, ClosedRuns DEF w
<1>9. MarksOK(U, Mark)
  BY <1>5, <1>8 DEF MarksOK
<1>10. \A a \in 0..n - 1 : ByteAt(w, a) = ByteAt(cu, a)
  BY <1>5, ClosedIs DEF w
<1>11. ASSUME NEW a \in DOMAIN jumps, jumps[a] \in DOMAIN ends
       PROVE  ByteAt(w, a) = JUMP /\ a + 3 + AsSigned(ShortAt(w, a + 1)) = ends[jumps[a]]
  <2>1. a \in DOMAIN T /\ a < n /\ ByteAt(cu, a) = JUMP /\ Target(cu, a) = ends[jumps[a]]
    BY <1>5, <1>11, BreaksAreJumps
  <2>2. AsSigned(ShortAt(cu, a + 1)) = ShortAt(cu, a + 1) /\ a \in Nat /\ a + 3 <= n
    BY <1>5, <2>1, JumpIsSigned DEF Fits
  <2>3. a \in 0..n - 1 /\ a + 1 \in 0..n - 1 /\ (a + 1) + 1 \in 0..n - 1
    BY <1>6, <2>2
  <2>4. ShortAt(w, a + 1) = ShortAt(cu, a + 1) /\ ByteAt(w, a) = ByteAt(cu, a)
    BY <1>10, <2>3 DEF ShortAt
  <2> QED
    BY <2>1, <2>2, <2>4 DEF Target
<1>12. BreaksLeaveTheirLoop'
  BY <1>1, <1>11 DEF BreaksLeaveTheirLoop
<1>13. 0 \in DOMAIN U /\ U[0] = T[0]
  BY <1>6, <1>8
<1> QED
  BY <1>1, <1>2, <1>5, <1>8, <1>9, <1>12, <1>13 DEF Running

-----------------------------------------------------------------------------
\* The frame, and the instruction that is next.
LEMMA NextInstr ==
  ASSUME NEW T, Running(T), phase = "run"
  PROVE  /\ ip \in DOMAIN T /\ ip \in Nat /\ depth = T[ip].d /\ depth \in Nat /\ open \subseteq T[ip].c /\ open \subseteq Nat
         /\ InstrRuns(cu, T, ip) /\ \A s \in T[ip].c : s < T[ip].d
         /\ Width(cu, ip) = 3 => Operand \in Int
<1>1. /\ ip \in DOMAIN T /\ depth = T[ip].d /\ open \subseteq T[ip].c
      /\ DOMAIN T \subseteq 0..Count(cu) - 1 /\ T \in [DOMAIN T -> Stacks] /\ InstrRuns(cu, T, ip) /\ cu.code \in Seq(Bytes)
  BY DEF Running, Runs
<1>2. T[ip] \in Stacks /\ ip \in Nat
  BY <1>1
<1>3. ASSUME Width(cu, ip) = 3 PROVE Operand \in Int
  <2>1. ip + 3 <= Len(cu.code) /\ Len(cu.code) \in Nat
    BY <1>1, <1>3 DEF InstrRuns, Count
  <2>2. (ip + 1) + 1 \in 1..Len(cu.code) /\ ((ip + 1) + 1) + 1 \in 1..Len(cu.code)
    BY <1>2, <2>1
  <2>3. cu.code[(ip + 1) + 1] \in Bytes /\ cu.code[((ip + 1) + 1) + 1] \in Bytes
    BY <1>1, <2>2
  <2>4. \A x, y \in Bytes : x * BYTE + y \in Int
    BY ByteFacts DEF Bytes
  <2> QED
    BY <2>3, <2>4 DEF Operand, ShortAt, ByteAt
<1> QED
  BY <1>1, <1>2, <1>3 DEF Stacks

\* An instruction is done: the machine is at another one, with the stack that is expected there.
LEMMA Goes ==
  ASSUME NEW T, Running(T), phase = "run", UNCHANGED <<cu, source, phase>>,
         ip' \in DOMAIN T, depth' = T[ip'].d, open' \subseteq T[ip'].c
  PROVE  Running(T)'
<1>1. cu' = cu /\ marks' = marks /\ jumps' = jumps /\ ends' = ends /\ phase' = "run"
  BY DEF source
<1>2. Runs(cu, T) /\ MarksOK(T, marks) /\ BreaksLeaveTheirLoop
  BY DEF Running
<1>3. BreaksLeaveTheirLoop'
  BY <1>1, <1>2 DEF BreaksLeaveTheirLoop
<1> QED
  BY <1>1, <1>2, <1>3 DEF Running

\* It goes on to the next one.
LEMMA FallsThrough ==
  ASSUME NEW T, Running(T), phase = "run", UNCHANGED <<cu, source, phase>>,
         ByteAt(cu, ip) \in Straight \union Branching, ip' = ip + Width(cu, ip), depth' = depth + SlotsUsed(ByteAt(cu, ip)),
         open' \subseteq Falls(cu, ip, T[ip]).c
  PROVE  Running(T)'
<1>1. InstrRuns(cu, T, ip) /\ depth = T[ip].d
  BY NextInstr
<1>2. ip' \in DOMAIN T /\ Leads(Falls(cu, ip, T[ip]), T[ip'])
  BY <1>1 DEF InstrRuns, FlowOK
<1>3. Falls(cu, ip, T[ip]).d = depth'
  BY <1>1 DEF Falls
<1> HIDE DEF Falls
<1>4. depth' = T[ip'].d /\ open' \subseteq T[ip'].c
  BY <1>2, <1>3 DEF Leads
<1> QED
  BY <1>2, <1>4, Goes

\* It jumps ahead.
LEMMA JumpsAhead ==
  ASSUME NEW T, Running(T), phase = "run", UNCHANGED <<cu, source, phase>>,
         ByteAt(cu, ip) \in Branching \union {JUMP}, ip' = ip + 3 + Operand, depth' = Lands(ByteAt(cu, ip), T[ip]).d, open' = open
  PROVE  Running(T)'
<1>1. InstrRuns(cu, T, ip) /\ open \subseteq T[ip].c
  BY NextInstr
<1>2. ip' = Target(cu, ip)
  BY DEF Operand, Target
<1>3. ip' \in DOMAIN T /\ Leads(Lands(ByteAt(cu, ip), T[ip]), T[ip'])
  BY <1>1, <1>2 DEF InstrRuns, FlowOK
<1>4. Lands(ByteAt(cu, ip), T[ip]).c = T[ip].c
  BY DEF Lands
<1>5. depth' = T[ip'].d /\ open' \subseteq T[ip'].c
  BY <1>1, <1>3, <1>4 DEF Leads
<1> QED
  BY <1>3, <1>5, Goes

\* The instructions that leave the captured variables alone.
LEMMA SimpleInstrs ==
  ASSUME NEW T, Running(T), phase = "run",
         PushNull \/ LoadLocalVar \/ LoadModuleVar \/ StoreLocalVar \/ StoreModuleVar \/ Pop \/ Call1
  PROVE  Running(T)'
<1>1. ip \in Nat /\ depth = T[ip].d /\ depth \in Nat /\ open \subseteq T[ip].c /\ ByteAt(cu, ip) \in 1..END
  BY NextInstr DEF InstrRuns
<1>2. PICK op \in Ordinary, b \in 1..3, n \in -1..1 :
        /\ ByteAt(cu, ip) = op /\ Step(b, 0, n) /\ open' = open /\ n = SlotsUsed(op) /\ b = WidthOf(op)
  <2>1. CASE PushNull
    BY <2>1, SlotsUsedIs, OpcodesDiffer DEF PushNull, Fetch, Ordinary, WidthOf
  <2>2. CASE LoadLocalVar
    BY <2>2, SlotsUsedIs, OpcodesDiffer DEF LoadLocalVar, Fetch, Ordinary, WidthOf
  <2>3. CASE LoadModuleVar
    BY <2>3, SlotsUsedIs, OpcodesDiffer DEF LoadModuleVar, Fetch, Ordinary, WidthOf
  <2>4. CASE StoreLocalVar
    BY <2>4, SlotsUsedIs, OpcodesDiffer DEF StoreLocalVar, Fetch, Ordinary, WidthOf
  <2>5. CASE StoreModuleVar
    BY <2>5, SlotsUsedIs, OpcodesDiffer DEF StoreModuleVar, Fetch, Ordinary, WidthOf
  <2>6. CASE Pop
    BY <2>6, SlotsUsedIs, OpcodesDiffer DEF Pop, Fetch, Ordinary, WidthOf
  <2>7. CASE Call1
    BY <2>7, SlotsUsedIs, OpcodesDiffer DEF Call1, Fetch, Ordinary, WidthOf
  <2> QED
    BY <2>1, <2>2, <2>3, <2>4, <2>5, <2>6, <2>7
<1>3. op \in Straight /\ op # CLOSE_UPVALUE /\ op # CREATE_CLOSURE
  BY OpcodesDiffer DEF Ordinary, Straight
<1>4. Width(cu, ip) = b
  BY <1>1, <1>2, WidthIs, OpcodesDiffer DEF Ordinary, WidthOf
<1>5. ip' = ip + Width(cu, ip) /\ depth' = depth + SlotsUsed(ByteAt(cu, ip)) /\ UNCHANGED <<cu, source, phase>>
  BY <1>1, <1>2, <1>4 DEF Step
<1>6. Falls(cu, ip, T[ip]).c = T[ip].c
  BY <1>2, <1>3 DEF Falls
<1> QED
  BY <1>1, <1>2, <1>3, <1>5, <1>6, FallsThrough


LEMMA ThreeBytes ==
  ASSUME NEW T, Running(T), phase = "run", Fits, ByteAt(cu, ip) \in {JUMP, LOOP, JUMP_IF_FALSE, AND, OR}
  PROVE  Width(cu, ip) = 3 /\ Operand \in Nat /\ Offset = Operand /\ ip \in Nat /\ depth \in Nat
<1>1. /\ ByteAt(cu, ip) \in 1..END /\ ip \in Nat /\ depth \in Nat /\ ip + Width(cu, ip) <= Count(cu)
      /\ FlowOK(cu, T, {}, ip)
  BY NextInstr DEF InstrRuns
<1>2. Width(cu, ip) = 3
  BY <1>1, WidthIs
<1>3. DOMAIN T \subseteq 0..Count(cu) - 1 /\ cu.code \in Seq(Bytes)
  BY DEF Running, Runs
<1>4. Count(cu) \in Nat
  BY <1>3 DEF Count
<1>5. \/ Target(cu, ip) \in Int /\ Target(cu, ip) <= Count(cu)
      \/ BackTarget(cu, ip) \in Int /\ BackTarget(cu, ip) >= 0
  <2>1. Target(cu, ip) \in DOMAIN T \/ BackTarget(cu, ip) \in DOMAIN T
    BY <1>1 DEF FlowOK, Branching
  <2> QED
    BY <1>3, <1>4, <2>1
<1>6. Count(cu) < Half /\ ip + 3 <= Count(cu)
  BY <1>1, <1>2 DEF Fits
<1> QED
  BY <1>1, <1>2, <1>3, <1>5, <1>6, SignedAhead DEF Offset, Operand

LEMMA JumpInstrs ==
  ASSUME NEW T, Running(T), phase = "run", Fits, Jump \/ Loop
  PROVE  Running(T)'
<1>1. InstrRuns(cu, T, ip) /\ depth = T[ip].d /\ open \subseteq T[ip].c
  BY NextInstr
<1>2. CASE Jump
  <2>1. ByteAt(cu, ip) = JUMP /\ JUMP # JUMP_IF_FALSE /\ Step(3, Offset, 0) /\ open' = open
    BY <1>2, OpcodesDiffer DEF Jump, Fetch
  <2>2. ip \in Nat /\ depth \in Nat /\ Offset = Operand
    BY <2>1, ThreeBytes
  <2>3. ip' = ip + 3 + Operand /\ depth' = depth /\ UNCHANGED <<cu, source, phase>>
    BY <2>1, <2>2 DEF Step
  <2>4. Lands(ByteAt(cu, ip), T[ip]).d = depth
    BY <1>1, <2>1, <2>2 DEF Lands
  <2> QED
    BY <2>1, <2>3, <2>4, JumpsAhead
<1>3. CASE Loop
  <2>1. ByteAt(cu, ip) = LOOP /\ Step(3, -Offset, 0) /\ open' = open
    BY <1>3 DEF Loop, Fetch
  <2>2. ip \in Nat /\ depth \in Nat /\ Operand \in Nat /\ Offset = Operand
    BY <2>1, ThreeBytes
  <2>3. ip' = ip + 3 - Operand /\ depth' = depth /\ UNCHANGED <<cu, source, phase>>
    BY <2>1, <2>2 DEF Step
  <2>4. ip' = BackTarget(cu, ip)
    BY <2>3 DEF Operand, BackTarget
  <2>5. ip' \in DOMAIN T /\ Leads(T[ip], T[ip'])
    BY <1>1, <2>1, <2>4 DEF InstrRuns, FlowOK
  <2>6. depth' = T[ip'].d /\ open' \subseteq T[ip'].c
    BY <1>1, <2>1, <2>3, <2>5 DEF Leads
  <2> QED
    BY <2>3, <2>5, <2>6, Goes
<1> QED
  BY <1>2, <1>3

\* An instruction that decides by the value on the stack.
LEMMA BranchInstrs ==
  ASSUME NEW T, Running(T), phase = "run", Fits, JumpIfFalse \/ AndOr
  PROVE  Running(T)'
<1>1. InstrRuns(cu, T, ip) /\ depth = T[ip].d /\ open \subseteq T[ip].c
  BY NextInstr
<1>2. /\ JUMP_IF_FALSE \in Branching /\ AND \in Branching /\ OR \in Branching
      /\ JUMP_IF_FALSE # AND /\ JUMP_IF_FALSE # OR /\ \A op \in Branching : op # CLOSE_UPVALUE /\ op # CREATE_CLOSURE
  BY OpcodesDiffer DEF Branching
<1>3. PICK op \in Branching : /\ ByteAt(cu, ip) = op /\ open' = open
                              /\ \/ Step(3, 0, -1)
                                 \/ Step(3, Offset, IF op = JUMP_IF_FALSE THEN -1 ELSE 0)
  <2>1. CASE JumpIfFalse
    BY <1>2, <2>1 DEF JumpIfFalse, Fetch
  <2>2. CASE AndOr
    BY <1>2, <2>2 DEF AndOr, Fetch
  <2> QED
    BY <2>1, <2>2
<1>4. Width(cu, ip) = 3 /\ Operand \in Nat /\ Offset = Operand /\ ip \in Nat /\ depth \in Nat
  BY <1>3, ThreeBytes DEF Branching
<1>5. CASE Step(3, 0, -1)
  <2>1. ip' = ip + 3 /\ depth' = depth + (-1) /\ UNCHANGED <<cu, source, phase>>
    BY <1>4, <1>5 DEF Step
  <2>2. SlotsUsed(op) = -1
    BY <1>3, SlotsUsedIs DEF Branching
  <2>3. Falls(cu, ip, T[ip]).c = T[ip].c
    BY <1>2, <1>3 DEF Falls
  <2> QED
    BY <1>1, <1>3, <1>4, <2>1, <2>2, <2>3, FallsThrough
<1>6. CASE Step(3, Offset, IF op = JUMP_IF_FALSE THEN -1 ELSE 0)
  <2>1. ip' = ip + 3 + Operand /\ depth' = depth - (IF op = JUMP_IF_FALSE THEN 1 ELSE 0) /\ UNCHANGED <<cu, source, phase>>
    BY <1>4, <1>6 DEF Step
  <2>2. depth' = Lands(op, T[ip]).d
    BY <1>1, <2>1 DEF Lands
  <2> QED
    BY <1>3, <2>1, <2>2, JumpsAhead
<1> QED
  BY <1>3, <1>5, <1>6

\* Upvalues are opened and closed.
LEMMA UpvalueInstrs ==
  ASSUME NEW T, Running(T), phase = "run", CreateClosure \/ CloseUpvalue
  PROVE  Running(T)'
<1>1. ip \in Nat /\ depth = T[ip].d /\ depth \in Nat /\ open \subseteq T[ip].c /\ ByteAt(cu, ip) \in 1..END
  BY NextInstr DEF InstrRuns
<1>2. CLOSE_UPVALUE \in Straight /\ CREATE_CLOSURE \in Straight /\ CLOSE_UPVALUE # CREATE_CLOSURE
  BY OpcodesDiffer DEF Straight
<1>3. CASE CreateClosure
  <2> DEFINE n == cu.upvalueNums[Operand + 1]
  <2>1. /\ ByteAt(cu, ip) = CREATE_CLOSURE /\ Step(3 + 2 * n, 0, 1)
        /\ open' = open \union {ByteAt(cu, ip + 2 + 2 * i) : i \in 1..n}
    BY <1>3 DEF CreateClosure, Fetch
  <2>2. Width(cu, ip) = 1 + (2 + 2 * n)
    BY <1>1, <2>1, WidthIs DEF Operand
  <2>3. Captures(cu, ip) = {ByteAt(cu, ip + 2 + 2 * i) : i \in 1..n}
    BY DEF Captures, Operand
  <2> HIDE DEF n
  <2>4. n \in Int
    <3>1. cu.upvalueNums[ShortAt(cu, ip + 1) + 1] \in Nat
      BY <2>1, NextInstr DEF InstrRuns
    <3> QED
      BY <3>1 DEF n, Operand
  <2>5. ip' = ip + Width(cu, ip) /\ depth' = depth + 1 /\ UNCHANGED <<cu, source, phase>>
    BY <1>1, <2>1, <2>2, <2>4 DEF Step
  <2>6. Falls(cu, ip, T[ip]).c = T[ip].c \union Captures(cu, ip)
    BY <1>2, <2>1 DEF Falls
  <2>7. open' \subseteq Falls(cu, ip, T[ip]).c
    BY <1>1, <2>1, <2>3, <2>6
  <2> QED
    BY <1>2, <2>1, <2>5, <2>7, SlotsUsedIs, FallsThrough
<1>4. CASE CloseUpvalue
  <2>1. ByteAt(cu, ip) = CLOSE_UPVALUE /\ Step(1, 0, -1) /\ open' = {s \in open : s < depth - 1}
    BY <1>4 DEF CloseUpvalue, Fetch
  <2>2. Width(cu, ip) = 1
    BY <1>1, <2>1, WidthIs
  <2>3. ip' = ip + Width(cu, ip) /\ depth' = depth + (-1) /\ UNCHANGED <<cu, source, phase>>
    BY <1>1, <2>1, <2>2 DEF Step
  <2>4. Falls(cu, ip, T[ip]).c = {s \in T[ip].c : s < T[ip].d - 1}
    BY <2>1 DEF Falls
  <2>5. open' \subseteq Falls(cu, ip, T[ip]).c
    BY <1>1, <2>1, <2>4
  <2> QED
    BY <1>2, <2>1, <2>3, <2>5, SlotsUsedIs, FallsThrough
<1> QED
  BY <1>3, <1>4

\* An assertion stops the program: the operand is 0, and nothing else has changed.
LEMMA Asserts ==
  ASSUME NEW T, Running(T), phase = "run", Fits, AssertionFails
  PROVE  Running(T)'
<1>1. /\ cu' = cu /\ marks' = marks /\ jumps' = jumps /\ ends' = ends /\ ip' = ip /\ depth' = depth /\ open' = open
      /\ phase' = "aborted"
  BY DEF AssertionFails, source
<1>2. ByteAt(cu, ip) \in {JUMP, LOOP, JUMP_IF_FALSE, AND, OR} /\ Offset <= 0
  BY DEF AssertionFails, Fetch
<1>3. Operand = 0
  BY <1>2, ThreeBytes
<1>4. Operand' = 0 /\ BreaksLeaveTheirLoop'
  <2>1. BreaksLeaveTheirLoop
    BY DEF Running
  <2> QED
    BY <1>1, <1>3, <2>1 DEF Operand, BreaksLeaveTheirLoop
<1> QED
  BY <1>1, <1>4 DEF Running

LEMMA Returns ==
  ASSUME NEW T, Running(T), phase = "run", ReturnFrom
  PROVE  Running(T)'
<1>1. /\ cu' = cu /\ marks' = marks /\ jumps' = jumps /\ ends' = ends /\ ip' = ip
      /\ phase' = "over" /\ open' = {} /\ depth' = 1
  BY DEF ReturnFrom, source
<1>2. Runs(cu, T) /\ MarksOK(T, marks) /\ BreaksLeaveTheirLoop /\ ip \in DOMAIN T /\ DOMAIN T \subseteq 0..Count(cu) - 1
  BY DEF Running, Runs
<1>3. ip \in 0..Count(cu)
  <2>1. Count(cu) \in Nat
    BY <1>2 DEF Runs, Count
  <2> QED
    BY <1>2, <2>1
<1>4. BreaksLeaveTheirLoop'
  BY <1>1, <1>2 DEF BreaksLeaveTheirLoop
<1> QED
  BY <1>1, <1>2, <1>3, <1>4 DEF Running

-----------------------------------------------------------------------------
(***************************************************************************)
(* The inductive invariant.                                                *)
(***************************************************************************)
CodeInv ==
  /\ ReadingOK(cu, scopes, todo)
  /\ \/ phase = "compile" /\ \E T : Compiling(T)
     \/ phase \in {"run", "over", "aborted"} /\ \E T : Running(T)

LEMMA CompilingInit ==
  ASSUME Init, ReadingOK(cu, scopes, todo)
  PROVE  \E T : Compiling(T)
<1> DEFINE f == Frame(cu)
           T == [a \in {0} |-> f]
<1>1. PICK isModule \in Units : cu = InitCompileUnit(isModule)
  BY DEF Init
<1>2. /\ isModule \in BOOLEAN /\ Len(<<>>) = 0 /\ todo = <<>> /\ jumps = <<>> /\ ends = <<>> /\ marks = <<>>
      /\ ip = 0 /\ depth = 0 /\ open = {}
  BY <1>1, CodegenAssumption, EmptySeq DEF Init
<1>3. /\ cu.isModule = isModule /\ cu.code = <<>> /\ cu.loops = <<>> /\ cu.upvalueNums = <<>>
      /\ cu.stackSlotNum = Len(cu.localVars) /\ cu.maxSlots = Len(cu.localVars)
      /\ Len(cu.localVars) = IF isModule THEN 0 ELSE 1
  BY <1>1, <1>2 DEF InitCompileUnit
<1>4. cu \in UnitTypes /\ ScopesOK(cu, scopes) /\ f \in Stacks /\ f.d = Len(cu.localVars) /\ Len(cu.localVars) \in Nat
  BY FrameIs DEF ReadingOK, ScopesOK
<1> HIDE DEF f
<1>5. Count(cu) = 0 /\ Len(cu.loops) = 0 /\ Len(cu.upvalueNums) = 0
  BY <1>2, <1>3 DEF Count
<1>6. DOMAIN T = {0} /\ T[0] = f /\ T \in [DOMAIN T -> Stacks]
  BY <1>4
<1> HIDE DEF T
<1>7. Sound(cu, T, {})
  <2>1. cu.code \in Seq(Bytes)
    BY <1>3, EmptySeq
  <2>2. Chained(cu, DOMAIN T)
    BY <1>5, <1>6 DEF Chained
  <2>3. RoomOK(cu, T)
    BY <1>3, <1>4, <1>5, <1>6 DEF RoomOK
  <2> QED
    BY <1>4, <1>5, <1>6, <2>1, <2>2, <2>3 DEF Sound
<1>8. DOMAIN jumps = {} /\ DOMAIN ends = {} /\ DOMAIN marks = {}
  BY <1>2
<1>9. Ifs(todo) = {} /\ Waiting(cu, todo) = {}
  BY <1>2, NothingOpen
<1>10. Shape(cu, scopes, todo, T)
  BY <1>5, <1>6, <1>9 DEF Shape
<1>11. JumpsOK(cu, todo, T, jumps, ends) /\ MarksOK(T, marks)
  BY <1>5, <1>8 DEF JumpsOK, MarksOK
<1>12. Good(cu, scopes, todo, T, Waiting(cu, todo), marks, jumps, ends)
  BY <1>3, <1>4, <1>5, <1>6, <1>7, <1>9, <1>10, <1>11 DEF Good, f
<1>13. Nested(cu, scopes, todo)
  <2>1. Len(todo) = 0
    BY <1>2
  <2>2. NestAll(todo, Len(scopes)) /\ LoopsIn(todo) = {}
    BY <2>1 DEF NestAll, LoopsIn
  <2>3. LoopsMatch(cu, todo, <<>>)
    BY <1>5, <2>2 DEF LoopsMatch
  <2> QED
    BY <2>2, <2>3 DEF Nested
<1> QED
  BY <1>2, <1>5, <1>12, <1>13 DEF Compiling

\* The phase changes at the end of the function only.
LEMMA StillCompiling ==
  ASSUME Compile, ~EndUnit
  PROVE  phase = "compile" /\ phase' = "compile"
<1>1. ASSUME NEW code, Simple(code) PROVE phase = "compile" /\ phase' = "compile"
  BY <1>1 DEF Simple, Begin, machine
<1>2. ASSUME NEW code, NEW kind, NEW at, NEW locals, Enter(code, kind, at, locals)
      PROVE  phase = "compile" /\ phase' = "compile"
  BY <1>2 DEF Enter, Begin, machine
<1>3. ASSUME NEW kind, NEW code, Leave(kind, code) PROVE phase = "compile" /\ phase' = "compile"
  BY <1>3 DEF Leave, machine
<1>4. CASE (\E n \in Name : VarDefinition(n)) \/ Else
  BY <1>4 DEF VarDefinition, Else, Begin, machine
<1>5. CASE (\E n \in Name : For(n)) \/ Block \/ If \/ While
  BY <1>2, <1>5 DEF For, Block, If, While
<1>6. CASE (\E ns \in SUBSET Name : CallWithBlock(ns)) \/ (\E op \in {AND, OR} : Logic(op))
  <2>1. CASE \E ns \in SUBSET Name : CallWithBlock(ns)
    BY <1>1, <2>1, Zenon DEF CallWithBlock
  <2>2. CASE \E op \in {AND, OR} : Logic(op)
    BY <1>1, <2>2 DEF Logic, Plain
  <2> QED
    BY <1>6, <2>1, <2>2
<1>7. CASE ModuleVarDefinition \/ Condition \/ Return
  BY <1>1, <1>7 DEF ModuleVarDefinition, Condition, Return, Plain
<1>8. CASE Break \/ Continue
  BY <1>1, <1>8 DEF Break, Continue
<1>9. CASE EndBlock \/ EndIf \/ EndElse \/ EndWhile \/ EndFor
  BY <1>3, <1>9 DEF EndBlock, EndIf, EndElse, EndWhile, EndFor
<1> QED
  BY <1>4, <1>5, <1>6, <1>7, <1>8, <1>9 DEF Compile

LEMMA CompileStep ==
  ASSUME NEW T, Compiling(T), ReadingOK(cu, scopes, todo), Fits, Fits', Compile, ~EndUnit
  PROVE  \E U : Compiling(U)'
<1>1. Compiles(T) /\ Len(cu.localVars) <= BYTE /\ Len(cu'.localVars) <= BYTE
  <2>1. ReadingOK(cu', scopes', todo')
    BY ReadingStep DEF Next
  <2>2. Count(cu') \in Nat
    BY <2>1, UnitFacts DEF ReadingOK, ScopesOK
  <2>3. Count(cu)' < BYTE * BYTE
    BY <2>2, HalfIs DEF Fits, Count
  <2> QED
    BY <2>3 DEF Fits, Compiles
<1>2. CASE \E n \in Name : VarDefinition(n) \/ For(n)
  BY <1>1, <1>2, VarDefinitionCompiles, ForCompiles
<1>3. CASE \E ns \in SUBSET Name : CallWithBlock(ns)
  BY <1>1, <1>3, CallWithBlockCompiles
<1>4. CASE (\E op \in {AND, OR} : Logic(op)) \/ ModuleVarDefinition \/ Condition \/ Return
  BY <1>1, <1>4, PlainCompiles
<1>5. CASE Break \/ Continue
  BY <1>1, <1>5, BreakCompiles, ContinueCompiles
<1>6. CASE Block \/ If \/ While
  BY <1>1, <1>6, BlockCompiles, IfCompiles, WhileCompiles
<1>7. CASE EndBlock \/ EndIf \/ Else \/ EndElse
  BY <1>1, <1>7, EndBlockCompiles, EndBranchCompiles, ElseCompiles
<1>8. CASE EndWhile \/ EndFor
  BY <1>1, <1>8, EndWhileCompiles, EndForCompiles
<1> QED
  BY <1>2, <1>3, <1>4, <1>5, <1>6, <1>7, <1>8 DEF Compile

LEMMA RunStep ==
  ASSUME NEW T, Running(T), phase = "run", Fits, Run
  PROVE  Running(T)' /\ phase' \in {"run", "over", "aborted"}
<1>1. CASE PushNull \/ LoadLocalVar \/ LoadModuleVar \/ StoreLocalVar \/ StoreModuleVar \/ Pop \/ Call1
  BY <1>1, SimpleInstrs DEF PushNull, LoadLocalVar, LoadModuleVar, StoreLocalVar, StoreModuleVar, Pop, Call1, Step
<1>2. CASE Jump \/ Loop
  BY <1>2, JumpInstrs DEF Jump, Loop, Step
<1>3. CASE JumpIfFalse \/ AndOr
  BY <1>3, BranchInstrs DEF JumpIfFalse, AndOr, Step
<1>4. CASE CreateClosure \/ CloseUpvalue
  BY <1>4, UpvalueInstrs DEF CreateClosure, CloseUpvalue, Step
<1>5. CASE ReturnFrom
  BY <1>5, Returns DEF ReturnFrom
<1>6. CASE AssertionFails
  BY <1>6, Asserts DEF AssertionFails
<1>7. ~Over
  BY DEF Over
<1> QED
  BY <1>1, <1>2, <1>3, <1>4, <1>5, <1>6, <1>7 DEF Run

\* Only a unit being compiled takes statements, and only one that runs executes instructions.
LEMMA Phases ==
  /\ Compile => phase = "compile"
  /\ Run => phase = "run" \/ UNCHANGED vars
<1>1. Compile => phase = "compile"
  BY StillCompiling DEF EndUnit
<1>2. Run => phase = "run" \/ UNCHANGED vars
  BY DEF Run, PushNull, LoadLocalVar, LoadModuleVar, StoreLocalVar, StoreModuleVar, Pop, Call1, Jump, Loop, JumpIfFalse, AndOr,
         CreateClosure, CloseUpvalue, AssertionFails, ReturnFrom, Over, Fetch
<1> QED
  BY <1>1, <1>2

LEMMA CodeStep ==
  ASSUME CodeInv, Fits, Fits', [Next]_vars
  PROVE  CodeInv'
<1>1. ReadingOK(cu, scopes, todo) /\ ReadingOK(cu, scopes, todo)'
  BY ReadingStep DEF CodeInv
<1>2. CASE UNCHANGED vars
  <2>1. /\ cu' = cu /\ todo' = todo /\ scopes' = scopes /\ marks' = marks /\ jumps' = jumps /\ ends' = ends
        /\ phase' = phase /\ ip' = ip /\ depth' = depth /\ open' = open
    BY <1>2 DEF vars, source, machine
  <2>2. \A T : Compiling(T) => Compiling(T)'
    BY <2>1 DEF Compiling
  <2>3. \A T : Running(T) => Running(T)'
    BY <2>1 DEF Running, BreaksLeaveTheirLoop, Operand
  <2> QED
    BY <1>1, <2>1, <2>2, <2>3 DEF CodeInv
<1>3. CASE Compile /\ ~EndUnit
  <2>1. phase = "compile" /\ phase' = "compile"
    BY <1>3, StillCompiling
  <2>2. PICK T : Compiling(T)
    BY <2>1 DEF CodeInv
  <2>3. \E U : Compiling(U)'
    BY <1>1, <1>3, <2>2, CompileStep
  <2> QED
    BY <1>1, <2>1, <2>3 DEF CodeInv
<1>4. CASE EndUnit
  <2>1. phase = "compile" /\ phase' = "run"
    BY <1>4 DEF EndUnit
  <2>2. PICK T : Compiling(T)
    BY <2>1 DEF CodeInv
  <2>3. \E U : Running(U)'
    BY <1>1, <1>4, <2>2, EndUnitRuns
  <2> QED
    BY <1>1, <2>1, <2>3 DEF CodeInv
<1>5. CASE Run /\ phase = "run"
  <2>1. PICK T : Running(T)
    BY <1>5 DEF CodeInv
  <2>2. Running(T)' /\ phase' \in {"run", "over", "aborted"}
    BY <1>5, <2>1, RunStep
  <2> QED
    BY <1>1, <2>2 DEF CodeInv
<1> QED
  BY <1>2, <1>3, <1>4, <1>5, Phases DEF Next

-----------------------------------------------------------------------------
(***************************************************************************)
(* What the invariant says.                                                *)
(***************************************************************************)
LEMMA StackFollows ==
  ASSUME CodeInv
  PROVE  StackOK /\ NoOpenUpvalueLost
<1>1. CASE phase = "compile"
  <2>1. open = {}
    BY <1>1 DEF CodeInv, Compiling
  <2> QED
    BY <1>1, <2>1 DEF StackOK, StackMatchesScopes, StackWithinMax, NoOpenUpvalueLost
<1>2. CASE phase = "over"
  <2>1. open = {}
    BY <1>2 DEF CodeInv, Running
  <2> QED
    BY <1>2, <2>1 DEF StackOK, StackMatchesScopes, StackWithinMax, NoOpenUpvalueLost
<1>3. CASE phase = "aborted"
  <2>1. PICK T : Running(T)
    BY <1>3 DEF CodeInv
  <2>2. ip \in DOMAIN T /\ depth = T[ip].d /\ open \subseteq T[ip].c /\ Runs(cu, T)
    BY <1>3, <2>1 DEF Running
  <2>3. \A s \in T[ip].c : s < T[ip].d
    BY <2>2 DEF Runs, Stacks
  <2> QED
    BY <1>3, <2>2, <2>3 DEF StackOK, StackMatchesScopes, StackWithinMax, NoOpenUpvalueLost
<1>4. CASE phase = "run"
  <2>1. PICK T : Running(T)
    BY <1>4 DEF CodeInv
  <2>2. MarksOK(T, marks)
    BY <2>1 DEF Running
  <2>3. depth = T[ip].d /\ open \subseteq T[ip].c /\ InstrRuns(cu, T, ip) /\ \A s \in T[ip].c : s < T[ip].d
    BY <1>4, <2>1, NextInstr
  <2>4. StackOK
    BY <2>2, <2>3 DEF MarksOK, InstrRuns, StackOK, StackMatchesScopes, StackWithinMax
  <2>5. NoOpenUpvalueLost
    BY <2>3 DEF NoOpenUpvalueLost
  <2> QED
    BY <2>4, <2>5
<1> QED
  BY <1>1, <1>2, <1>3, <1>4 DEF CodeInv

LEMMA CodeFollows ==
  ASSUME CodeInv, Fits
  PROVE  CodeOK
<1>1. /\ cu.scopeDepth >= -1 /\ \A i \in DOMAIN cu.localVars : cu.localVars[i].scopeDepth <= cu.scopeDepth
      /\ Count(cu) \in Nat
  <2>1. ScopesOK(cu, scopes)
    BY DEF CodeInv, ReadingOK
  <2>2. Len(scopes) \in Nat /\ Len(scopes) = cu.scopeDepth + 1 /\ cu \in UnitTypes
    BY <2>1, ScopesFacts DEF ScopesOK
  <2>3. cu.scopeDepth \in Int /\ Count(cu) \in Nat
    BY <2>2, UnitFacts
  <2>4. DOMAIN cu.localVars = 1..Len(cu.localVars)
    BY <2>1, ScopesFacts
  <2>5. \A i \in 1..Len(cu.localVars) : cu.localVars[i].scopeDepth <= cu.scopeDepth
    BY <2>1, ScopesFacts
  <2>6. cu.scopeDepth >= -1
    BY <2>2, <2>3
  <2> QED
    BY <2>3, <2>4, <2>5, <2>6
<1>2. CASE phase = "compile"
  <2>1. PICK T : Compiling(T)
    BY <1>2 DEF CodeInv
  <2>2. Sound(cu, T, Waiting(cu, todo)) /\ ip = 0 /\ depth = 0
    BY <2>1 DEF Compiling, Good
  <2>3. cu.code \in Seq(Bytes) /\ cu.stackSlotNum \in 0..cu.maxSlots
    <3>1. /\ Count(cu) \in DOMAIN T /\ cu.stackSlotNum \in Int /\ cu.maxSlots \in Int /\ T[Count(cu)].d <= cu.stackSlotNum
          /\ T[Count(cu)].d \in Nat
      BY <2>2, SoundFacts
    <3>2. cu.stackSlotNum <= cu.maxSlots /\ cu.code \in Seq(Bytes)
      BY <2>2 DEF Sound, RoomOK
    <3> QED
      BY <3>1, <3>2
  <2>4. ip \in 0..Count(cu) /\ depth \in Nat
    BY <1>1, <2>2
  <2>5. TypeOK
    BY <1>1, <1>2, <2>3, <2>4 DEF TypeOK, Bytes
  <2> QED
    BY <1>2, <2>1, <2>5, BreaksWhileCompiling DEF CodeOK, DecodesInstructions, AbortsAtEmptyBodies
<1>3. CASE phase \in {"run", "over", "aborted"}
  <2>1. PICK T : Running(T)
    BY <1>3 DEF CodeInv
  <2>2. Runs(cu, T) /\ BreaksLeaveTheirLoop
    BY <2>1 DEF Running
  <2>3. ASSUME phase = "run"
        PROVE  ip \in Addresses(cu, 0) /\ ByteAt(cu, ip) # END /\ ip \in 0..Count(cu) /\ depth \in Nat
    <3>1. InstrRuns(cu, T, ip) /\ ip \in DOMAIN T /\ depth \in Nat
      BY <2>1, <2>3, NextInstr
    <3>2. DOMAIN T \subseteq 0..Count(cu) - 1
      BY <2>2 DEF Runs
    <3>3. ip \in 0..Count(cu)
      BY <1>1, <3>1, <3>2
    <3> QED
      BY <3>1, <3>3 DEF InstrRuns
  <2>4. ip \in 0..Count(cu) /\ depth \in Nat /\ (phase = "aborted" => Operand = 0)
    <3>1. CASE phase = "aborted"
      <4>1. ip \in DOMAIN T /\ depth = T[ip].d /\ Operand = 0 /\ DOMAIN T \subseteq 0..Count(cu) - 1 /\ T[ip] \in Stacks
        BY <2>1, <2>2, <3>1 DEF Running, Runs
      <4> QED
        BY <1>1, <4>1 DEF Stacks
    <3> QED
      BY <1>3, <2>1, <2>3, <3>1 DEF Running
  <2>5. TypeOK
    BY <1>1, <1>3, <2>2, <2>4 DEF TypeOK, Runs, Bytes
  <2> QED
    BY <2>2, <2>3, <2>4, <2>5 DEF CodeOK, DecodesInstructions, AbortsAtEmptyBodies
<1> QED
  BY <1>2, <1>3 DEF CodeInv

LEMMA CodeInit ==
  ASSUME Init, TRUE \in Units => ~ModuleLocals
  PROVE  CodeInv
<1>1. ReadingOK(cu, scopes, todo)
  BY ReadingInit
<1>2. phase = "compile"
  BY DEF Init
<1> QED
  BY <1>1, <1>2, CompilingInit DEF CodeInv

\* For programs whose code stays below what an int16_t holds, 32768 bytes, and whose variables fit a
\* byte, in any order of statements and on every way through them: on reaching a statement the stack holds the variables in scope
\* and nothing else, and it never outgrows what the function says it needs (writeOpCode(),
\* leaveScope(), discardLocalVar(), createFrame()).
THEOREM StackHoldsWhatIsInScope ==
  ASSUME TRUE \in Units => ~ModuleLocals
  PROVE  Spec /\ []Fits => []StackOK
<1>1. Init => CodeInv
  BY CodeInit
<1>2. CodeInv /\ Fits /\ Fits' /\ [Next]_vars => CodeInv'
  BY CodeStep
<1>3. CodeInv => StackOK
  BY StackFollows
<1> QED
  BY <1>1, <1>2, <1>3, PTL DEF Spec

\* For the same programs: however a block is left, the upvalues of its variables are closed before
\* their slots are given up (closeUpvalue(), discardLocalVar()).
THEOREM UpvaluesAreClosedInTime ==
  ASSUME TRUE \in Units => ~ModuleLocals
  PROVE  Spec /\ []Fits => []NoOpenUpvalueLost
<1>1. Init => CodeInv
  BY CodeInit
<1>2. CodeInv /\ Fits /\ Fits' /\ [Next]_vars => CodeInv'
  BY CodeStep
<1>3. CodeInv => NoOpenUpvalueLost
  BY StackFollows
<1> QED
  BY <1>1, <1>2, <1>3, PTL DEF Spec

\* For the same programs: the placeholders of breaks become jumps behind their loops, the machine
\* only executes instructions the compiler has written, never OPCODE_END, and the assertion that an
\* offset is positive stops it nowhere but at a jump over nothing (leaveLoopPatch(),
\* patchPlaceholder(), getBytesOfOperands(), executeInstruction()).
THEOREM ControlStaysOnInstructions ==
  ASSUME TRUE \in Units => ~ModuleLocals
  PROVE  Spec /\ []Fits => []CodeOK
<1>1. Init => CodeInv
  BY CodeInit
<1>2. CodeInv /\ Fits /\ Fits' /\ [Next]_vars => CodeInv'
  BY CodeStep
<1>3. CodeInv /\ Fits => CodeOK
  BY CodeFollows
<1> QED
  BY <1>1, <1>2, <1>3, PTL DEF Spec

=============================================================================
