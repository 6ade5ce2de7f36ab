----------------------------- MODULE NamesProof -----------------------------
(***************************************************************************)
(* For units nested to any depth: a name means the innermost declaration   *)
(* in sight, whatever the order of declarations, references and ends of    *)
(* units, and the tables of upvalues are those of the source.              *)
(***************************************************************************)
EXTENDS Names, Induction, SequenceTheorems, TLAPS

-----------------------------------------------------------------------------
(***************************************************************************)
(* Names, and the least and the greatest of a set of numbers.              *)
(***************************************************************************)
Plain == {<<n>> : n \in Name} \union {this, <<"">>}
Static == {Cls(c, n) : c \in Class, n \in Name}

\* The names in the tables do not get in each other's way.
LEMMA NamesApart ==
  /\ \A n, m \in Name : <<n>> = <<m>> => n = m
  /\ \A n \in Name : <<n>> # this /\ <<n>> # <<"">>
  /\ this # <<"">>
  /\ Plain \intersect Static = {}
  /\ \A c, b \in Class, n, m \in Name : Cls(c, n) = Cls(b, m) => c = b /\ n = m
  /\ \A c \in Class, n \in Name : Cls(c, n) \notin Plain
<1>1. \A n \in Name : n # "this" /\ n # ""
  BY NamesAssumption
<1>2. \A n, m : <<n>> = <<m>> => n = m
  OBVIOUS
<1>3. \A c, b, n, m : Cls(c, n) = Cls(b, m) => c = b /\ n = m
  BY DEF Cls
<1>4. \A c, n, m : Cls(c, n) # <<m>>
  <2> TAKE c, n, m
  <2>1. Len(Cls(c, n)) = 3 /\ Len(<<m>>) = 1
    BY DEF Cls
  <2> QED
    BY <2>1
<1>5. this = <<"this">>
  BY DEF this
<1>6. \A n \in Name : <<n>> # this /\ <<n>> # <<"">>
  BY <1>1, <1>2, <1>5
<1>7. this # <<"">>
  BY <1>2, <1>5
<1>8. \A c \in Class, n \in Name : Cls(c, n) \notin Plain
  <2> SUFFICES ASSUME NEW c \in Class, NEW n \in Name, Cls(c, n) \in Plain PROVE FALSE
    OBVIOUS
  <2>1. \E m : Cls(c, n) = <<m>>
    BY <1>5 DEF Plain
  <2> QED
    BY <2>1, <1>4
<1>9. Plain \intersect Static = {}
  BY <1>8 DEF Static
<1> HIDE DEF Cls, this
<1> QED
  BY ZenonT(40), <1>2, <1>3, <1>6, <1>7, <1>8, <1>9

LEMMA MaxIs ==
  ASSUME NEW S, NEW K \in Nat, S \subseteq 0..K, S # {}
  PROVE  Max(S) \in S /\ \A i \in S : i <= Max(S)
<1> DEFINE R == {K - i : i \in S}
<1>1. R \subseteq Nat /\ R # {}
  <2>1. \A i \in S : i \in 0..K /\ K - i \in Nat
    OBVIOUS
  <2>2. \E i : i \in S
    OBVIOUS
  <2> QED
    BY <2>1, <2>2
<1>2. PICK n \in R : \A m \in R : n <= m
  BY <1>1, LeastNumber
<1>3. PICK i \in S : n = K - i
  BY <1>2
<1>4. \A j \in S : j <= i
  <2> TAKE j \in S
  <2>1. K - j \in R /\ i \in 0..K /\ j \in 0..K
    BY <1>3
  <2> QED
    BY <1>2, <1>3, <2>1
<1> QED
  BY <1>4, <1>3 DEF Max

LEMMA MinIs ==
  ASSUME NEW S, S \subseteq Nat, S # {}
  PROVE  Min(S) \in S /\ \A i \in S : Min(S) <= i
BY LeastNumber DEF Min

-----------------------------------------------------------------------------
(***************************************************************************)
(* Chains of units, and what their upvalues stand for.                     *)
(***************************************************************************)
Kind == {"module", "method", "fn", "block", "class", "scope"}
LocalVar == [name : Plain \union Static, scopeDepth : Int, isUpvalue : BOOLEAN, id : Nat]
Upvalue == [isEnclosingLocalVar : BOOLEAN, index : Nat]
UnitType == [kind : Kind, scopeDepth : Int, localVars : Seq(LocalVar), upvalues : Seq(Upvalue)]

Below(d, i, e, j) == d < e \/ (d = e /\ i < j)

\* Variables that are declared later have higher numbers, also in inner units.
LocalsInOrder(us) ==
  \A d, e \in 1..Len(us) : \A i \in 1..Len(us[d].localVars), j \in 1..Len(us[e].localVars) :
    Below(d, i, e, j) => us[d].localVars[i].id < us[e].localVars[j].id

\* An upvalue refers to what the unit around it has.
UpvaluesInBounds(us) ==
  /\ us[1].upvalues = <<>>
  /\ \A d \in 2..Len(us) : \A i \in 1..Len(us[d].upvalues) :
       us[d].upvalues[i].index <
         (IF us[d].upvalues[i].isEnclosingLocalVar THEN Len(us[d - 1].localVars) ELSE Len(us[d - 1].upvalues))

\* The variable of an upvalue, when table has those of the unit around it.
Origin(us, table, e, u) ==
  IF u.isEnclosingLocalVar THEN us[e - 1].localVars[u.index + 1].id ELSE table[u.index + 1]

\* The tables of all units by which closures are made.
IsTable(T, us) ==
  T = [e \in 0..Len(us) |->
         IF e = 0 THEN <<>>
         ELSE [i \in DOMAIN us[e].upvalues |-> Origin(us, T[e - 1], e, us[e].upvalues[i])]]

\* They are what Denotes computes.
LEMMA DenotesIs ==
  ASSUME NEW us, Len(us) \in Nat, NEW T, IsTable(T, us), NEW d \in 0..Len(us), NEW i
  PROVE  Denotes(us, d, i) = T[d][i + 1]
<1> DEFINE Body(f) == [e \in 0..Len(us) |->
             IF e = 0 THEN <<>>
             ELSE [j \in DOMAIN us[e].upvalues |-> Origin(us, f[e - 1], e, us[e].upvalues[j])]]
           at == CHOOSE f : f = Body(f)
           K == Len(us)
           S == {e \in 0..K : at[e] = T[e]}
<1>1. T = Body(T)
  BY DEF IsTable
<1>2. at = Body(at)
  BY <1>1
<1>3. Denotes(us, d, i) = at[d][i + 1]
  BY DEF Denotes, Origin
<1> HIDE DEF at
<1>4. at[0] = T[0]
  <2>1. Body(at)[0] = <<>> /\ Body(T)[0] = <<>>
    OBVIOUS
  <2> QED
    BY <1>1, <1>2, <2>1
<1>5. ASSUME NEW e \in 0..(K - 1), at[e] = T[e] PROVE at[e + 1] = T[e + 1]
  <2>1. e + 1 \in 0..K /\ e + 1 # 0 /\ (e + 1) - 1 = e
    OBVIOUS
  <2>2. Body(at)[e + 1] = Body(T)[e + 1]
    BY <1>5, <2>1
  <2> QED
    BY <1>1, <1>2, <2>2
<1>6. 0..K \subseteq S
  <2>1. 0 \in S
    BY <1>4
  <2>2. ASSUME NEW e \in 0..(K - 1), e \in S PROVE e + 1 \in S
    BY <1>5, <2>2
  <2> HIDE DEF S
  <2> QED
    BY <2>1, <2>2, InductionUpTo
<1> QED
  BY <1>3, <1>6

\* The tables, unit by unit.
Tables(T, us) ==
  /\ T = [e \in 0..Len(us) |-> T[e]] /\ T[0] = <<>>
  /\ \A e \in 1..Len(us) :
       T[e] = [i \in DOMAIN us[e].upvalues |-> Origin(us, T[e - 1], e, us[e].upvalues[i])]

LEMMA TableIs ==
  ASSUME NEW us, Len(us) \in Nat, NEW T
  PROVE  IsTable(T, us) <=> Tables(T, us)
<1> DEFINE Row(f, e) == IF e = 0 THEN <<>>
                        ELSE [i \in DOMAIN us[e].upvalues |-> Origin(us, f[e - 1], e, us[e].upvalues[i])]
           Body(f) == [e \in 0..Len(us) |-> Row(f, e)]
<1>1. IsTable(T, us) <=> T = Body(T)
  BY DEF IsTable
<1>2. Tables(T, us) <=> T = [e \in 0..Len(us) |-> T[e]] /\ \A e \in 0..Len(us) : T[e] = Row(T, e)
  <2>1. 0 \in 0..Len(us) /\ \A e \in 0..Len(us) : e = 0 \/ e \in 1..Len(us)
    OBVIOUS
  <2>2. \A e \in 1..Len(us) : e # 0 /\ e \in 0..Len(us)
    OBVIOUS
  <2> QED
    BY <2>1, <2>2 DEF Tables
<1>3. ASSUME T = Body(T) PROVE T = [e \in 0..Len(us) |-> T[e]] /\ \A e \in 0..Len(us) : T[e] = Row(T, e)
  <2> DEFINE g == T
  <2>1. g = Body(T)
    BY <1>3
  <2> HIDE DEF g, Row
  <2>2. g = [e \in 0..Len(us) |-> g[e]] /\ \A e \in 0..Len(us) : g[e] = Row(T, e)
    BY <2>1
  <2> QED
    BY <2>2 DEF g
<1>4. ASSUME T = [e \in 0..Len(us) |-> T[e]], \A e \in 0..Len(us) : T[e] = Row(T, e) PROVE T = Body(T)
  <2> DEFINE g == T
  <2>1. g = [e \in 0..Len(us) |-> g[e]] /\ \A e \in 0..Len(us) : g[e] = Row(T, e)
    BY <1>4 DEF g
  <2> HIDE DEF g, Row
  <2>2. g = Body(T)
    BY <2>1
  <2> QED
    BY <2>2 DEF g
<1> QED
  BY <1>1, <1>2, <1>3, <1>4

\* Every upvalue stands for a variable of a unit further out, and no two for the same.
Distinct(T, us) ==
  /\ \A d \in 1..Len(us) : \A i \in 1..Len(us[d].upvalues) :
       \E e \in 1..(d - 1) : \E j \in 1..Len(us[e].localVars) : T[d][i] = us[e].localVars[j].id
  /\ \A d \in 1..Len(us) : \A i, j \in 1..Len(us[d].upvalues) : T[d][i] = T[d][j] => i = j

Sound(us, T) ==
  /\ us \in Seq(UnitType) /\ us # <<>>
  /\ LocalsInOrder(us) /\ UpvaluesInBounds(us) /\ IsTable(T, us) /\ Distinct(T, us)
LEMMA UnitFacts ==
  ASSUME NEW us \in Seq(UnitType)
  PROVE  /\ Len(us) \in Nat /\ DOMAIN us = 1..Len(us)
         /\ \A d \in 1..Len(us) :
              /\ us[d] \in UnitType
              /\ us[d].localVars \in Seq(LocalVar) /\ Len(us[d].localVars) \in Nat
              /\ DOMAIN us[d].localVars = 1..Len(us[d].localVars)
              /\ \A j \in 1..Len(us[d].localVars) : us[d].localVars[j] \in LocalVar
              /\ us[d].upvalues \in Seq(Upvalue) /\ Len(us[d].upvalues) \in Nat
              /\ DOMAIN us[d].upvalues = 1..Len(us[d].upvalues)
              /\ \A j \in 1..Len(us[d].upvalues) : us[d].upvalues[j] \in Upvalue
<1>1. Len(us) \in Nat /\ DOMAIN us = 1..Len(us) /\ \A d \in 1..Len(us) : us[d] \in UnitType
  BY LenProperties, ElementOfSeq
<1>2. \A d \in 1..Len(us) : us[d].localVars \in Seq(LocalVar) /\ us[d].upvalues \in Seq(Upvalue)
  BY <1>1 DEF UnitType
<1> HIDE DEF UnitType
<1> QED
  BY <1>1, <1>2, LenProperties, ElementOfSeq

\* findLocal(): the last variable of that name.
LEMMA FindLocalIs ==
  ASSUME NEW unit \in UnitType, NEW name
  PROVE  \/ /\ FindLocal(unit, name) = -1
            /\ \A j \in 1..Len(unit.localVars) : unit.localVars[j].name # name
         \/ \E j \in 1..Len(unit.localVars) :
              /\ FindLocal(unit, name) = j - 1 /\ unit.localVars[j].name = name
              /\ \A i \in 1..Len(unit.localVars) : unit.localVars[i].name = name => i <= j
<1> DEFINE same == {i \in DOMAIN unit.localVars : unit.localVars[i].name = name}
<1>1. unit.localVars \in Seq(LocalVar)
  BY DEF UnitType
<1>2. Len(unit.localVars) \in Nat /\ DOMAIN unit.localVars = 1..Len(unit.localVars)
  BY <1>1, LenProperties
<1>3. CASE same = {}
  BY <1>2, <1>3 DEF FindLocal
<1>4. CASE same # {}
  <2>1. same \subseteq 0..Len(unit.localVars)
    BY <1>2
  <2>2. Max(same) \in same /\ \A i \in same : i <= Max(same)
    BY <1>2, <1>4, <2>1, MaxIs
  <2>3. FindLocal(unit, name) = Max(same) - 1
    BY <1>4 DEF FindLocal
  <2> HIDE DEF FindLocal
  <2> QED
    BY <1>2, <2>2, <2>3
<1> QED
  BY <1>3, <1>4

\* The chain vs has the variables of us, and its upvalues stand for what they stood for.
SameLocals(us, vs) ==
  /\ Len(vs) = Len(us)
  /\ \A d \in 1..Len(us) :
       /\ vs[d].kind = us[d].kind /\ vs[d].scopeDepth = us[d].scopeDepth
       /\ Len(vs[d].localVars) = Len(us[d].localVars)
       /\ \A j \in 1..Len(us[d].localVars) :
            /\ vs[d].localVars[j].name = us[d].localVars[j].name
            /\ vs[d].localVars[j].scopeDepth = us[d].localVars[j].scopeDepth
            /\ vs[d].localVars[j].id = us[d].localVars[j].id

\* ... and of its variables those of us are marked, and that of number x.
MarksMore(us, vs, x) ==
  \A d \in 1..Len(us) : \A j \in 1..Len(us[d].localVars) :
    vs[d].localVars[j].isUpvalue <=> us[d].localVars[j].isUpvalue \/ us[d].localVars[j].id = x

SameMarks(us, vs) ==
  \A d \in 1..Len(us) : \A j \in 1..Len(us[d].localVars) :
    vs[d].localVars[j].isUpvalue <=> us[d].localVars[j].isUpvalue

\* Two upvalues of a unit that refer to different things stand for different variables.
LEMMA OriginsDiffer ==
  ASSUME NEW us, NEW T, Sound(us, T), NEW d \in 2..Len(us),
         NEW u \in Upvalue, NEW w \in Upvalue,
         u.index < IF u.isEnclosingLocalVar THEN Len(us[d - 1].localVars) ELSE Len(us[d - 1].upvalues),
         w.index < IF w.isEnclosingLocalVar THEN Len(us[d - 1].localVars) ELSE Len(us[d - 1].upvalues),
         Origin(us, T[d - 1], d, u) = Origin(us, T[d - 1], d, w)
  PROVE  u.index = w.index /\ u.isEnclosingLocalVar = w.isEnclosingLocalVar
<1> DEFINE e == d - 1
<1>1. Len(us) \in Nat /\ e \in 1..Len(us) /\ Len(us[e].localVars) \in Nat /\ Len(us[e].upvalues) \in Nat
  BY UnitFacts DEF Sound
<1>2. u.index + 1 \in Nat /\ w.index + 1 \in Nat /\ u.index \in Nat /\ w.index \in Nat
      /\ u.isEnclosingLocalVar \in BOOLEAN /\ w.isEnclosingLocalVar \in BOOLEAN
  BY DEF Upvalue
<1>3. ASSUME NEW f \in 1..Len(us), NEW i \in 1..Len(us[e].localVars), NEW j \in 1..Len(us[f].localVars),
             us[e].localVars[i].id = us[f].localVars[j].id
      PROVE  f = e /\ i = j
  <2>0. Len(us[f].localVars) \in Nat /\ us[f].localVars[j] \in LocalVar /\ us[e].localVars[i] \in LocalVar
    BY <1>1, UnitFacts DEF Sound
  <2>1. us[e].localVars[i].id \in Nat /\ us[f].localVars[j].id \in Nat
    BY <2>0 DEF LocalVar
  <2>2. ~Below(e, i, f, j) /\ ~Below(f, j, e, i)
    BY <1>1, <1>3, <2>1 DEF Sound, LocalsInOrder
  <2> QED
    BY <1>1, <2>0, <2>2 DEF Below
<1> HIDE DEF e
<1>4. CASE u.isEnclosingLocalVar /\ w.isEnclosingLocalVar
  <2>1. u.index + 1 \in 1..Len(us[e].localVars) /\ w.index + 1 \in 1..Len(us[e].localVars)
    BY <1>1, <1>2, <1>4 DEF e
  <2>2. us[e].localVars[u.index + 1].id = us[e].localVars[w.index + 1].id
    BY <1>4 DEF Origin, e
  <2>3. u.index + 1 = w.index + 1
    BY SMTT(30), <1>1, <1>3, <2>1, <2>2
  <2> QED
    BY <1>2, <1>4, <2>3
<1>5. CASE ~u.isEnclosingLocalVar /\ ~w.isEnclosingLocalVar
  <2>1. u.index + 1 \in 1..Len(us[e].upvalues) /\ w.index + 1 \in 1..Len(us[e].upvalues)
    BY SMTT(30), <1>1, <1>2, <1>5 DEF e
  <2>2. T[e][u.index + 1] = T[e][w.index + 1]
    BY <1>5 DEF Origin, e
  <2>3. u.index + 1 = w.index + 1
    BY <1>1, <2>1, <2>2 DEF Sound, Distinct
  <2> QED
    BY <1>2, <1>5, <2>3
<1>6. ASSUME NEW v \in Upvalue, NEW x \in Upvalue, v.isEnclosingLocalVar, ~x.isEnclosingLocalVar,
             v.index < Len(us[e].localVars), x.index < Len(us[e].upvalues),
             Origin(us, T[e], d, v) = Origin(us, T[e], d, x)
      PROVE  FALSE
  <2>1. v.index + 1 \in 1..Len(us[e].localVars) /\ x.index + 1 \in 1..Len(us[e].upvalues)
    BY <1>1, <1>6 DEF Upvalue
  <2>2. PICK f \in 1..(e - 1) : \E j \in 1..Len(us[f].localVars) : T[e][x.index + 1] = us[f].localVars[j].id
    BY <1>1, <2>1 DEF Sound, Distinct
  <2>3. PICK j \in 1..Len(us[f].localVars) : T[e][x.index + 1] = us[f].localVars[j].id
    BY <2>2
  <2>4. us[e].localVars[v.index + 1].id = us[f].localVars[j].id
    BY <1>6, <2>3 DEF Origin, e
  <2>5. f \in 1..Len(us) /\ f # e
    BY <1>1
  <2> QED
    BY <1>3, <2>1, <2>4, <2>5
<1> QED
  BY <1>2, <1>4, <1>5, <1>6 DEF e

\* r gives the units, and the index of an upvalue of the unit at depth d that stands for
\* variable x; all is as in us but for that upvalue.
Added(us, d, r, x) ==
  \E T2 : /\ Sound(r.units, T2) /\ SameLocals(us, r.units) /\ SameMarks(us, r.units)
          /\ r.index \in Nat /\ r.index < Len(r.units[d].upvalues)
          /\ T2[d][r.index + 1] = x

\* addUpvalue(): the way to a variable is there afterwards, and once.
LEMMA AddUpvalueIs ==
  ASSUME NEW us, NEW T, Sound(us, T), NEW d \in 2..Len(us), NEW b \in BOOLEAN, NEW n \in Nat,
         n < IF b THEN Len(us[d - 1].localVars) ELSE Len(us[d - 1].upvalues)
  PROVE  Added(us, d, AddUpvalue(us, d, b, n), Origin(us, T[d - 1], d, [isEnclosingLocalVar |-> b, index |-> n]))
<1> DEFINE new == [isEnclosingLocalVar |-> b, index |-> n]
           x == Origin(us, T[d - 1], d, new)
           there == {i \in DOMAIN us[d].upvalues : SameUpvalue(us[d].upvalues[i], b, n)}
           m == Len(us[d].upvalues)
           r == AddUpvalue(us, d, b, n)
<1>0. new \in Upvalue /\ new.index = n /\ new.isEnclosingLocalVar = b
  BY DEF Upvalue
<1>1. us \in Seq(UnitType) /\ Len(us) \in Nat /\ d \in 1..Len(us) /\ d - 1 \in 1..Len(us)
  BY UnitFacts DEF Sound
<1>2. /\ m \in Nat /\ DOMAIN us[d].upvalues = 1..m /\ us[d].upvalues \in Seq(Upvalue)
      /\ \A j \in 1..m : us[d].upvalues[j] \in Upvalue
  BY <1>1, UnitFacts
<1>3. \A e \in 1..Len(us) : T[e] = [i \in DOMAIN us[e].upvalues |-> Origin(us, T[e - 1], e, us[e].upvalues[i])]
  BY <1>1, TableIs DEF Sound, Tables
<1>4. \A i \in 1..m : T[d][i] = Origin(us, T[d - 1], d, us[d].upvalues[i])
  BY <1>1, <1>2, <1>3
<1> HIDE DEF new
<1>5. CASE there # {}
  <2>1. there \subseteq Nat
    BY <1>2
  <2>2. Min(there) \in there
    BY <1>5, <2>1, MinIs
  <2>3. r.units = us /\ r.index = Min(there) - 1
    BY <1>5 DEF AddUpvalue
  <2> DEFINE i == Min(there)
  <2> HIDE DEF i, r
  <2>4. i \in 1..m /\ us[d].upvalues[i].index = n /\ us[d].upvalues[i].isEnclosingLocalVar = b
    BY <1>2, <2>2 DEF i, SameUpvalue
  <2>5. us[d].upvalues[i] = new
    BY SMTT(30), <1>0, <1>2, <2>4 DEF Upvalue
  <2>6. r.index \in Nat /\ r.index < Len(us[d].upvalues) /\ r.index + 1 = i
    BY <1>2, <2>3, <2>4 DEF i
  <2>7. T[d][i] = x
    BY <1>4, <2>4, <2>5
  <2>8. SameLocals(us, us) /\ SameMarks(us, us)
    BY <1>1 DEF SameLocals, SameMarks
  <2> QED
    BY <2>3, <2>6, <2>7, <2>8 DEF r, new, Added
<1>6. CASE there = {}
  <2> DEFINE vs == [us EXCEPT ![d].upvalues = Append(@, new)]
             T2 == [T EXCEPT ![d] = [i \in 1..(m + 1) |-> IF i = m + 1 THEN x ELSE T[d][i]]]
  <2>1. r.units = vs /\ r.index = m
    BY <1>6 DEF AddUpvalue, new
  <2>2. /\ Append(us[d].upvalues, new) \in Seq(Upvalue) /\ Len(Append(us[d].upvalues, new)) = m + 1
        /\ \A i \in 1..m : Append(us[d].upvalues, new)[i] = us[d].upvalues[i]
        /\ Append(us[d].upvalues, new)[m + 1] = new
    BY <1>0, <1>2, AppendProperties
  <2>3. /\ DOMAIN us = 1..Len(us) /\ \A e \in 1..Len(us) : us[e] \in UnitType
        /\ \A e \in 1..Len(us) : DOMAIN us[e].upvalues = 1..Len(us[e].upvalues) /\ Len(us[e].upvalues) \in Nat
    BY <1>1, UnitFacts
  <2> HIDE DEF x
  <2>4. /\ \A e \in 1..Len(us) : vs[e].localVars = us[e].localVars /\ vs[e].kind = us[e].kind
                                 /\ vs[e].scopeDepth = us[e].scopeDepth
        /\ \A e \in 1..Len(us) : e # d => vs[e].upvalues = us[e].upvalues
        /\ vs[d].upvalues = Append(us[d].upvalues, new)
    BY <1>1, <2>3 DEF UnitType
  <2>5. vs \in Seq(UnitType) /\ Len(vs) = Len(us) /\ vs # <<>>
    <3>1. [us[d] EXCEPT !.upvalues = Append(us[d].upvalues, new)] \in UnitType
      BY <1>1, <2>2, <2>3 DEF UnitType
    <3>2. vs = [us EXCEPT ![d] = [us[d] EXCEPT !.upvalues = Append(us[d].upvalues, new)]]
      BY <1>1
    <3>3. vs \in Seq(UnitType) /\ Len(vs) = Len(us)
      BY <1>1, <3>1, <3>2, ExceptSeq
    <3> QED
      BY <1>1, <3>3, EmptySeq
  <2>6. /\ T2[d] = [i \in 1..(m + 1) |-> IF i = m + 1 THEN x ELSE T[d][i]]
        /\ \A e \in 0..Len(us) : e # d => T2[e] = T[e]
        /\ T2 = [e \in 0..Len(us) |-> T2[e]]
    <3>1. T = [e \in 0..Len(us) |-> T[e]] /\ d \in 0..Len(us)
      BY <1>1, TableIs DEF Sound, Tables
    <3> DEFINE row == [i \in 1..(m + 1) |-> IF i = m + 1 THEN x ELSE T[d][i]]
    <3>2. T2 = [T EXCEPT ![d] = row]
      OBVIOUS
    <3> HIDE DEF row, T2
    <3>3. T2[d] = row /\ (\A e \in 0..Len(us) : e # d => T2[e] = T[e]) /\ T2 = [e \in 0..Len(us) |-> T2[e]]
      BY <3>1, <3>2
    <3> QED
      BY <3>3 DEF row
  <2> HIDE DEF vs, T2, r
  <2>7. LocalsInOrder(vs) /\ SameLocals(us, vs) /\ SameMarks(us, vs)
    BY <2>4, <2>5 DEF Sound, LocalsInOrder, SameLocals, SameMarks
  <2>8. \A e \in 1..Len(us) : Len(us[e].upvalues) <= Len(vs[e].upvalues)
    BY <2>2, <2>3, <2>4
  <2>9. UpvaluesInBounds(vs)
    <3>1. vs[1].upvalues = <<>>
      BY <1>1, <2>4 DEF Sound, UpvaluesInBounds
    <3>2. ASSUME NEW e \in 2..Len(us), NEW i \in 1..Len(vs[e].upvalues)
          PROVE  vs[e].upvalues[i].index <
                   (IF vs[e].upvalues[i].isEnclosingLocalVar THEN Len(vs[e - 1].localVars) ELSE Len(vs[e - 1].upvalues))
      <4>1. /\ e \in 1..Len(us) /\ e - 1 \in 1..Len(us) /\ Len(us[e - 1].upvalues) <= Len(vs[e - 1].upvalues)
            /\ Len(us[e - 1].upvalues) \in Nat /\ Len(vs[e - 1].upvalues) \in Nat /\ vs[e - 1].localVars = us[e - 1].localVars
        BY <1>1, <2>3, <2>4, <2>5, <2>8, UnitFacts
      <4>2. CASE i \in 1..Len(us[e].upvalues)
        <5>1. vs[e].upvalues[i] = us[e].upvalues[i] /\ us[e].upvalues[i] \in Upvalue
          BY <1>1, <2>2, <2>4, <4>1, <4>2, UnitFacts
        <5>2. us[e].upvalues[i].index <
                (IF us[e].upvalues[i].isEnclosingLocalVar THEN Len(us[e - 1].localVars) ELSE Len(us[e - 1].upvalues))
          BY <4>2 DEF Sound, UpvaluesInBounds
        <5> QED
          BY SMTT(30), <4>1, <5>1, <5>2 DEF Upvalue
      <4>3. CASE e = d /\ i = m + 1
        <5>1. vs[e].upvalues[i] = new
          BY <2>2, <2>4, <4>3
        <5>2. n < IF b THEN Len(vs[e - 1].localVars) ELSE Len(vs[e - 1].upvalues)
          BY <4>1, <4>3
        <5> QED
          BY <1>0, <5>1, <5>2
      <4> QED
        BY SMTT(30), <1>2, <2>2, <2>4, <4>1, <4>2, <4>3
    <3> QED
      BY <2>5, <3>1, <3>2 DEF UpvaluesInBounds
  <2>10. IsTable(T2, vs)
    <3> SUFFICES ASSUME NEW e \in 1..Len(us)
                 PROVE  T2[e] = [i \in DOMAIN vs[e].upvalues |-> Origin(vs, T2[e - 1], e, vs[e].upvalues[i])]
      <4>1. T[0] = <<>> /\ 0 # d /\ 0 \in 0..Len(us)
        BY <1>1, TableIs DEF Sound, Tables
      <4>2. T2[0] = <<>>
        BY <2>6, <4>1
      <4> QED
        BY <1>1, <2>5, <2>6, <4>2, TableIs DEF Tables
    <3>1. \A u \in Upvalue : e # 1 /\ u.index < (IF u.isEnclosingLocalVar THEN Len(us[e - 1].localVars) ELSE Len(us[e - 1].upvalues))
            => Origin(vs, T2[e - 1], e, u) = Origin(us, T[e - 1], e, u)
      <4> SUFFICES ASSUME NEW u \in Upvalue, e # 1,
                          u.index < (IF u.isEnclosingLocalVar THEN Len(us[e - 1].localVars) ELSE Len(us[e - 1].upvalues))
                   PROVE  Origin(vs, T2[e - 1], e, u) = Origin(us, T[e - 1], e, u)
        OBVIOUS
      <4>1. e - 1 \in 1..Len(us) /\ vs[e - 1].localVars = us[e - 1].localVars
        BY <1>1, <2>4
      <4>2. CASE u.isEnclosingLocalVar
        BY <4>1, <4>2 DEF Origin
      <4>3. CASE ~u.isEnclosingLocalVar
        <5>1. u.index + 1 \in 1..Len(us[e - 1].upvalues)
          BY <2>3, <4>1, <4>3 DEF Upvalue
        <5>2. T2[e - 1][u.index + 1] = T[e - 1][u.index + 1]
          <6>1. e - 1 \in 0..Len(us)
            BY <4>1
          <6>2. e - 1 = d => u.index + 1 \in 1..(m + 1) /\ u.index + 1 # m + 1
            BY <1>2, <5>1
          <6> QED
            BY <2>6, <6>1, <6>2
        <5> QED
          BY <4>3, <5>2 DEF Origin
      <4> QED
        BY <4>2, <4>3
    <3>2. \A i \in 1..Len(us[e].upvalues) : e # 1 /\ us[e].upvalues[i] \in Upvalue
              /\ us[e].upvalues[i].index < (IF us[e].upvalues[i].isEnclosingLocalVar THEN Len(us[e - 1].localVars) ELSE Len(us[e - 1].upvalues))
      <4>1. us[1].upvalues = <<>> /\ Len(us[1].upvalues) = 0
        BY DEF Sound, UpvaluesInBounds
      <4> QED
        BY <1>1, <4>1, UnitFacts DEF Sound, UpvaluesInBounds
    <3>3. CASE e = d
      <4>1. DOMAIN vs[d].upvalues = 1..(m + 1)
        BY <1>1, <2>2, <2>4, <2>5, UnitFacts
      <4>2. \A i \in 1..m : T2[d][i] = Origin(vs, T2[d - 1], d, vs[d].upvalues[i])
        <5> TAKE i \in 1..m
        <5>1. T2[d][i] = T[d][i] /\ vs[d].upvalues[i] = us[d].upvalues[i]
          BY <1>2, <2>2, <2>4, <2>6
        <5> QED
          BY <1>4, <3>1, <3>2, <3>3, <5>1
      <4>3. T2[d][m + 1] = Origin(vs, T2[d - 1], d, vs[d].upvalues[m + 1])
        <5>1. T2[d][m + 1] = x /\ vs[d].upvalues[m + 1] = new
          BY <1>2, <2>2, <2>4, <2>6
        <5>2. Origin(vs, T2[d - 1], d, new) = Origin(us, T[d - 1], d, new)
          BY <1>0, <1>1, <3>1, <3>3
        <5> QED
          BY <5>1, <5>2 DEF x
      <4> DEFINE F(i) == Origin(vs, T2[d - 1], d, vs[d].upvalues[i])
      <4>4. \A i \in 1..(m + 1) : T2[d][i] = F(i)
        <5> HIDE DEF F
        <5>1. \A i \in 1..m : T2[d][i] = F(i)
          BY <4>2 DEF F
        <5>2. T2[d][m + 1] = F(m + 1)
          BY <4>3 DEF F
        <5> QED
          BY <1>2, <5>1, <5>2
      <4> HIDE DEF F
      <4>5. T2[d] = [i \in 1..(m + 1) |-> F(i)]
        BY <2>6, <4>4
      <4> QED
        BY <3>3, <4>1, <4>5 DEF F
    <3>4. CASE e # d
      <4>1. vs[e].upvalues = us[e].upvalues /\ T2[e] = T[e]
        BY <2>4, <2>6, <3>4
      <4>2. \A i \in 1..Len(us[e].upvalues) :
              Origin(vs, T2[e - 1], e, us[e].upvalues[i]) = Origin(us, T[e - 1], e, us[e].upvalues[i])
        BY <3>1, <3>2
      <4>3. [i \in DOMAIN us[e].upvalues |-> Origin(vs, T2[e - 1], e, us[e].upvalues[i])]
              = [i \in DOMAIN us[e].upvalues |-> Origin(us, T[e - 1], e, us[e].upvalues[i])]
        BY <2>3, <4>2
      <4> QED
        BY <1>3, <4>1, <4>3
    <3> QED
      BY <3>3, <3>4
  <2>11. Distinct(T2, vs)
    <3>1. \E e \in 1..(d - 1) : \E j \in 1..Len(us[e].localVars) : x = us[e].localVars[j].id
      <4>1. CASE b
        <5>1. n + 1 \in 1..Len(us[d - 1].localVars)
          BY <1>1, <4>1, UnitFacts
        <5>2. x = us[d - 1].localVars[n + 1].id
          BY <1>0, <4>1 DEF x, Origin
        <5> QED
          BY <1>1, <5>1, <5>2
      <4>2. CASE ~b
        <5>1. n + 1 \in 1..Len(us[d - 1].upvalues)
          BY <1>1, <4>2, UnitFacts
        <5>2. x = T[d - 1][n + 1]
          BY <1>0, <4>2 DEF x, Origin
        <5>3. PICK e \in 1..((d - 1) - 1) : \E j \in 1..Len(us[e].localVars) : x = us[e].localVars[j].id
          <6> DEFINE c == d - 1
          <6>1. c \in 1..Len(us) /\ n + 1 \in 1..Len(us[c].upvalues) /\ x = T[c][n + 1]
            BY <1>1, <5>1, <5>2
          <6> HIDE DEF c
          <6>2. \E e \in 1..(c - 1) : \E j \in 1..Len(us[e].localVars) : T[c][n + 1] = us[e].localVars[j].id
            BY <6>1 DEF Sound, Distinct
          <6> QED
            BY <6>1, <6>2 DEF c
        <5>4. e \in 1..(d - 1)
          OBVIOUS
        <5> QED
          BY <5>3, <5>4
      <4> QED
        BY <4>1, <4>2
    <3>2. \A i \in 1..m : T[d][i] # x
      <4> SUFFICES ASSUME NEW i \in 1..m, T[d][i] = x PROVE FALSE
        OBVIOUS
      <4>1. us[d].upvalues[i] \in Upvalue
            /\ us[d].upvalues[i].index < (IF us[d].upvalues[i].isEnclosingLocalVar THEN Len(us[d - 1].localVars) ELSE Len(us[d - 1].upvalues))
        BY <1>2 DEF Sound, UpvaluesInBounds
      <4>2. Origin(us, T[d - 1], d, us[d].upvalues[i]) = Origin(us, T[d - 1], d, new)
        BY <1>4 DEF x
      <4>3. us[d].upvalues[i].index = n /\ us[d].upvalues[i].isEnclosingLocalVar = b
        BY <1>0, <4>1, <4>2, OriginsDiffer
      <4> QED
        BY <1>2, <1>6, <4>3 DEF SameUpvalue
    <3>3. \A e \in 1..Len(us) : Len(vs[e].upvalues) = IF e = d THEN m + 1 ELSE Len(us[e].upvalues)
      BY <2>2, <2>4
    <3>4. \A e \in 1..Len(us) : \A i \in 1..Len(us[e].upvalues) : T2[e][i] = T[e][i]
      BY SMTT(30), <1>2, <2>3, <2>6
    <3>5. T2[d][m + 1] = x
      BY <1>2, <2>6
    <3>6. ASSUME NEW e \in 1..Len(us), NEW i \in 1..Len(vs[e].upvalues)
          PROVE  \E f \in 1..(e - 1) : \E j \in 1..Len(us[f].localVars) : T2[e][i] = us[f].localVars[j].id
      <4>1. CASE e = d /\ i = m + 1
        BY <3>1, <3>5, <4>1
      <4>2. CASE i \in 1..Len(us[e].upvalues)
        <5>1. T2[e][i] = T[e][i]
          BY <3>4, <4>2
        <5>2. \E f \in 1..(e - 1) : \E j \in 1..Len(us[f].localVars) : T[e][i] = us[f].localVars[j].id
          BY <4>2 DEF Sound, Distinct
        <5> QED
          BY <5>1, <5>2
      <4> QED
        BY <1>2, <2>3, <3>3, <4>1, <4>2
    <3>7. ASSUME NEW e \in 1..Len(us), NEW i \in 1..Len(vs[e].upvalues), NEW j \in 1..Len(vs[e].upvalues),
                 T2[e][i] = T2[e][j]
          PROVE  i = j
      <4>1. CASE i \in 1..Len(us[e].upvalues) /\ j \in 1..Len(us[e].upvalues)
        <5>1. T[e][i] = T[e][j]
          BY <3>4, <3>7, <4>1
        <5> QED
          BY <4>1, <5>1 DEF Sound, Distinct
      <4>2. CASE e = d /\ i = m + 1 /\ j \in 1..m
        BY <3>2, <3>4, <3>5, <3>7, <4>2
      <4>3. CASE e = d /\ j = m + 1 /\ i \in 1..m
        BY <3>2, <3>4, <3>5, <3>7, <4>3
      <4>4. i \in 1..Len(us[e].upvalues) \/ (e = d /\ i = m + 1)
        BY <1>2, <2>3, <3>3
      <4>5. j \in 1..Len(us[e].upvalues) \/ (e = d /\ j = m + 1)
        BY <1>2, <2>3, <3>3
      <4> QED
        BY <4>1, <4>2, <4>3, <4>4, <4>5
    <3>8. \A f \in 1..Len(us) : us[f].localVars = vs[f].localVars
      BY <2>4
    <3>9. ASSUME NEW e \in 1..Len(us), NEW i \in 1..Len(vs[e].upvalues)
          PROVE  \E f \in 1..(e - 1) : \E j \in 1..Len(vs[f].localVars) : T2[e][i] = vs[f].localVars[j].id
      <4>1. PICK f \in 1..(e - 1) : \E j \in 1..Len(us[f].localVars) : T2[e][i] = us[f].localVars[j].id
        BY <3>6
      <4>2. f \in 1..Len(us)
        BY <1>1
      <4> QED
        BY <3>8, <4>1, <4>2
    <3> QED
      BY <2>5, <3>7, <3>9 DEF Distinct
  <2>12. r.index \in Nat /\ r.index < Len(vs[d].upvalues) /\ T2[d][r.index + 1] = x
    BY <1>2, <2>1, <2>2, <2>4, <2>6
  <2>13. Sound(vs, T2)
    BY <2>5, <2>7, <2>9, <2>10, <2>11 DEF Sound
  <2> QED
    BY <2>1, <2>7, <2>12, <2>13 DEF r, x, new, Added
<1> QED
  BY <1>5, <1>6

LEMMA AddUpvalueTyped ==
  ASSUME NEW us \in Seq(UnitType), NEW d \in 1..Len(us), NEW b \in BOOLEAN, NEW n \in Nat
  PROVE  LET r == AddUpvalue(us, d, b, n)
         IN  /\ r = [units |-> r.units, index |-> r.index] /\ r.index \in Nat
             /\ r.units \in Seq(UnitType) /\ Len(r.units) = Len(us)
<1> DEFINE new == [isEnclosingLocalVar |-> b, index |-> n]
           there == {i \in DOMAIN us[d].upvalues : SameUpvalue(us[d].upvalues[i], b, n)}
           unit == [us[d] EXCEPT !.upvalues = Append(@, new)]
           vs == [us EXCEPT ![d].upvalues = Append(@, new)]
<1>1. us[d] \in UnitType /\ us[d].upvalues \in Seq(Upvalue) /\ DOMAIN us[d].upvalues = 1..Len(us[d].upvalues)
      /\ Len(us[d].upvalues) \in Nat
  BY UnitFacts
<1>2. there # {} => Min(there) - 1 \in Nat
  <2>1. there \subseteq Nat /\ 0 \notin there
    BY <1>1
  <2> HIDE DEF there
  <2> SUFFICES ASSUME there # {} PROVE Min(there) - 1 \in Nat
    OBVIOUS
  <2>2. Min(there) \in there
    BY <2>1, MinIs
  <2>3. Min(there) \in Nat /\ Min(there) # 0
    BY <2>1, <2>2
  <2> QED
    BY <2>3
<1>3. unit \in UnitType
  <2>1. new \in Upvalue
    BY DEF Upvalue
  <2>2. Append(us[d].upvalues, new) \in Seq(Upvalue)
    BY <1>1, <2>1, AppendProperties
  <2> QED
    BY <1>1, <2>2 DEF UnitType
<1>4. vs = [us EXCEPT ![d] = unit]
  OBVIOUS
<1>5. vs \in Seq(UnitType) /\ Len(vs) = Len(us)
  BY <1>3, <1>4, ExceptSeq
<1> HIDE DEF vs, unit, there
<1>6. AddUpvalue(us, d, b, n) = IF there # {} THEN [units |-> us, index |-> Min(there) - 1]
                                ELSE [units |-> vs, index |-> Len(us[d].upvalues)]
  BY DEF AddUpvalue, there, vs
<1> QED
  BY <1>1, <1>2, <1>5, <1>6

LEMMA DifferentIds ==
  ASSUME NEW us \in Seq(UnitType), LocalsInOrder(us),
         NEW d \in 1..Len(us), NEW i \in 1..Len(us[d].localVars),
         NEW e \in 1..Len(us), NEW j \in 1..Len(us[e].localVars),
         us[d].localVars[i].id = us[e].localVars[j].id
  PROVE  d = e /\ i = j
<1>1. us[d].localVars[i] \in LocalVar /\ us[e].localVars[j] \in LocalVar
  BY UnitFacts
<1>2. us[d].localVars[i].id \in Nat /\ us[e].localVars[j].id \in Nat
  BY <1>1 DEF LocalVar
<1>3. ~Below(d, i, e, j) /\ ~Below(e, j, d, i)
  BY SMTT(30), <1>2 DEF LocalsInOrder
<1>4. Len(us) \in Nat /\ Len(us[d].localVars) \in Nat /\ Len(us[e].localVars) \in Nat
  BY UnitFacts
<1> QED
  BY <1>3, <1>4 DEF Below

\* What is known of a variable other than its mark does not depend on the marks.
LEMMA MarkCapturedIs ==
  ASSUME NEW us, NEW T, Sound(us, T), NEW d \in 1..Len(us), NEW j \in 1..Len(us[d].localVars)
  PROVE  LET vs == MarkCaptured(us, d, j - 1)
         IN  /\ Sound(vs, T) /\ SameLocals(us, vs) /\ MarksMore(us, vs, us[d].localVars[j].id)
             /\ \A e \in 1..Len(us) : vs[e].upvalues = us[e].upvalues
<1> DEFINE vs == [us EXCEPT ![d].localVars[j].isUpvalue = TRUE]
           v == [us[d].localVars[j] EXCEPT !.isUpvalue = TRUE]
           vars2 == [us[d].localVars EXCEPT ![j] = v]
           unit == [us[d] EXCEPT !.localVars = vars2]
<1>0. (j - 1) + 1 = j /\ us \in Seq(UnitType)
  <2>1. us \in Seq(UnitType)
    BY DEF Sound
  <2>2. j \in Nat
    BY <2>1, UnitFacts
  <2> QED
    BY <2>1, <2>2
<1>1. vs = MarkCaptured(us, d, j - 1)
  BY <1>0 DEF MarkCaptured
<1>2. us[d].localVars[j] \in LocalVar /\ us[d].localVars \in Seq(LocalVar) /\ us[d] \in UnitType /\ Len(us) \in Nat
  BY <1>0, UnitFacts
<1>3. v \in LocalVar /\ v.isUpvalue = TRUE /\ v.name = us[d].localVars[j].name /\ v.id = us[d].localVars[j].id
      /\ v.scopeDepth = us[d].localVars[j].scopeDepth
  BY <1>2 DEF LocalVar
<1> HIDE DEF v
<1>4. /\ vars2 \in Seq(LocalVar) /\ Len(vars2) = Len(us[d].localVars)
      /\ \A i \in 1..Len(us[d].localVars) : vars2[i] = IF i = j THEN v ELSE us[d].localVars[i]
  BY <1>2, <1>3, ExceptSeq
<1>5. vs = [us EXCEPT ![d] = unit]
  BY <1>0 DEF v
<1> HIDE DEF vs, vars2
<1>6. unit \in UnitType /\ unit.localVars = vars2 /\ unit.kind = us[d].kind /\ unit.scopeDepth = us[d].scopeDepth
      /\ unit.upvalues = us[d].upvalues
  BY <1>2, <1>4 DEF UnitType
<1> HIDE DEF unit
<1>7. /\ vs \in Seq(UnitType) /\ Len(vs) = Len(us)
      /\ \A e \in 1..Len(us) : vs[e] = IF e = d THEN unit ELSE us[e]
  BY <1>0, <1>5, <1>6, ExceptSeq
<1>8. SameLocals(us, vs) /\ \A e \in 1..Len(us) : vs[e].upvalues = us[e].upvalues
  BY <1>3, <1>4, <1>6, <1>7 DEF SameLocals
<1>9. MarksMore(us, vs, us[d].localVars[j].id)
  <2> SUFFICES ASSUME NEW e \in 1..Len(us), NEW i \in 1..Len(us[e].localVars)
               PROVE  vs[e].localVars[i].isUpvalue
                        <=> us[e].localVars[i].isUpvalue \/ us[e].localVars[i].id = us[d].localVars[j].id
    BY DEF MarksMore
  <2>1. us[e].localVars[i].id = us[d].localVars[j].id => e = d /\ i = j
    BY <1>0, DifferentIds DEF Sound
  <2> QED
    BY <1>3, <1>4, <1>6, <1>7, <2>1
<1>10. LocalsInOrder(vs)
  BY <1>7, <1>8 DEF Sound, LocalsInOrder, SameLocals
<1>11. UpvaluesInBounds(vs)
  <2>1. vs[1].upvalues = <<>>
    <3>1. 1 \in 1..Len(us)
      BY <1>2
    <3> QED
      BY <1>8, <3>1 DEF Sound, UpvaluesInBounds
  <2>2. \A e \in 2..Len(us) : e \in 1..Len(us) /\ e - 1 \in 1..Len(us)
    BY <1>2
  <2>3. \A e \in 2..Len(us) : Len(vs[e - 1].localVars) = Len(us[e - 1].localVars) /\ vs[e - 1].upvalues = us[e - 1].upvalues
                              /\ vs[e].upvalues = us[e].upvalues
    BY <1>8, <2>2 DEF SameLocals
  <2> QED
    BY <1>7, <2>1, <2>3 DEF Sound, UpvaluesInBounds
<1>12. IsTable(T, vs)
  <2>1. Tables(T, us)
    BY <1>2, TableIs DEF Sound
  <2>2. ASSUME NEW e \in 1..Len(us)
        PROVE  T[e] = [i \in DOMAIN vs[e].upvalues |-> Origin(vs, T[e - 1], e, vs[e].upvalues[i])]
    <3>1. DOMAIN us[e].upvalues = 1..Len(us[e].upvalues) /\ vs[e].upvalues = us[e].upvalues
      BY <1>0, <1>8, UnitFacts
    <3>2. ASSUME NEW i \in 1..Len(us[e].upvalues)
          PROVE  Origin(vs, T[e - 1], e, us[e].upvalues[i]) = Origin(us, T[e - 1], e, us[e].upvalues[i])
      <4>1. us[1].upvalues = <<>> /\ us[e].upvalues[i] \in Upvalue
        BY <1>0, UnitFacts DEF Sound, UpvaluesInBounds
      <4>2. e \in 2..Len(us)
        BY <1>2, <4>1
      <4>3. e - 1 \in 1..Len(us) /\ Len(us[e - 1].localVars) \in Nat
        BY <1>0, <1>2, <4>2, UnitFacts
      <4> DEFINE u == us[e].upvalues[i]
      <4>4. u.isEnclosingLocalVar => u.index + 1 \in 1..Len(us[e - 1].localVars)
        <5>1. u.isEnclosingLocalVar => u.index < Len(us[e - 1].localVars)
          BY <4>2 DEF Sound, UpvaluesInBounds
        <5>2. u.index \in Nat
          BY <4>1 DEF Upvalue
        <5> HIDE DEF u
        <5> QED
          BY <4>3, <5>1, <5>2
      <4> HIDE DEF u
      <4>5. u.isEnclosingLocalVar => vs[e - 1].localVars[u.index + 1].id = us[e - 1].localVars[u.index + 1].id
        BY <1>8, <4>3, <4>4 DEF SameLocals
      <4> QED
        BY <4>5 DEF Origin, u
    <3>3. [i \in DOMAIN us[e].upvalues |-> Origin(vs, T[e - 1], e, us[e].upvalues[i])]
            = [i \in DOMAIN us[e].upvalues |-> Origin(us, T[e - 1], e, us[e].upvalues[i])]
      BY <3>1, <3>2
    <3> QED
      BY <2>1, <3>1, <3>3 DEF Tables
  <2> QED
    BY <1>2, <1>7, <2>1, <2>2, TableIs DEF Tables
<1>13. Distinct(T, vs)
  <2>1. ASSUME NEW e \in 1..Len(us), NEW i \in 1..Len(us[e].upvalues)
        PROVE  \E f \in 1..(e - 1) : \E k \in 1..Len(vs[f].localVars) : T[e][i] = vs[f].localVars[k].id
    <3>1. PICK f \in 1..(e - 1) : \E k \in 1..Len(us[f].localVars) : T[e][i] = us[f].localVars[k].id
      BY DEF Sound, Distinct
    <3>2. f \in 1..Len(us)
      BY <1>2
    <3>3. PICK k \in 1..Len(us[f].localVars) : T[e][i] = us[f].localVars[k].id
      BY <3>1
    <3>4. k \in 1..Len(vs[f].localVars) /\ vs[f].localVars[k].id = us[f].localVars[k].id
      BY <1>8, <3>2 DEF SameLocals
    <3> QED
      BY <3>3, <3>4
  <2>2. \A e \in 1..Len(us) : \A i, k \in 1..Len(us[e].upvalues) : T[e][i] = T[e][k] => i = k
    BY DEF Sound, Distinct
  <2>3. Len(vs) = Len(us) /\ \A e \in 1..Len(us) : vs[e].upvalues = us[e].upvalues
    BY <1>7, <1>8
  <2>4. ASSUME NEW e \in 1..Len(vs), NEW i \in 1..Len(vs[e].upvalues)
        PROVE  \E f \in 1..(e - 1) : \E k \in 1..Len(vs[f].localVars) : T[e][i] = vs[f].localVars[k].id
    <3>1. e \in 1..Len(us) /\ i \in 1..Len(us[e].upvalues)
      BY <2>3
    <3> QED
      BY <2>1, <3>1, Zenon
  <2>5. \A e \in 1..Len(vs) : \A i, k \in 1..Len(vs[e].upvalues) : T[e][i] = T[e][k] => i = k
    BY <2>2, <2>3
  <2> QED
    BY <2>4, <2>5 DEF Distinct
<1>14. vs # <<>>
  BY <1>2, <1>7
<1> QED
  BY <1>1, <1>7, <1>8, <1>9, <1>10, <1>11, <1>12, <1>13, <1>14 DEF Sound

-----------------------------------------------------------------------------
(***************************************************************************)
(* Looking a name up in a chain of units.                                  *)
(***************************************************************************)
Named(us, name, d, j) ==
  d \in 1..Len(us) /\ j \in 1..Len(us[d].localVars) /\ us[d].localVars[j].name = name

\* The variable a name means: no variable of that name is declared after it.
IsInnermost(us, name, K, d, j) ==
  /\ d <= K /\ Named(us, name, d, j)
  /\ \A e, i : e <= K /\ Named(us, name, e, i) => ~Below(d, j, e, i)

\* What findUpvalue() has found for the unit at depth d.
Found(us, name, d, r) ==
  \/ /\ r.index = -1 /\ r.units = us
     /\ \A e, i : Named(us, name, e, i) => e >= d
  \/ /\ r.index \in Nat
     /\ \E e, j, T2 :
          /\ IsInnermost(us, name, d - 1, e, j)
          /\ Sound(r.units, T2) /\ SameLocals(us, r.units)
          /\ MarksMore(us, r.units, us[e].localVars[j].id)
          /\ r.index < Len(r.units[d].upvalues)
          /\ T2[d][r.index + 1] = us[e].localVars[j].id

Nowhere == [units |-> units, index |-> -1]

\* One call of findUpvalue(), given what the call for the unit around it returns.
Looked(name, spaceFollows, d, outer) ==
  LET index == FindLocal(units[d - 1], name)
  IN  IF d = 1 THEN Nowhere
      ELSE IF d = 2 /\ InClass /\ Len(name) = 1 /\ ~spaceFollows THEN Nowhere
      ELSE IF index # -1 THEN AddUpvalue(MarkCaptured(units, d - 1, index), d, TRUE, index)
      ELSE IF outer.index # -1 THEN AddUpvalue(outer.units, d, FALSE, outer.index)
      ELSE Nowhere

LEMMA SameLocalsTrans ==
  ASSUME NEW us, NEW vs, NEW ws, SameLocals(us, vs), SameLocals(vs, ws)
  PROVE  /\ SameLocals(us, ws)
         /\ SameMarks(vs, ws) => \A x : MarksMore(us, vs, x) => MarksMore(us, ws, x)
         /\ SameMarks(us, vs) => \A x : MarksMore(vs, ws, x) => MarksMore(us, ws, x)
<1>1. Len(vs) = Len(us) /\ \A d \in 1..Len(us) : Len(vs[d].localVars) = Len(us[d].localVars)
  BY DEF SameLocals
<1>2. SameLocals(us, ws)
  BY <1>1 DEF SameLocals
<1>3. SameMarks(vs, ws) => \A x : MarksMore(us, vs, x) => MarksMore(us, ws, x)
  BY <1>1 DEF SameMarks, MarksMore
<1>4. \A d \in 1..Len(us) : \A j \in 1..Len(us[d].localVars) : vs[d].localVars[j].id = us[d].localVars[j].id
  BY DEF SameLocals
<1>5. SameMarks(us, vs) => \A x : MarksMore(vs, ws, x) => MarksMore(us, ws, x)
  BY SMTT(30), <1>1, <1>4 DEF SameMarks, MarksMore
<1> QED
  BY <1>2, <1>3, <1>5

\* addUpvalue(), when the index is that of a local variable, and when it is that of an upvalue.
LEMMA AddUpvalueTo ==
  ASSUME NEW us, NEW T, Sound(us, T), NEW d \in 2..Len(us), NEW n \in Nat
  PROVE  /\ n < Len(us[d - 1].localVars) =>
              Added(us, d, AddUpvalue(us, d, TRUE, n), us[d - 1].localVars[n + 1].id)
         /\ n < Len(us[d - 1].upvalues) => Added(us, d, AddUpvalue(us, d, FALSE, n), T[d - 1][n + 1])
<1>1. /\ Origin(us, T[d - 1], d, [isEnclosingLocalVar |-> TRUE, index |-> n]) = us[d - 1].localVars[n + 1].id
      /\ Origin(us, T[d - 1], d, [isEnclosingLocalVar |-> FALSE, index |-> n]) = T[d - 1][n + 1]
  BY DEF Origin
<1>2. ASSUME n < Len(us[d - 1].localVars)
      PROVE  Added(us, d, AddUpvalue(us, d, TRUE, n), us[d - 1].localVars[n + 1].id)
  <2>1. n < IF TRUE THEN Len(us[d - 1].localVars) ELSE Len(us[d - 1].upvalues)
    BY <1>2
  <2> QED
    BY <1>1, <2>1, AddUpvalueIs
<1>3. ASSUME n < Len(us[d - 1].upvalues)
      PROVE  Added(us, d, AddUpvalue(us, d, FALSE, n), T[d - 1][n + 1])
  <2>1. n < IF FALSE THEN Len(us[d - 1].localVars) ELSE Len(us[d - 1].upvalues)
    BY <1>3
  <2> QED
    BY <1>1, <2>1, AddUpvalueIs
<1> QED
  BY <1>2, <1>3

LEMMA LookedFinds ==
  ASSUME NEW T, Sound(units, T), NEW name, NEW space,
         Len(name) = 1 => \A i : ~Named(units, name, 1, i),
         NEW d \in 2..Len(units), NEW outer, Found(units, name, d - 1, outer)
  PROVE  Found(units, name, d, Looked(name, space, d, outer))
<1> DEFINE us == units
           index == FindLocal(us[d - 1], name)
           r == Looked(name, space, d, outer)
<1>1. us \in Seq(UnitType) /\ Len(us) \in Nat /\ d - 1 \in 1..Len(us) /\ d \in Nat /\ d - 1 \in Nat /\ (d - 1) + 1 = d
      /\ d # 1
  BY UnitFacts DEF Sound
<1>2. us[d - 1] \in UnitType /\ Len(us[d - 1].localVars) \in Nat
  BY <1>1, UnitFacts
<1>3. CASE index = -1
  <2>1. \A i : ~Named(us, name, d - 1, i)
    BY <1>1, <1>2, <1>3, FindLocalIs DEF Named
  <2>2. CASE outer.index = -1
    <3>1. r = Nowhere
      BY <1>3, <2>2 DEF Looked
    <3>2. \A e, i : Named(us, name, e, i) => e >= d - 1 /\ e \in 1..Len(us)
      BY <2>2 DEF Found, Named
    <3>3. \A e, i : Named(us, name, e, i) => e >= d
      <4> SUFFICES ASSUME NEW e, NEW i, Named(us, name, e, i) PROVE e >= d
        OBVIOUS
      <4>1. e >= d - 1 /\ e \in 1..Len(us) /\ e # d - 1
        BY <2>1, <3>2
      <4> QED
        BY <1>1, <4>1
    <3> QED
      BY <3>1, <3>3 DEF Found, Nowhere
  <2>3. CASE outer.index # -1
    <3>1. PICK e, j, T1 :
            /\ IsInnermost(us, name, (d - 1) - 1, e, j)
            /\ Sound(outer.units, T1) /\ SameLocals(us, outer.units)
            /\ MarksMore(us, outer.units, us[e].localVars[j].id)
            /\ outer.index < Len(outer.units[d - 1].upvalues)
            /\ T1[d - 1][outer.index + 1] = us[e].localVars[j].id
      BY <2>3 DEF Found
    <3>2. outer.index \in Nat
      BY <2>3 DEF Found
    <3>3. ~(d = 2 /\ InClass /\ Len(name) = 1 /\ ~space)
      <4> SUFFICES ASSUME d = 2 PROVE FALSE
        OBVIOUS
      <4> QED
        BY <3>1 DEF IsInnermost, Named
    <3>4. r = AddUpvalue(outer.units, d, FALSE, outer.index)
      BY <1>1, <1>3, <2>3, <3>3 DEF Looked
    <3> DEFINE vs == outer.units
    <3> HIDE DEF vs, r
    <3>5. Sound(vs, T1) /\ d \in 2..Len(vs) /\ outer.index < Len(vs[d - 1].upvalues)
      BY <3>1 DEF SameLocals, vs
    <3>6. PICK T2 :
            /\ Sound(r.units, T2) /\ SameLocals(vs, r.units) /\ SameMarks(vs, r.units)
            /\ r.index \in Nat /\ r.index < Len(r.units[d].upvalues)
            /\ T2[d][r.index + 1] = T1[d - 1][outer.index + 1]
      <4>1. Added(vs, d, r, T1[d - 1][outer.index + 1])
        BY <3>2, <3>4, <3>5, AddUpvalueTo DEF vs
      <4> QED
        BY <4>1 DEF Added
    <3>7. T2[d][r.index + 1] = us[e].localVars[j].id
      BY <3>1, <3>6
    <3>8. SameLocals(us, r.units) /\ MarksMore(us, r.units, us[e].localVars[j].id)
      BY <3>1, <3>6, SameLocalsTrans DEF vs
    <3>9. IsInnermost(us, name, d - 1, e, j)
      <4>1. e <= (d - 1) - 1 /\ Named(us, name, e, j) /\ e \in 1..Len(us)
        BY <3>1 DEF IsInnermost, Named
      <4>2. ASSUME NEW f, NEW i, f <= d - 1, Named(us, name, f, i) PROVE f <= (d - 1) - 1
        <5>1. f # d - 1 /\ f \in 1..Len(us)
          BY <2>1, <4>2 DEF Named
        <5> QED
          BY <1>1, <4>2, <5>1
      <4> QED
        BY <1>1, <3>1, <4>1, <4>2 DEF IsInnermost
    <3> QED
      BY <3>6, <3>7, <3>8, <3>9 DEF Found, r
  <2> QED
    BY <2>2, <2>3
<1>4. CASE index # -1
  <2>1. PICK j \in 1..Len(us[d - 1].localVars) :
          /\ index = j - 1 /\ us[d - 1].localVars[j].name = name
          /\ \A i \in 1..Len(us[d - 1].localVars) : us[d - 1].localVars[i].name = name => i <= j
    BY <1>2, <1>4, FindLocalIs
  <2>2. Named(us, name, d - 1, j)
    BY <1>1, <2>1 DEF Named
  <2>3. ~(d = 2 /\ InClass /\ Len(name) = 1 /\ ~space)
    BY <2>2
  <2> DEFINE vs == MarkCaptured(us, d - 1, j - 1)
             x == us[d - 1].localVars[j].id
  <2>4. r = AddUpvalue(vs, d, TRUE, j - 1)
    BY <1>1, <1>4, <2>1, <2>3 DEF Looked
  <2> HIDE DEF r
  <2>5. Sound(vs, T) /\ SameLocals(us, vs) /\ MarksMore(us, vs, x)
    BY <1>1, MarkCapturedIs
  <2> HIDE DEF vs
  <2>6. d \in 2..Len(vs) /\ j - 1 \in Nat /\ j - 1 < Len(vs[d - 1].localVars) /\ (j - 1) + 1 = j
    <3>1. Len(vs) = Len(us) /\ Len(vs[d - 1].localVars) = Len(us[d - 1].localVars)
      BY <1>1, <2>5 DEF SameLocals
    <3> QED
      BY <1>1, <1>2, <3>1
  <2>7. PICK T2 :
          /\ Sound(r.units, T2) /\ SameLocals(vs, r.units) /\ SameMarks(vs, r.units)
          /\ r.index \in Nat /\ r.index < Len(r.units[d].upvalues)
          /\ T2[d][r.index + 1] = vs[d - 1].localVars[(j - 1) + 1].id
    <3>1. Added(vs, d, r, vs[d - 1].localVars[(j - 1) + 1].id)
      BY <2>4, <2>5, <2>6, AddUpvalueTo
    <3> QED
      BY <3>1 DEF Added
  <2>8. T2[d][r.index + 1] = x
    <3>1. vs[d - 1].localVars[j].id = x
      BY <1>1, <2>5 DEF SameLocals
    <3> QED
      BY <2>6, <2>7, <3>1
  <2>9. SameLocals(us, r.units) /\ MarksMore(us, r.units, x)
    BY <2>5, <2>7, SameLocalsTrans
  <2>10. IsInnermost(us, name, d - 1, d - 1, j)
    <3>1. ASSUME NEW e, NEW i, e <= d - 1, Named(us, name, e, i), Below(d - 1, j, e, i) PROVE FALSE
      <4>1. e \in 1..Len(us) /\ e = d - 1 /\ j < i
        BY <1>1, <3>1 DEF Named, Below
      <4>2. i \in 1..Len(us[d - 1].localVars) /\ us[d - 1].localVars[i].name = name
        BY <3>1, <4>1 DEF Named
      <4> QED
        BY <1>2, <2>1, <4>1, <4>2
    <3> QED
      BY <1>1, <2>2, <3>1 DEF IsInnermost
  <2> QED
    BY <2>7, <2>8, <2>9, <2>10 DEF Found, r
<1> QED
  BY <1>3, <1>4

\* What a call returns.
Result == [units : {us \in Seq(UnitType) : Len(us) = Depth}, index : Nat \union {-1}]

LEMMA LookedTyped ==
  ASSUME NEW T, Sound(units, T), NEW name, NEW space, NEW d \in 2..Len(units), NEW outer \in Result
  PROVE  Looked(name, space, d, outer) \in Result
<1> DEFINE index == FindLocal(units[d - 1], name)
<1>1. /\ units \in Seq(UnitType) /\ Len(units) \in Nat /\ d - 1 \in 1..Len(units) /\ d \in 1..Len(units)
      /\ units[d - 1] \in UnitType /\ Depth = Len(units) /\ Len(units[d - 1].localVars) \in Nat
  <2>1. units \in Seq(UnitType)
    BY DEF Sound
  <2>2. Len(units) \in Nat
    BY <2>1, UnitFacts
  <2>3. d - 1 \in 1..Len(units) /\ d \in 1..Len(units)
    BY <2>2
  <2> QED
    BY <2>1, <2>2, <2>3, UnitFacts DEF Depth
<1>2. Nowhere \in Result
  BY <1>1 DEF Nowhere, Result
<1>3. index # -1 => AddUpvalue(MarkCaptured(units, d - 1, index), d, TRUE, index) \in Result
  <2> SUFFICES ASSUME index # -1 PROVE AddUpvalue(MarkCaptured(units, d - 1, index), d, TRUE, index) \in Result
    OBVIOUS
  <2>1. PICK j \in 1..Len(units[d - 1].localVars) : index = j - 1
    BY <1>1, FindLocalIs
  <2> DEFINE vs == MarkCaptured(units, d - 1, index)
  <2>2. Sound(vs, T) /\ SameLocals(units, vs)
    BY <1>1, <2>1, MarkCapturedIs
  <2> HIDE DEF vs
  <2>3. vs \in Seq(UnitType) /\ Len(vs) = Depth /\ d \in 1..Len(vs) /\ index \in Nat /\ TRUE \in BOOLEAN
    BY <1>1, <2>1, <2>2 DEF Sound, SameLocals
  <2> HIDE DEF index
  <2> DEFINE r == AddUpvalue(vs, d, TRUE, index)
  <2>4. r = [units |-> r.units, index |-> r.index] /\ r.index \in Nat /\ r.units \in Seq(UnitType) /\ Len(r.units) = Depth
    BY <2>3, AddUpvalueTyped
  <2> HIDE DEF r
  <2>5. r \in Result
    BY <2>4 DEF Result
  <2> QED
    BY <2>5 DEF r, vs
<1>4. outer.index # -1 => AddUpvalue(outer.units, d, FALSE, outer.index) \in Result
  <2> SUFFICES ASSUME outer.index # -1 PROVE AddUpvalue(outer.units, d, FALSE, outer.index) \in Result
    OBVIOUS
  <2>1. outer.units \in Seq(UnitType) /\ Len(outer.units) = Depth /\ d \in 1..Len(outer.units) /\ outer.index \in Nat
        /\ FALSE \in BOOLEAN
    BY <1>1 DEF Result
  <2> DEFINE r == AddUpvalue(outer.units, d, FALSE, outer.index)
  <2>2. r = [units |-> r.units, index |-> r.index] /\ r.index \in Nat /\ r.units \in Seq(UnitType) /\ Len(r.units) = Depth
    BY <2>1, AddUpvalueTyped
  <2> HIDE DEF r
  <2>3. r \in Result
    BY <2>2 DEF Result
  <2> QED
    BY <2>3 DEF r
<1> HIDE DEF index
<1> QED
  BY <1>2, <1>3, <1>4 DEF Looked, index

\* findUpvalue(), all calls together.
LEMMA FindUpvalueIs ==
  ASSUME NEW T, Sound(units, T), NEW name, NEW space, Len(name) = 1 => \A i : ~Named(units, name, 1, i)
  PROVE  Found(units, name, Depth, FindUpvalue(name, space))
<1> DEFINE K == Depth
           F(f, d) == Looked(name, space, d, f[d - 1])
           Body(f) == [d \in 1..K |-> F(f, d)]
           find == CHOOSE f : f = Body(f)
<1>1. K \in Nat /\ K >= 1 /\ units \in Seq(UnitType) /\ K = Len(units)
  BY UnitFacts, EmptySeq DEF Sound, Depth
<1>2. FindUpvalue(name, space) = find[K]
  BY DEF FindUpvalue, Looked, Nowhere
<1> HIDE DEF K
<1>3. \E f : f = Body(f)
  <2> DEFINE st(n, r) == IF n \in 2..K THEN Looked(name, space, n, r) ELSE Nowhere
             step == [n \in Nat |-> [r \in Result |-> st(n, r)]]
  <2>1. Nowhere \in Result
    BY <1>1 DEF Nowhere, Result, Depth
  <2>2. \A n \in Nat, r \in Result : st(n, r) \in Result
    BY <1>1, <2>1, LookedTyped
  <2> HIDE DEF st
  <2>3. step \in [Nat -> [Result -> Result]]
    BY <2>2
  <2>4. PICK f \in [0..K -> Result] : Iterates(f, K, Nowhere, step)
    BY <1>1, <2>1, <2>3, RecursionUpTo
  <2>5. \A d \in 1..K : f[d] = st(d, f[d - 1])
    <3> SUFFICES ASSUME NEW d \in 1..K PROVE f[d] = st(d, f[d - 1])
      OBVIOUS
    <3>1. d \in Nat /\ d - 1 \in 0..K
      BY <1>1
    <3> QED
      BY <2>4, <3>1 DEF Iterates
  <2>6. \A d \in 1..K : f[d] = Looked(name, space, d, f[d - 1])
    <3> SUFFICES ASSUME NEW d \in 1..K PROVE f[d] = Looked(name, space, d, f[d - 1])
      OBVIOUS
    <3>1. CASE d = 1
      BY <1>1, <2>5, <3>1 DEF st, Looked
    <3>2. CASE d # 1
      <4>1. d \in 2..K
        BY <1>1, <3>2
      <4> QED
        BY <2>5, <4>1 DEF st
    <3> QED
      BY <3>1, <3>2
  <2> DEFINE g == [d \in 1..K |-> f[d]]
  <2>7. \A d \in 1..K : F(g, d) = f[d]
    <3> SUFFICES ASSUME NEW d \in 1..K PROVE Looked(name, space, d, g[d - 1]) = f[d]
      OBVIOUS
    <3>1. CASE d = 1
      BY <2>6, <3>1 DEF Looked
    <3>2. CASE d # 1
      <4>1. d - 1 \in 1..K
        BY <1>1, <3>2
      <4> QED
        BY <2>6, <4>1
    <3> QED
      BY <3>1, <3>2
  <2> HIDE DEF F
  <2>8. g = Body(g)
    BY <2>7
  <2> QED
    BY <2>8
<1>4. find = Body(find)
  BY <1>3
<1> HIDE DEF find
<1>5. \A d \in 1..K : find[d] = Looked(name, space, d, find[d - 1])
  <2> HIDE DEF F
  <2>1. \A d \in 1..K : find[d] = F(find, d)
    BY <1>4
  <2> QED
    BY <2>1 DEF F
<1> DEFINE S == {d \in 0..(K - 1) : Found(units, name, d + 1, find[d + 1])}
<1>6. 0 \in S
  <2>1. find[1] = Nowhere
    <3>1. 1 \in 1..K
      BY <1>1
    <3>2. find[1] = Looked(name, space, 1, find[1 - 1])
      BY <1>5, <3>1
    <3> QED
      BY <3>2 DEF Looked
  <2>2. \A e, i : Named(units, name, e, i) => e >= 1
    BY DEF Named
  <2>3. Found(units, name, 1, find[1])
    BY <2>1, <2>2 DEF Found, Nowhere
  <2> QED
    BY <1>1, <2>3
<1>7. ASSUME NEW d \in 0..((K - 1) - 1), d \in S PROVE d + 1 \in S
  <2>1. d + 2 \in 2..Len(units) /\ d + 2 \in 1..K /\ (d + 2) - 1 = d + 1 /\ (d + 1) + 1 = d + 2 /\ d + 1 \in 0..(K - 1)
    BY <1>1
  <2>2. Found(units, name, (d + 2) - 1, find[d + 1])
    BY <1>7, <2>1
  <2>3. Found(units, name, d + 2, Looked(name, space, d + 2, find[d + 1]))
    BY <2>1, <2>2, LookedFinds
  <2>4. find[d + 2] = Looked(name, space, d + 2, find[d + 1])
    BY <1>5, <2>1
  <2> QED
    BY <2>1, <2>3, <2>4
<1>8. 0..(K - 1) \subseteq S
  <2> HIDE DEF S
  <2>1. K - 1 \in Nat
    BY <1>1
  <2> QED
    BY <1>6, <1>7, <2>1, InductionUpTo
<1>9. K - 1 \in S
  <2> HIDE DEF S
  <2> QED
    BY <1>1, <1>8
<1>10. (K - 1) + 1 = K
  BY <1>1
<1> QED
  BY <1>2, <1>9, <1>10 DEF K

\* What getVarFromLocalOrUpvalue() has found: nothing, or the variable at (e, j), whose mark
\* is set when it is that of a unit further out.
VarFound(name, r) ==
  \/ /\ r.var = Nothing /\ r.units = units
     /\ \A e, i : ~Named(units, name, e, i)
  \/ /\ r.var # Nothing
     /\ \E e, j, T2 :
          /\ IsInnermost(units, name, Depth, e, j)
          /\ Sound(r.units, T2) /\ SameLocals(units, r.units)
          /\ IdOf(r.units, r.var) = units[e].localVars[j].id
          /\ IF e = Depth THEN SameMarks(units, r.units) ELSE MarksMore(units, r.units, units[e].localVars[j].id)

LEMMA VarFromLocalOrUpvalueIs ==
  ASSUME NEW T, Sound(units, T), NEW name, NEW space, Len(name) = 1 => \A i : ~Named(units, name, 1, i)
  PROVE  VarFound(name, VarFromLocalOrUpvalue(name, space))
<1> DEFINE r == VarFromLocalOrUpvalue(name, space)
           index == FindLocal(cu, name)
           up == FindUpvalue(name, space)
<1>1. /\ units \in Seq(UnitType) /\ Depth = Len(units) /\ Depth \in Nat /\ Depth \in 1..Len(units)
      /\ cu = units[Depth] /\ cu \in UnitType /\ Len(cu.localVars) \in Nat
  <2>1. units \in Seq(UnitType) /\ units # <<>>
    BY DEF Sound
  <2>2. Len(units) \in Nat /\ Len(units) \in 1..Len(units)
    BY <2>1, UnitFacts, EmptySeq
  <2> QED
    BY <2>1, <2>2, UnitFacts DEF Depth, cu, Last
<1>2. Found(units, name, Depth, up)
  BY FindUpvalueIs
<1>3. <<"local", index>> # Nothing /\ <<"upvalue", up.index>> # Nothing
  BY DEF Nothing
<1>4. CASE index # -1
  <2>1. r.units = units /\ r.var = <<"local", index>>
    BY <1>4 DEF VarFromLocalOrUpvalue
  <2>2. PICK j \in 1..Len(cu.localVars) :
          /\ index = j - 1 /\ cu.localVars[j].name = name
          /\ \A i \in 1..Len(cu.localVars) : cu.localVars[i].name = name => i <= j
    BY <1>1, <1>4, FindLocalIs
  <2>3. IsInnermost(units, name, Depth, Depth, j)
    <3>1. Named(units, name, Depth, j)
      BY <1>1, <2>2 DEF Named
    <3>2. ASSUME NEW e, NEW i, e <= Depth, Named(units, name, e, i), Below(Depth, j, e, i) PROVE FALSE
      <4>1. e \in 1..Len(units) /\ e = Depth /\ j < i
        BY <1>1, <3>2 DEF Named, Below
      <4>2. i \in 1..Len(cu.localVars) /\ cu.localVars[i].name = name
        BY <1>1, <3>2, <4>1 DEF Named
      <4> QED
        BY <1>1, <2>2, <4>1, <4>2
    <3> QED
      BY <1>1, <3>1, <3>2 DEF IsInnermost
  <2>4. IdOf(units, <<"local", index>>) = units[Depth].localVars[j].id
    <3>1. index + 1 = j
      BY <1>1, <2>2
    <3> QED
      BY <1>1, <3>1 DEF IdOf
  <2>5. SameLocals(units, units) /\ SameMarks(units, units)
    BY DEF SameLocals, SameMarks
  <2> HIDE DEF r, index
  <2> QED
    BY <1>3, <2>1, <2>3, <2>4, <2>5 DEF VarFound, r, index
<1>5. CASE index = -1
  <2>0. \A i : ~Named(units, name, Depth, i)
    BY <1>1, <1>5, FindLocalIs DEF Named
  <2>1. CASE up.index = -1
    <3>1. r.var = Nothing /\ r.units = units
      BY <1>5, <2>1 DEF VarFromLocalOrUpvalue
    <3>2. ASSUME NEW e, NEW i, Named(units, name, e, i) PROVE FALSE
      <4>1. e >= Depth /\ e \in 1..Len(units)
        BY <1>2, <2>1, <3>2 DEF Found, Named
      <4>2. e = Depth
        BY <1>1, <4>1
      <4> QED
        BY <2>0, <3>2, <4>2
    <3> HIDE DEF r
    <3> QED
      BY <3>1, <3>2 DEF VarFound, r
  <2>2. CASE up.index # -1
    <3>1. r.units = up.units /\ r.var = <<"upvalue", up.index>>
      BY <1>5, <2>2 DEF VarFromLocalOrUpvalue
    <3> HIDE DEF up
    <3>2. PICK e, j, T2 :
            /\ IsInnermost(units, name, Depth - 1, e, j)
            /\ Sound(up.units, T2) /\ SameLocals(units, up.units)
            /\ MarksMore(units, up.units, units[e].localVars[j].id)
            /\ up.index < Len(up.units[Depth].upvalues)
            /\ T2[Depth][up.index + 1] = units[e].localVars[j].id
      BY <1>2, <2>2 DEF Found
    <3>3. Len(up.units) = Depth /\ Len(up.units) \in Nat /\ Depth \in 0..Len(up.units)
      BY <1>1, <3>2 DEF SameLocals
    <3>4. Denotes(up.units, Depth, up.index) = T2[Depth][up.index + 1]
      BY <3>2, <3>3, DenotesIs DEF Sound
    <3>5. IdOf(r.units, r.var) = units[e].localVars[j].id
      <4> HIDE DEF r
      <4> QED
        BY <3>1, <3>2, <3>3, <3>4 DEF IdOf
    <3>6. e # Depth /\ IsInnermost(units, name, Depth, e, j)
      <4>1. e <= Depth - 1 /\ Named(units, name, e, j) /\ e \in 1..Len(units)
        BY <3>2 DEF IsInnermost, Named
      <4>2. ASSUME NEW f, NEW i, f <= Depth, Named(units, name, f, i) PROVE f <= Depth - 1
        <5>1. f # Depth /\ f \in 1..Len(units)
          BY <2>0, <4>2 DEF Named
        <5> QED
          BY <1>1, <4>2, <5>1
      <4>3. e # Depth /\ e <= Depth
        BY <1>1, <4>1
      <4> QED
        BY <3>2, <4>1, <4>2, <4>3 DEF IsInnermost
    <3> HIDE DEF r
    <3> QED
      BY <1>3, <3>1, <3>2, <3>5, <3>6 DEF VarFound, r, up
  <2> QED
    BY <2>1, <2>2
<1> QED
  BY <1>4, <1>5

-----------------------------------------------------------------------------
(***************************************************************************)
(* The declarations in sight and the tables.  A level is a pair of the     *)
(* depth of a unit and of a scope in it; lv gives that of every entry.     *)
(***************************************************************************)
MarkName(k) == <<"", k>>
Decl == [name : Plain \union Static \union {MarkName(k) : k \in Kind}, id : Nat]

Entry(v) == [name |-> v.name, id |-> v.id]
LevelOf(v) == IF v.scopeDepth < 0 THEN 0 ELSE v.scopeDepth
IsLevel(us, l) == l[1] \in 1..Len(us) /\ l[2] \in 0..us[l[1]].scopeDepth
KindAt(us, l) == IF l[2] > 0 THEN "scope" ELSE IF l[1] = 1 THEN "class" ELSE us[l[1]].kind
Outer(l, m) == Below(l[1], l[2], m[1], m[2])

\* An entry that is no mark is a variable of its level.
Holds(us, l, e) ==
  \E j \in 1..Len(us[l[1]].localVars) :
    e = Entry(us[l[1]].localVars[j]) /\ l[2] = LevelOf(us[l[1]].localVars[j])

Placed(us, en, lv) ==
  /\ en \in Seq(Decl) /\ lv \in Seq(Nat \X Nat) /\ Len(lv) = Len(en)
  /\ \A i, j \in 1..Len(en) : i < j => ~Outer(lv[j], lv[i]) /\ (en[j].id = 0 => Outer(lv[i], lv[j]))
  /\ \A i \in 1..Len(en) : IsLevel(us, lv[i])
       /\ (en[i].id = 0 => en[i] = Mark(KindAt(us, lv[i])))
       /\ (en[i].id # 0 => Holds(us, lv[i], en[i]))
  /\ \A l \in Nat \X Nat : IsLevel(us, l) => \E i \in 1..Len(en) : lv[i] = l /\ en[i].id = 0

\* Variables of inner units, and the static fields of class c, are in sight.
Seen(us, en, c) ==
  \A d \in 1..Len(us) : \A j \in 1..Len(us[d].localVars) :
    d >= 2 \/ (\E n \in Name : us[d].localVars[j].name = Cls(c, n)) =>
      \E i \in 1..Len(en) : en[i] = Entry(us[d].localVars[j])

Rising(en) == \A i, j \in 1..Len(en) : i < j /\ en[i].id # 0 /\ en[j].id # 0 => en[i].id < en[j].id

LEMMA MarkIs ==
  /\ \A k : Mark(k).name = MarkName(k) /\ Mark(k).id = 0
  /\ \A k \in Kind : Mark(k) \in Decl
  /\ \A k, m : Mark(k) = Mark(m) => k = m
<1>1. \A k : Mark(k) = [name |-> MarkName(k), id |-> 0]
  BY DEF Mark, MarkName
<1>2. \A k : Mark(k).name = MarkName(k) /\ Mark(k).id = 0
  BY <1>1
<1>3. \A k \in Kind : Mark(k) \in Decl
  BY <1>1 DEF Decl
<1>4. \A k, m : MarkName(k) = MarkName(m) => k = m
  BY DEF MarkName
<1>5. \A k, m : Mark(k) = Mark(m) => k = m
  <2> TAKE k, m
  <2>1. Mark(k) = Mark(m) => MarkName(k) = MarkName(m)
    BY <1>2
  <2> QED
    BY <1>4, <2>1
<1> QED
  BY <1>2, <1>3, <1>5

LEMMA MarkApart == \A k : MarkName(k) \notin Plain \union Static
<1>1. \A k, m : MarkName(k) # <<m>>
  <2> TAKE k, m
  <2>1. Len(MarkName(k)) = 2 /\ Len(<<m>>) = 1
    BY DEF MarkName
  <2> QED
    BY <2>1
<1>2. \A k, c, n : MarkName(k) # Cls(c, n)
  <2> TAKE k, c, n
  <2>1. Len(MarkName(k)) = 2 /\ Len(Cls(c, n)) = 3
    BY DEF MarkName, Cls
  <2> QED
    BY <2>1
<1>3. \A x \in Plain : \E m : x = <<m>>
  BY DEF Plain, this
<1>4. \A x \in Static : \E c, n : x = Cls(c, n)
  BY DEF Static
<1> QED
  BY <1>1, <1>2, <1>3, <1>4

LEMMA PlacedFacts ==
  ASSUME NEW us, NEW en, NEW lv, Placed(us, en, lv)
  PROVE  /\ Len(en) \in Nat /\ DOMAIN en = 1..Len(en)
         /\ \A i \in 1..Len(en) :
              /\ en[i] \in Decl /\ en[i].id \in Nat
              /\ lv[i] \in Nat \X Nat /\ lv[i][1] \in Nat /\ lv[i][2] \in Nat /\ lv[i] = <<lv[i][1], lv[i][2]>>
<1>1. en \in Seq(Decl) /\ lv \in Seq(Nat \X Nat) /\ Len(lv) = Len(en)
  BY DEF Placed
<1>2. Len(en) \in Nat /\ DOMAIN en = 1..Len(en) /\ \A i \in 1..Len(en) : en[i] \in Decl /\ lv[i] \in Nat \X Nat
  BY <1>1, LenProperties, ElementOfSeq
<1>3. \A x \in Decl : x.id \in Nat
  BY DEF Decl
<1>4. \A l \in Nat \X Nat : l[1] \in Nat /\ l[2] \in Nat /\ l = <<l[1], l[2]>>
  OBVIOUS
<1> HIDE DEF Decl
<1> QED
  BY <1>2, <1>3, <1>4

Numbered(us) == \A d \in 1..Len(us) : \A j \in 1..Len(us[d].localVars) : us[d].localVars[j].id > 0

\* The level of an entry is that of the variable it stands for.
LEMMA LevelOfEntry ==
  ASSUME NEW us \in Seq(UnitType), LocalsInOrder(us), Numbered(us), NEW en, NEW lv, Placed(us, en, lv),
         NEW d \in 1..Len(us), NEW j \in 1..Len(us[d].localVars),
         NEW i \in 1..Len(en), en[i] = Entry(us[d].localVars[j])
  PROVE  en[i].id # 0 /\ lv[i] = <<d, LevelOf(us[d].localVars[j])>>
<1>1. en[i].id = us[d].localVars[j].id /\ us[d].localVars[j] \in LocalVar
  BY UnitFacts DEF Entry
<1>2. en[i].id # 0
  BY <1>1 DEF Numbered, LocalVar
<1>3. Holds(us, lv[i], en[i]) /\ IsLevel(us, lv[i])
  BY <1>2 DEF Placed
<1> DEFINE e == lv[i][1]
<1>4. e \in 1..Len(us) /\ \E k \in 1..Len(us[e].localVars) :
        en[i] = Entry(us[e].localVars[k]) /\ lv[i][2] = LevelOf(us[e].localVars[k])
  BY <1>3 DEF Holds, IsLevel
<1> HIDE DEF e
<1>5. PICK k \in 1..Len(us[e].localVars) :
        en[i] = Entry(us[e].localVars[k]) /\ lv[i][2] = LevelOf(us[e].localVars[k])
  BY <1>4
<1>6. us[e].localVars[k].id = us[d].localVars[j].id
  <2>1. en[i].id = us[e].localVars[k].id
    BY <1>5 DEF Entry
  <2> QED
    BY <1>1, <2>1
<1>7. e = d /\ k = j
  BY SMTT(30), <1>4, <1>6, DifferentIds
<1> QED
  BY <1>2, <1>5, <1>7, PlacedFacts DEF e

\* Two variables of which neither is declared after the other are the same.
LEMMA InnermostIsOne ==
  ASSUME NEW us \in Seq(UnitType), NEW name, NEW K, NEW d, NEW j, IsInnermost(us, name, K, d, j),
         NEW e, NEW i, IsInnermost(us, name, K, e, i)
  PROVE  d = e /\ j = i
<1>1. ~Below(d, j, e, i) /\ ~Below(e, i, d, j) /\ Named(us, name, d, j) /\ Named(us, name, e, i)
  BY DEF IsInnermost
<1>2. Len(us) \in Nat /\ d \in 1..Len(us) /\ e \in 1..Len(us) /\ j \in 1..Len(us[d].localVars) /\ i \in 1..Len(us[e].localVars)
  BY <1>1, UnitFacts DEF Named
<1>3. Len(us[d].localVars) \in Nat /\ Len(us[e].localVars) \in Nat
  BY <1>2, UnitFacts
<1>4. d \in Nat /\ e \in Nat /\ i \in Nat /\ j \in Nat
  BY <1>2, <1>3
<1> QED
  BY <1>1, <1>4 DEF Below

\* The entries of a name that are in sight behind entry b.
Hits(en, name, b) == {i \in DOMAIN en : en[i].name = name /\ i > b}

\* All variables of that name have one.
AllBehind(us, en, name, b) ==
  \A d, j : Named(us, name, d, j) => \E i \in 1..Len(en) : en[i] = Entry(us[d].localVars[j]) /\ i > b

\* What a name means is what the tables say: the last entry is the innermost variable.
LEMMA Lookup ==
  ASSUME NEW us \in Seq(UnitType), LocalsInOrder(us), Numbered(us), NEW en, NEW lv, Placed(us, en, lv), Rising(en),
         NEW name \in Plain \union Static, NEW b, AllBehind(us, en, name, b)
  PROVE  LET S == Hits(en, name, b)
         IN  /\ S = {} <=> \A d, j : ~Named(us, name, d, j)
             /\ \A d, j : IsInnermost(us, name, Len(us), d, j) => S # {} /\ en[Max(S)].id = us[d].localVars[j].id
<1> DEFINE S == {i \in DOMAIN en : en[i].name = name /\ i > b}
<1>0. Hits(en, name, b) = S
  BY DEF Hits
<1>1. Len(en) \in Nat /\ DOMAIN en = 1..Len(en) /\ S \subseteq 0..Len(en)
  BY PlacedFacts
<1>2. ASSUME NEW i \in S PROVE \E d, j : Named(us, name, d, j) /\ en[i] = Entry(us[d].localVars[j])
  <2>1. i \in 1..Len(en) /\ en[i].name = name
    BY <1>1
  <2>2. en[i].id # 0
    <3> SUFFICES ASSUME en[i].id = 0 PROVE FALSE
      OBVIOUS
    <3>1. en[i] = Mark(KindAt(us, lv[i]))
      BY <2>1 DEF Placed
    <3>2. en[i].name = MarkName(KindAt(us, lv[i]))
      BY <3>1, MarkIs
    <3> QED
      BY <2>1, <3>2, MarkApart
  <2>3. Holds(us, lv[i], en[i]) /\ IsLevel(us, lv[i])
    BY <2>1, <2>2 DEF Placed
  <2> DEFINE d == lv[i][1]
  <2>4. d \in 1..Len(us) /\ \E j \in 1..Len(us[d].localVars) : en[i] = Entry(us[d].localVars[j])
    BY <2>3 DEF Holds, IsLevel
  <2> HIDE DEF d
  <2>5. PICK j \in 1..Len(us[d].localVars) : en[i] = Entry(us[d].localVars[j])
    BY <2>4
  <2>6. us[d].localVars[j].name = name
    BY <2>1, <2>5 DEF Entry
  <2> QED
    BY <2>4, <2>5, <2>6 DEF Named
<1>3. ASSUME NEW d, NEW j, Named(us, name, d, j)
      PROVE  \E i \in S : en[i] = Entry(us[d].localVars[j])
  <2>1. PICK i \in 1..Len(en) : en[i] = Entry(us[d].localVars[j]) /\ i > b
    BY <1>3 DEF AllBehind
  <2>2. en[i].name = name
    BY <1>3, <2>1 DEF Entry, Named
  <2> QED
    BY <1>1, <2>1, <2>2
<1>4. S = {} <=> \A d, j : ~Named(us, name, d, j)
  BY <1>2, <1>3
<1>5. ASSUME NEW d, NEW j, IsInnermost(us, name, Len(us), d, j)
      PROVE  S # {} /\ en[Max(S)].id = us[d].localVars[j].id
  <2>1. Named(us, name, d, j)
    BY <1>5 DEF IsInnermost
  <2>2. PICK i \in S : en[i] = Entry(us[d].localVars[j])
    BY <1>3, <2>1
  <2>3. Max(S) \in S /\ i <= Max(S)
    BY <1>1, MaxIs
  <2> DEFINE m == Max(S)
  <2> HIDE DEF m
  <2>4. PICK e, k : Named(us, name, e, k) /\ en[m] = Entry(us[e].localVars[k])
    BY <1>2, <2>3 DEF m
  <2>5. us[d].localVars[j] \in LocalVar /\ us[e].localVars[k] \in LocalVar
    BY <2>1, <2>4, UnitFacts DEF Named
  <2>6. /\ en[i].id = us[d].localVars[j].id /\ en[m].id = us[e].localVars[k].id
        /\ us[d].localVars[j].id \in Nat /\ us[e].localVars[k].id \in Nat
        /\ us[d].localVars[j].id # 0 /\ us[e].localVars[k].id # 0
    BY <2>1, <2>2, <2>4, <2>5 DEF Entry, LocalVar, Numbered, Named
  <2>7. ~Below(d, j, e, k)
    <3>1. e <= Len(us)
      BY <2>4 DEF Named
    <3> QED
      BY <1>5, <2>4, <3>1 DEF IsInnermost
  <2>8. i \in 1..Len(en) /\ m \in 1..Len(en) /\ i <= m
    BY <1>1, <2>3 DEF m
  <2>9. en[i].id <= en[m].id
    BY <1>1, <2>6, <2>8 DEF Rising
  <2>10. d = e /\ j = k
    <3>1. /\ d \in 1..Len(us) /\ e \in 1..Len(us) /\ j \in 1..Len(us[d].localVars) /\ k \in 1..Len(us[e].localVars)
          /\ Len(us[d].localVars) \in Nat /\ Len(us[e].localVars) \in Nat /\ Len(us) \in Nat
      BY <2>1, <2>4, UnitFacts DEF Named
    <3>2. Below(e, k, d, j) => us[e].localVars[k].id < us[d].localVars[j].id
      BY <3>1 DEF LocalsInOrder
    <3>3. ~Below(e, k, d, j)
      BY <2>6, <2>9, <3>2
    <3> QED
      BY <2>7, <3>1, <3>3 DEF Below
  <2> QED
    BY <2>2, <2>6, <2>10 DEF m
<1> HIDE DEF S
<1> QED
  BY <1>0, <1>4, <1>5

-----------------------------------------------------------------------------
(***************************************************************************)
(* How tables and declarations grow and shrink together.                   *)
(***************************************************************************)
SameEntry(us, vs, d, j) ==
  /\ Entry(vs[d].localVars[j]) = Entry(us[d].localVars[j])
  /\ LevelOf(vs[d].localVars[j]) = LevelOf(us[d].localVars[j])

\* vs has the units and variables of us that are not deeper than the levels in L.
Keeps(us, vs, L) ==
  /\ \A l \in L : l[1] \in 1..Len(vs) /\ vs[l[1]].kind = us[l[1]].kind
  /\ \A l \in L : \A j \in 1..Len(us[l[1]].localVars) :
       LevelOf(us[l[1]].localVars[j]) = l[2] => j \in 1..Len(vs[l[1]].localVars) /\ SameEntry(us, vs, l[1], j)

Levels(us) == {l \in Nat \X Nat : IsLevel(us, l)}

LEMMA KeptHolds ==
  ASSUME NEW us, NEW vs, NEW L, Keeps(us, vs, L), NEW l \in L
  PROVE  /\ KindAt(vs, l) = KindAt(us, l)
         /\ \A e : Holds(us, l, e) => Holds(vs, l, e)
<1>1. KindAt(vs, l) = KindAt(us, l)
  BY DEF Keeps, KindAt
<1>2. ASSUME NEW e, Holds(us, l, e) PROVE Holds(vs, l, e)
  <2>1. PICK j \in 1..Len(us[l[1]].localVars) :
          e = Entry(us[l[1]].localVars[j]) /\ l[2] = LevelOf(us[l[1]].localVars[j])
    BY <1>2 DEF Holds
  <2>2. j \in 1..Len(vs[l[1]].localVars) /\ SameEntry(us, vs, l[1], j)
    BY <2>1 DEF Keeps
  <2> QED
    BY <2>1, <2>2 DEF Holds, SameEntry
<1> QED
  BY <1>1, <1>2

\* The tables change and the declarations do not.
LEMMA PlacedKept ==
  ASSUME NEW us, NEW vs, NEW en, NEW lv, Placed(us, en, lv), Levels(vs) = Levels(us), Keeps(us, vs, Levels(us))
  PROVE  Placed(vs, en, lv)
<1>1. \A l \in Nat \X Nat : IsLevel(vs, l) <=> IsLevel(us, l)
  BY DEF Levels
<1>2. ASSUME NEW i \in 1..Len(en)
      PROVE  /\ IsLevel(vs, lv[i])
             /\ en[i].id = 0 => en[i] = Mark(KindAt(vs, lv[i]))
             /\ en[i].id # 0 => Holds(vs, lv[i], en[i])
  <2>1. lv[i] \in Levels(us)
    BY PlacedFacts DEF Placed, Levels
  <2>2. KindAt(vs, lv[i]) = KindAt(us, lv[i]) /\ (Holds(us, lv[i], en[i]) => Holds(vs, lv[i], en[i]))
    BY <2>1, KeptHolds
  <2>3. lv[i] \in Nat \X Nat
    BY PlacedFacts
  <2> QED
    BY <1>1, <2>2, <2>3 DEF Placed
<1> QED
  BY <1>1, <1>2 DEF Placed

\* A scope or a unit is entered: l is a new level, inside all others.
LEMMA PlacedMark ==
  ASSUME NEW us, NEW vs, NEW en, NEW lv, Placed(us, en, lv), NEW l \in Nat \X Nat,
         Levels(vs) = Levels(us) \union {l}, Keeps(us, vs, Levels(us)),
         \A m \in Levels(us) : Outer(m, l), KindAt(vs, l) \in Kind
  PROVE  Placed(vs, Append(en, Mark(KindAt(vs, l))), Append(lv, l))
<1> DEFINE mark == Mark(KindAt(vs, l))
           en2 == Append(en, mark)
           lv2 == Append(lv, l)
           n == Len(en)
<1>1. mark \in Decl /\ mark.id = 0
  BY MarkIs
<1> HIDE DEF mark
<1>2. n \in Nat /\ \A i \in 1..n : lv[i] \in Levels(us) /\ lv[i] \in Nat \X Nat
  BY PlacedFacts DEF Placed, Levels
<1>3. /\ en2 \in Seq(Decl) /\ Len(en2) = n + 1 /\ (\A i \in 1..n : en2[i] = en[i]) /\ en2[n + 1] = mark
  BY <1>1, AppendProperties DEF Placed
<1>4. /\ lv2 \in Seq(Nat \X Nat) /\ Len(lv2) = n + 1 /\ (\A i \in 1..n : lv2[i] = lv[i]) /\ lv2[n + 1] = l
  <2>1. lv \in Seq(Nat \X Nat) /\ Len(lv) = n /\ l \in Nat \X Nat
    BY DEF Placed
  <2> HIDE DEF en2, n
  <2> QED
    BY <2>1, AppendProperties
<1> HIDE DEF en2, lv2, n
<1>5. \A i \in 1..(n + 1) : i \in 1..n \/ i = n + 1
  BY <1>2
<1>6. ASSUME NEW i \in 1..(n + 1), NEW j \in 1..(n + 1), i < j
      PROVE  ~Outer(lv2[j], lv2[i]) /\ (en2[j].id = 0 => Outer(lv2[i], lv2[j]))
  <2>1. CASE j \in 1..n
    <3>1. i \in 1..n
      BY <1>2, <1>6, <2>1
    <3> QED
      BY <1>3, <1>4, <1>6, <2>1, <3>1 DEF Placed, n
  <2>2. CASE j = n + 1
    <3>1. i \in 1..n
      BY <1>2, <1>6, <2>2
    <3>2. Outer(lv[i], l) /\ lv[i][1] \in Nat /\ lv[i][2] \in Nat /\ l[1] \in Nat /\ l[2] \in Nat
      BY <1>2, <3>1, PlacedFacts DEF n
    <3> QED
      BY <1>4, <2>2, <3>1, <3>2 DEF Outer, Below
  <2> QED
    BY <1>5, <2>1, <2>2
<1>7. ASSUME NEW i \in 1..(n + 1)
      PROVE  /\ IsLevel(vs, lv2[i])
             /\ en2[i].id = 0 => en2[i] = Mark(KindAt(vs, lv2[i]))
             /\ en2[i].id # 0 => Holds(vs, lv2[i], en2[i])
  <2>1. CASE i \in 1..n
    <3>1. KindAt(vs, lv[i]) = KindAt(us, lv[i]) /\ (Holds(us, lv[i], en[i]) => Holds(vs, lv[i], en[i]))
      BY <1>2, <2>1, KeptHolds
    <3>2. IsLevel(vs, lv[i])
      BY <1>2, <2>1 DEF Levels
    <3> QED
      BY <1>3, <1>4, <2>1, <3>1, <3>2 DEF Placed, n
  <2>2. CASE i = n + 1
    <3>1. IsLevel(vs, l)
      BY DEF Levels
    <3> QED
      BY <1>1, <1>3, <1>4, <2>2, <3>1 DEF mark
  <2> QED
    BY <1>5, <2>1, <2>2
<1>8. ASSUME NEW m \in Nat \X Nat, IsLevel(vs, m) PROVE \E i \in 1..(n + 1) : lv2[i] = m /\ en2[i].id = 0
  <2>1. CASE m = l
    BY <1>1, <1>2, <1>3, <1>4, <2>1
  <2>2. CASE m # l
    <3>1. IsLevel(us, m)
      BY <1>8, <2>2 DEF Levels
    <3>2. PICK i \in 1..n : lv[i] = m /\ en[i].id = 0
      BY <3>1 DEF Placed, n
    <3> QED
      BY <1>2, <1>3, <1>4, <3>2
  <2> QED
    BY <2>1, <2>2
<1>9. Placed(vs, en2, lv2)
  BY <1>3, <1>4, <1>6, <1>7, <1>8 DEF Placed
<1> QED
  BY <1>9 DEF en2, lv2, mark

\* A variable is declared at level l, the innermost one.
LEMMA PlacedEntry ==
  ASSUME NEW us, NEW vs, NEW en, NEW lv, Placed(us, en, lv), NEW l \in Levels(us),
         Levels(vs) = Levels(us), Keeps(us, vs, Levels(us)),
         \A m \in Levels(us) : ~Outer(l, m),
         NEW e \in Decl, e.id # 0, Holds(vs, l, e)
  PROVE  Placed(vs, Append(en, e), Append(lv, l))
<1> DEFINE en2 == Append(en, e)
           lv2 == Append(lv, l)
           n == Len(en)
<1>1. l \in Nat \X Nat
  BY DEF Levels
<1>2. n \in Nat /\ \A i \in 1..n : lv[i] \in Levels(us) /\ lv[i] \in Nat \X Nat
  BY PlacedFacts DEF Placed, Levels
<1>3. /\ en2 \in Seq(Decl) /\ Len(en2) = n + 1 /\ (\A i \in 1..n : en2[i] = en[i]) /\ en2[n + 1] = e
  BY <1>1, AppendProperties DEF Placed
<1>4. /\ lv2 \in Seq(Nat \X Nat) /\ Len(lv2) = n + 1 /\ (\A i \in 1..n : lv2[i] = lv[i]) /\ lv2[n + 1] = l
  <2>1. lv \in Seq(Nat \X Nat) /\ Len(lv) = n
    BY DEF Placed
  <2> QED
    BY <1>1, <2>1, AppendProperties
<1> HIDE DEF en2, lv2, n
<1>5. \A i \in 1..(n + 1) : i \in 1..n \/ i = n + 1
  BY <1>2
<1>6. ASSUME NEW i \in 1..(n + 1), NEW j \in 1..(n + 1), i < j
      PROVE  ~Outer(lv2[j], lv2[i]) /\ (en2[j].id = 0 => Outer(lv2[i], lv2[j]))
  <2>1. CASE j \in 1..n
    <3>1. i \in 1..n
      BY <1>2, <1>6, <2>1
    <3> QED
      BY <1>3, <1>4, <1>6, <2>1, <3>1 DEF Placed, n
  <2>2. CASE j = n + 1
    <3>1. i \in 1..n
      BY <1>2, <1>6, <2>2
    <3> QED
      BY <1>2, <1>3, <1>4, <2>2, <3>1
  <2> QED
    BY <1>5, <2>1, <2>2
<1>7. ASSUME NEW i \in 1..(n + 1)
      PROVE  /\ IsLevel(vs, lv2[i])
             /\ en2[i].id = 0 => en2[i] = Mark(KindAt(vs, lv2[i]))
             /\ en2[i].id # 0 => Holds(vs, lv2[i], en2[i])
  <2>1. CASE i \in 1..n
    <3>1. KindAt(vs, lv[i]) = KindAt(us, lv[i]) /\ (Holds(us, lv[i], en[i]) => Holds(vs, lv[i], en[i]))
      BY <1>2, <2>1, KeptHolds
    <3>2. IsLevel(vs, lv[i])
      BY <1>2, <2>1 DEF Levels
    <3> QED
      <4>1. i \in 1..Len(en) /\ lv2[i] = lv[i] /\ en2[i] = en[i]
        BY <1>3, <1>4, <2>1 DEF n
      <4>2. (en[i].id = 0 => en[i] = Mark(KindAt(us, lv[i]))) /\ (en[i].id # 0 => Holds(us, lv[i], en[i]))
        BY <4>1 DEF Placed
      <4> QED
        BY <3>1, <3>2, <4>1, <4>2
  <2>2. CASE i = n + 1
    <3>1. IsLevel(vs, l)
      BY DEF Levels
    <3> QED
      BY <1>3, <1>4, <2>2, <3>1
  <2> QED
    BY <1>5, <2>1, <2>2
<1>8. ASSUME NEW m \in Nat \X Nat, IsLevel(vs, m) PROVE \E i \in 1..(n + 1) : lv2[i] = m /\ en2[i].id = 0
  <2>1. IsLevel(us, m)
    BY <1>8 DEF Levels
  <2>2. PICK i \in 1..n : lv[i] = m /\ en[i].id = 0
    BY <2>1 DEF Placed, n
  <2> QED
    BY <1>2, <1>3, <1>4, <2>2
<1>9. Placed(vs, en2, lv2)
  BY <1>3, <1>4, <1>6, <1>7, <1>8 DEF Placed
<1> QED
  BY <1>9 DEF en2, lv2

LastOf(us, en, l) == Max({i \in DOMAIN en : en[i] = Mark(KindAt(us, l))})

\* The innermost level is left: its mark is the last of its kind.
LEMMA LastMark ==
  ASSUME NEW us, NEW en, NEW lv, Placed(us, en, lv), NEW l \in Levels(us),
         \A m \in Levels(us) : m = l \/ Outer(m, l)
  PROVE  /\ LastOf(us, en, l) \in 1..Len(en)
         /\ \A i \in 1..(LastOf(us, en, l) - 1) : i \in 1..Len(en) /\ Outer(lv[i], l) /\ lv[i] # l
         /\ \A i \in 1..Len(en) : lv[i] # l => i < LastOf(us, en, l)
<1> DEFINE S == {i \in DOMAIN en : en[i] = Mark(KindAt(us, l))}
           p == Max(S)
<1>1. /\ Len(en) \in Nat /\ DOMAIN en = 1..Len(en) /\ S \subseteq 0..Len(en)
      /\ l[1] \in Nat /\ l[2] \in Nat /\ l \in Nat \X Nat /\ IsLevel(us, l)
  BY PlacedFacts DEF Levels
<1>2. PICK q \in 1..Len(en) : lv[q] = l /\ en[q].id = 0
  BY <1>1 DEF Placed
<1>3. en[q] = Mark(KindAt(us, l))
  BY <1>2 DEF Placed
<1>4. q \in S
  BY <1>1, <1>2, <1>3
<1>5. p \in S /\ q <= p
  BY <1>1, <1>4, MaxIs
<1> HIDE DEF p
<1>6. \A i \in 1..Len(en) : lv[i] \in Levels(us) /\ lv[i][1] \in Nat /\ lv[i][2] \in Nat
  <2>1. \A i \in 1..Len(en) : IsLevel(us, lv[i])
    BY DEF Placed
  <2>2. \A i \in 1..Len(en) : lv[i] \in Nat \X Nat /\ lv[i][1] \in Nat /\ lv[i][2] \in Nat
    BY PlacedFacts
  <2> QED
    BY <2>1, <2>2 DEF Levels
<1>7. p \in 1..Len(en) /\ en[p].id = 0
  BY <1>1, <1>5, MarkIs
<1>8. ~Outer(l, lv[p])
  BY <1>1, <1>6, <1>7 DEF Outer, Below
<1>9. p = q
  <2> SUFFICES ASSUME q < p PROVE FALSE
    BY <1>1, <1>5, <1>7
  <2>1. Outer(lv[q], lv[p])
    BY <1>7 DEF Placed
  <2> QED
    BY <1>2, <1>8, <2>1
<1>10. ASSUME NEW i \in 1..(p - 1) PROVE i \in 1..Len(en) /\ Outer(lv[i], l) /\ lv[i] # l
  <2>1. i \in 1..Len(en) /\ i < p
    BY <1>1, <1>7
  <2>2. Outer(lv[i], l)
    BY <1>2, <1>7, <1>9, <2>1 DEF Placed
  <2> QED
    BY <1>1, <2>1, <2>2 DEF Outer, Below
<1>11. ASSUME NEW i \in 1..Len(en), lv[i] # l PROVE i < p
  <2> SUFFICES ASSUME ~(i < p) PROVE FALSE
    OBVIOUS
  <2>1. i # p /\ p < i
    BY <1>1, <1>2, <1>7, <1>9, <1>11
  <2>2. ~Outer(lv[i], l)
    BY <1>2, <1>7, <1>9, <2>1 DEF Placed
  <2> QED
    BY <1>6, <1>11, <2>2
<1> QED
  BY <1>7, <1>10, <1>11 DEF p, LastOf

LEMMA PrefixIs ==
  ASSUME NEW S, NEW s \in Seq(S), NEW n \in 0..Len(s)
  PROVE  /\ SubSeq(s, 1, n) \in Seq(S) /\ Len(SubSeq(s, 1, n)) = n
         /\ \A i \in 1..n : i \in 1..Len(s) /\ SubSeq(s, 1, n)[i] = s[i]
<1>1. Len(s) \in Nat /\ \A i \in 1..Len(s) : s[i] \in S
  BY LenProperties, ElementOfSeq
<1>2. n \in Int /\ n \in Nat /\ \A i \in 1..n : i \in 1..Len(s) /\ s[i] \in S
  BY <1>1
<1>3. /\ SubSeq(s, 1, n) \in Seq(S)
      /\ Len(SubSeq(s, 1, n)) = IF 1 <= n THEN (n - 1) + 1 ELSE 0
      /\ \A i \in 1..((n - 1) + 1) : SubSeq(s, 1, n)[i] = s[(1 + i) - 1]
  BY <1>2, SubSeqProperties
<1>4. (n - 1) + 1 = n /\ \A i \in 1..n : (1 + i) - 1 = i
  BY <1>2
<1>5. Len(SubSeq(s, 1, n)) = n
  BY <1>2, <1>3, <1>4
<1>6. ASSUME NEW i \in 1..n PROVE SubSeq(s, 1, n)[i] = s[i]
  <2>1. i \in 1..((n - 1) + 1) /\ (1 + i) - 1 = i
    BY <1>4
  <2>2. SubSeq(s, 1, n)[i] = s[(1 + i) - 1]
    BY <1>3, <2>1
  <2> QED
    BY <2>1, <2>2
<1> QED
  BY <1>2, <1>3, <1>5, <1>6

\* What is declared outside level l stays.
LEMMA PlacedCut ==
  ASSUME NEW us, NEW vs, NEW en, NEW lv, Placed(us, en, lv), NEW l \in Levels(us),
         \A m \in Levels(us) : m = l \/ Outer(m, l),
         Levels(vs) = Levels(us) \ {l}, Keeps(us, vs, Levels(vs))
  PROVE  Placed(vs, SubSeq(en, 1, LastOf(us, en, l) - 1), SubSeq(lv, 1, LastOf(us, en, l) - 1))
<1> DEFINE p == LastOf(us, en, l)
           n == p - 1
           en2 == SubSeq(en, 1, n)
           lv2 == SubSeq(lv, 1, n)
<1>1. /\ p \in 1..Len(en)
      /\ \A i \in 1..(p - 1) : i \in 1..Len(en) /\ Outer(lv[i], l) /\ lv[i] # l
      /\ \A i \in 1..Len(en) : lv[i] # l => i < p
  BY LastMark
<1> HIDE DEF p
<1>2. n \in 0..Len(en) /\ n \in 0..Len(lv) /\ n \in Nat /\ en \in Seq(Decl) /\ lv \in Seq(Nat \X Nat)
  BY <1>1, PlacedFacts DEF Placed
<1>3. \A i \in 1..n : i \in 1..Len(en) /\ lv[i] # l /\ lv[i] \in Levels(us) /\ lv[i] \in Levels(vs)
  BY SMTT(30), <1>1, PlacedFacts DEF Placed, Levels
<1> HIDE DEF n
<1>4. en2 \in Seq(Decl) /\ Len(en2) = n /\ \A i \in 1..n : en2[i] = en[i]
  BY <1>2, PrefixIs
<1>5. lv2 \in Seq(Nat \X Nat) /\ Len(lv2) = n /\ \A i \in 1..n : lv2[i] = lv[i]
  BY <1>2, PrefixIs
<1> HIDE DEF en2, lv2
<1>6. \A i, j \in 1..n : i < j => ~Outer(lv2[j], lv2[i]) /\ (en2[j].id = 0 => Outer(lv2[i], lv2[j]))
  BY <1>3, <1>4, <1>5 DEF Placed
<1>7. ASSUME NEW i \in 1..n
      PROVE  /\ IsLevel(vs, lv2[i])
             /\ en2[i].id = 0 => en2[i] = Mark(KindAt(vs, lv2[i]))
             /\ en2[i].id # 0 => Holds(vs, lv2[i], en2[i])
  <2>1. KindAt(vs, lv[i]) = KindAt(us, lv[i]) /\ (Holds(us, lv[i], en[i]) => Holds(vs, lv[i], en[i]))
    BY <1>3, KeptHolds
  <2>2. IsLevel(vs, lv[i])
    BY <1>3 DEF Levels
  <2> QED
    BY <1>3, <1>4, <1>5, <2>1, <2>2 DEF Placed
<1>8. ASSUME NEW m \in Nat \X Nat, IsLevel(vs, m) PROVE \E i \in 1..n : lv2[i] = m /\ en2[i].id = 0
  <2>1. IsLevel(us, m) /\ m # l
    BY <1>8 DEF Levels
  <2>2. PICK i \in 1..Len(en) : lv[i] = m /\ en[i].id = 0
    BY <2>1 DEF Placed
  <2>3. i \in 1..n
    BY <1>1, <2>1, <2>2 DEF n
  <2> QED
    BY <1>4, <1>5, <2>2, <2>3
<1>9. Placed(vs, en2, lv2)
  BY <1>4, <1>5, <1>6, <1>7, <1>8 DEF Placed
<1> QED
  BY <1>9 DEF p, n, en2, lv2

-----------------------------------------------------------------------------
(***************************************************************************)
(* A step changes the innermost unit, opens one inside it or closes it.    *)
(***************************************************************************)
IsLocal(us, d, j) == d \in 1..Len(us) /\ j \in 1..Len(us[d].localVars)

LEMMA OrderOfFewer ==
  ASSUME NEW us, LocalsInOrder(us), NEW vs,
         \A d, j : IsLocal(vs, d, j) => IsLocal(us, d, j) /\ vs[d].localVars[j].id = us[d].localVars[j].id
  PROVE  LocalsInOrder(vs)
<1> SUFFICES ASSUME NEW d \in 1..Len(vs), NEW e \in 1..Len(vs), NEW i \in 1..Len(vs[d].localVars),
                    NEW j \in 1..Len(vs[e].localVars), Below(d, i, e, j)
             PROVE  vs[d].localVars[i].id < vs[e].localVars[j].id
  BY DEF LocalsInOrder
<1>1. IsLocal(vs, d, i) /\ IsLocal(vs, e, j)
  BY DEF IsLocal
<1>2. /\ IsLocal(us, d, i) /\ vs[d].localVars[i].id = us[d].localVars[i].id
      /\ IsLocal(us, e, j) /\ vs[e].localVars[j].id = us[e].localVars[j].id
  BY <1>1
<1>3. us[d].localVars[i].id < us[e].localVars[j].id
  BY <1>2 DEF LocalsInOrder, IsLocal
<1> QED
  BY <1>2, <1>3

LEMMA OrderOfOneMore ==
  ASSUME NEW us \in Seq(UnitType), LocalsInOrder(us), NEW vs, NEW e \in Nat, NEW k \in Nat, NEW x \in Nat,
         \A d, j : IsLocal(us, d, j) => us[d].localVars[j].id < x /\ Below(d, j, e, k),
         \A d, j : IsLocal(vs, d, j) =>
           \/ IsLocal(us, d, j) /\ vs[d].localVars[j].id = us[d].localVars[j].id
           \/ d = e /\ j = k /\ vs[d].localVars[j].id = x
  PROVE  LocalsInOrder(vs)
<1> SUFFICES ASSUME NEW d, NEW i, NEW f, NEW j, IsLocal(vs, d, i), IsLocal(vs, f, j), Below(d, i, f, j)
             PROVE  vs[d].localVars[i].id < vs[f].localVars[j].id
  BY DEF LocalsInOrder, IsLocal
<1>1. CASE IsLocal(us, d, i) /\ vs[d].localVars[i].id = us[d].localVars[i].id /\ IsLocal(us, f, j)
           /\ vs[f].localVars[j].id = us[f].localVars[j].id
  BY <1>1 DEF LocalsInOrder, IsLocal
<1>2. CASE IsLocal(us, d, i) /\ vs[d].localVars[i].id = us[d].localVars[i].id /\ f = e /\ j = k
           /\ vs[f].localVars[j].id = x
  BY <1>2
<1>3. CASE d = e /\ i = k /\ f = e /\ j = k
  BY <1>3 DEF Below
<1>4. CASE d = e /\ i = k /\ IsLocal(us, f, j)
  <2>1. Below(f, j, e, k) /\ Len(us) \in Nat /\ Len(us[f].localVars) \in Nat
    BY <1>4, UnitFacts DEF IsLocal
  <2>2. f \in Nat /\ j \in Nat
    BY <1>4, <2>1 DEF IsLocal
  <2> QED
    BY <1>4, <2>1, <2>2 DEF Below
<1> QED
  BY <1>1, <1>2, <1>3, <1>4

\* Nothing refers to the variables of the innermost unit.
LEMMA SoundTop ==
  ASSUME NEW us, NEW T, Sound(us, T), NEW vs \in Seq(UnitType), Len(vs) = Len(us),
         \A d \in 1..(Len(us) - 1) : vs[d] = us[d], vs[Len(us)].upvalues = us[Len(us)].upvalues,
         LocalsInOrder(vs)
  PROVE  Sound(vs, T)
<1> DEFINE D == Len(us)
<1>1. us \in Seq(UnitType) /\ D \in Nat /\ D # 0
  BY UnitFacts, EmptySeq DEF Sound
<1>2. \A d \in 1..D : vs[d].upvalues = us[d].upvalues /\ DOMAIN us[d].upvalues = 1..Len(us[d].upvalues)
  <2> SUFFICES ASSUME NEW d \in 1..D PROVE vs[d].upvalues = us[d].upvalues
    BY <1>1, UnitFacts
  <2>1. d = D \/ d \in 1..(D - 1)
    BY <1>1
  <2> QED
    BY <2>1
<1>3. \A d \in 2..D : d - 1 \in 1..(D - 1) /\ vs[d - 1] = us[d - 1] /\ d \in 1..D
  BY <1>1
<1>4. vs # <<>> /\ UpvaluesInBounds(vs)
  <2>1. vs[1].upvalues = <<>>
    BY <1>1, <1>2 DEF Sound, UpvaluesInBounds
  <2>2. \A d \in 2..D : \A i \in 1..Len(vs[d].upvalues) :
          vs[d].upvalues[i].index <
            (IF vs[d].upvalues[i].isEnclosingLocalVar THEN Len(vs[d - 1].localVars) ELSE Len(vs[d - 1].upvalues))
    BY <1>2, <1>3 DEF Sound, UpvaluesInBounds
  <2>3. vs # <<>>
    BY <1>1, EmptySeq
  <2> QED
    BY <2>1, <2>2, <2>3 DEF UpvaluesInBounds
<1>5. IsTable(T, vs)
  <2>1. Tables(T, us)
    BY <1>1, TableIs DEF Sound
  <2>2. ASSUME NEW e \in 1..D
        PROVE  T[e] = [i \in DOMAIN vs[e].upvalues |-> Origin(vs, T[e - 1], e, vs[e].upvalues[i])]
    <3>1. ASSUME NEW i \in DOMAIN us[e].upvalues
          PROVE  Origin(vs, T[e - 1], e, us[e].upvalues[i]) = Origin(us, T[e - 1], e, us[e].upvalues[i])
      <4>1. us[1].upvalues = <<>>
        BY DEF Sound, UpvaluesInBounds
      <4>2. e \in 2..D
        BY <1>1, <4>1
      <4> QED
        BY <1>3, <4>2 DEF Origin
    <3>2. [i \in DOMAIN us[e].upvalues |-> Origin(vs, T[e - 1], e, us[e].upvalues[i])]
            = [i \in DOMAIN us[e].upvalues |-> Origin(us, T[e - 1], e, us[e].upvalues[i])]
      BY <3>1
    <3> QED
      BY <1>2, <2>1, <3>2 DEF Tables
  <2> QED
    BY <1>1, <2>1, <2>2, TableIs DEF Tables
<1>6. Distinct(T, vs)
  <2>1. ASSUME NEW d \in 1..D, NEW i \in 1..Len(us[d].upvalues)
        PROVE  \E e \in 1..(d - 1) : \E j \in 1..Len(vs[e].localVars) : T[d][i] = vs[e].localVars[j].id
    <3>1. PICK e \in 1..(d - 1) : \E j \in 1..Len(us[e].localVars) : T[d][i] = us[e].localVars[j].id
      BY DEF Sound, Distinct
    <3>2. vs[e] = us[e]
      BY <1>1
    <3> QED
      BY <3>1, <3>2
  <2>2. \A d \in 1..D : \A i, j \in 1..Len(us[d].upvalues) : T[d][i] = T[d][j] => i = j
    BY DEF Sound, Distinct
  <2>3. ASSUME NEW d \in 1..Len(vs), NEW i \in 1..Len(vs[d].upvalues)
        PROVE  \E e \in 1..(d - 1) : \E j \in 1..Len(vs[e].localVars) : T[d][i] = vs[e].localVars[j].id
    <3>1. d \in 1..D /\ i \in 1..Len(us[d].upvalues)
      BY <1>2
    <3> QED
      BY <2>1, <3>1
  <2>4. \A d \in 1..Len(vs) : \A i, j \in 1..Len(vs[d].upvalues) : T[d][i] = T[d][j] => i = j
    BY <1>2, <2>2
  <2> QED
    BY <2>3, <2>4 DEF Distinct
<1> QED
  BY <1>4, <1>5, <1>6 DEF Sound

\* A unit is opened: it has no upvalues yet.
LEMMA SoundOpened ==
  ASSUME NEW us, NEW T, Sound(us, T), NEW vs \in Seq(UnitType), Len(vs) = Len(us) + 1,
         \A d \in 1..Len(us) : vs[d] = us[d], vs[Len(us) + 1].upvalues = <<>>,
         LocalsInOrder(vs)
  PROVE  \E T2 : Sound(vs, T2)
<1> DEFINE D == Len(us)
           T2 == [e \in 0..(D + 1) |-> IF e = D + 1 THEN <<>> ELSE T[e]]
<1>1. us \in Seq(UnitType) /\ D \in Nat /\ D # 0 /\ \A d \in 1..(D + 1) : d \in 1..D \/ d = D + 1
  BY UnitFacts, EmptySeq DEF Sound
<1>2. \A e \in 0..D : T2[e] = T[e]
  BY <1>1
<1>3. T2[D + 1] = <<>> /\ T2 = [e \in 0..(D + 1) |-> T2[e]]
  BY <1>1
<1> HIDE DEF T2
<1>4. Len(vs[D + 1].upvalues) = 0 /\ DOMAIN vs[D + 1].upvalues = {}
  <2>1. Len(<<>>) = 0 /\ DOMAIN <<>> = {}
    OBVIOUS
  <2> QED
    BY <2>1
<1>5. UpvaluesInBounds(vs) /\ vs # <<>>
  <2>1. vs[1].upvalues = <<>>
    BY <1>1 DEF Sound, UpvaluesInBounds
  <2>2. ASSUME NEW d \in 2..(D + 1), NEW i \in 1..Len(vs[d].upvalues)
        PROVE  vs[d].upvalues[i].index <
                 (IF vs[d].upvalues[i].isEnclosingLocalVar THEN Len(vs[d - 1].localVars) ELSE Len(vs[d - 1].upvalues))
    <3>1. d \in 2..D /\ d \in 1..D /\ d - 1 \in 1..D
      BY <1>1, <1>4
    <3> QED
      BY <3>1 DEF Sound, UpvaluesInBounds
  <2> QED
    BY <1>1, <2>1, <2>2 DEF UpvaluesInBounds
<1>6. IsTable(T2, vs)
  <2>1. Tables(T, us)
    BY <1>1, TableIs DEF Sound
  <2>2. ASSUME NEW e \in 1..D
        PROVE  T2[e] = [i \in DOMAIN vs[e].upvalues |-> Origin(vs, T2[e - 1], e, vs[e].upvalues[i])]
    <3>1. e - 1 \in 0..D /\ e \in 0..D
      BY <1>1
    <3>2. ASSUME NEW i \in DOMAIN us[e].upvalues
          PROVE  Origin(vs, T[e - 1], e, us[e].upvalues[i]) = Origin(us, T[e - 1], e, us[e].upvalues[i])
      <4>1. us[1].upvalues = <<>>
        BY DEF Sound, UpvaluesInBounds
      <4>2. e - 1 \in 1..D
        BY <1>1, <4>1
      <4> QED
        BY <4>2 DEF Origin
    <3>3. [i \in DOMAIN us[e].upvalues |-> Origin(vs, T[e - 1], e, us[e].upvalues[i])]
            = [i \in DOMAIN us[e].upvalues |-> Origin(us, T[e - 1], e, us[e].upvalues[i])]
      BY <3>2
    <3> QED
      BY <1>2, <2>1, <3>1, <3>3 DEF Tables
  <2>3. T2[D + 1] = [i \in DOMAIN vs[D + 1].upvalues |-> Origin(vs, T2[(D + 1) - 1], D + 1, vs[D + 1].upvalues[i])]
    <3> DEFINE F(i) == Origin(vs, T2[(D + 1) - 1], D + 1, vs[D + 1].upvalues[i])
    <3> HIDE DEF F
    <3>1. [i \in DOMAIN vs[D + 1].upvalues |-> F(i)] = <<>>
      BY <1>4
    <3> QED
      BY <1>3, <3>1 DEF F
  <2>4. T2[0] = <<>>
    BY <1>1, <1>2, <2>1 DEF Tables
  <2> QED
    BY <1>1, <1>3, <2>2, <2>3, <2>4, TableIs DEF Tables
<1>7. Distinct(T2, vs)
  <2>1. \A d \in 1..(D + 1) : Len(vs[d].upvalues) # 0 => d \in 1..D
    BY <1>1, <1>4
  <2>2. ASSUME NEW d \in 1..(D + 1), NEW i \in 1..Len(vs[d].upvalues)
        PROVE  \E e \in 1..(d - 1) : \E j \in 1..Len(vs[e].localVars) : T2[d][i] = vs[e].localVars[j].id
    <3>1. d \in 1..D /\ d \in 0..D
      BY <1>1, <1>4
    <3>2. PICK e \in 1..(d - 1) : \E j \in 1..Len(us[e].localVars) : T[d][i] = us[e].localVars[j].id
      BY <3>1 DEF Sound, Distinct
    <3>3. e \in 1..D
      BY <1>1, <3>1
    <3> QED
      BY <1>2, <3>1, <3>2, <3>3
  <2>3. ASSUME NEW d \in 1..(D + 1), NEW i \in 1..Len(vs[d].upvalues), NEW j \in 1..Len(vs[d].upvalues), T2[d][i] = T2[d][j]
        PROVE  i = j
    <3>1. d \in 1..D /\ d \in 0..D
      BY <1>1, <1>4
    <3> QED
      BY <1>2, <2>3, <3>1 DEF Sound, Distinct
  <2> QED
    BY <2>2, <2>3 DEF Distinct
<1>8. Sound(vs, T2)
  BY <1>5, <1>6, <1>7 DEF Sound
<1> QED
  BY <1>8

\* A unit is closed.
LEMMA SoundClosed ==
  ASSUME NEW us, NEW T, Sound(us, T), Len(us) > 1, NEW vs \in Seq(UnitType), Len(vs) = Len(us) - 1,
         \A d \in 1..Len(vs) : vs[d] = us[d]
  PROVE  \E T2 : Sound(vs, T2)
<1> DEFINE D == Len(vs)
           T2 == [e \in 0..D |-> T[e]]
<1>1. us \in Seq(UnitType) /\ D \in Nat /\ D # 0 /\ Len(us) = D + 1 /\ \A d \in 1..D : d \in 1..Len(us)
  BY UnitFacts DEF Sound
<1>2. (\A e \in 0..D : T2[e] = T[e]) /\ T2 = [e \in 0..D |-> T2[e]]
  BY <1>1
<1> HIDE DEF T2
<1>3. LocalsInOrder(vs)
  BY <1>1, OrderOfFewer DEF Sound, IsLocal
<1>4. UpvaluesInBounds(vs) /\ vs # <<>>
  <2>1. \A d \in 2..D : d \in 1..D /\ d - 1 \in 1..D /\ d \in 2..Len(us)
    BY <1>1
  <2> QED
    BY SMTT(30), <1>1, <2>1 DEF Sound, UpvaluesInBounds
<1>5. IsTable(T2, vs)
  <2>1. Tables(T, us)
    BY <1>1, TableIs DEF Sound
  <2>2. ASSUME NEW e \in 1..D
        PROVE  T2[e] = [i \in DOMAIN vs[e].upvalues |-> Origin(vs, T2[e - 1], e, vs[e].upvalues[i])]
    <3>1. e - 1 \in 0..D /\ e \in 0..D /\ e \in 1..Len(us)
      BY <1>1
    <3>2. ASSUME NEW i \in DOMAIN us[e].upvalues
          PROVE  Origin(vs, T[e - 1], e, us[e].upvalues[i]) = Origin(us, T[e - 1], e, us[e].upvalues[i])
      <4>1. us[1].upvalues = <<>>
        BY DEF Sound, UpvaluesInBounds
      <4>2. e - 1 \in 1..D
        BY <1>1, <4>1
      <4> QED
        BY <4>2 DEF Origin
    <3>3. [i \in DOMAIN us[e].upvalues |-> Origin(vs, T[e - 1], e, us[e].upvalues[i])]
            = [i \in DOMAIN us[e].upvalues |-> Origin(us, T[e - 1], e, us[e].upvalues[i])]
      BY <3>2
    <3> QED
      BY <1>2, <2>1, <3>1, <3>3 DEF Tables
  <2>3. T2[0] = <<>>
    BY SMTT(30), <1>1, <1>2, <2>1 DEF Tables
  <2> QED
    BY <1>1, <1>2, <2>2, <2>3, TableIs DEF Tables
<1>6. Distinct(T2, vs)
  <2>1. \A d \in 1..D : \A e \in 1..(d - 1) : e \in 1..D
    BY <1>1
  <2>2. ASSUME NEW d \in 1..D, NEW i \in 1..Len(vs[d].upvalues)
        PROVE  \E e \in 1..(d - 1) : \E j \in 1..Len(vs[e].localVars) : T2[d][i] = vs[e].localVars[j].id
    <3>1. d \in 1..Len(us) /\ T2[d] = T[d] /\ vs[d] = us[d]
      BY <1>1, <1>2
    <3>2. \E e \in 1..(d - 1) : \E j \in 1..Len(us[e].localVars) : T[d][i] = us[e].localVars[j].id
      BY <3>1 DEF Sound, Distinct
    <3> QED
      BY <2>1, <3>1, <3>2
  <2>3. \A d \in 1..D : \A i, j \in 1..Len(vs[d].upvalues) : T2[d][i] = T2[d][j] => i = j
    BY <1>1, <1>2 DEF Sound, Distinct
  <2> QED
    BY <2>2, <2>3 DEF Distinct
<1>7. Sound(vs, T2)
  BY <1>3, <1>4, <1>5, <1>6 DEF Sound
<1> QED
  BY <1>7

-----------------------------------------------------------------------------
(***************************************************************************)
(* What holds of the chain of units, and of it and the declarations.       *)
(***************************************************************************)
InnerOK(unit) ==
  /\ unit.scopeDepth >= 0
  /\ \A j \in 1..Len(unit.localVars) : unit.localVars[j].scopeDepth <= unit.scopeDepth /\ unit.localVars[j].name \in Plain
  /\ \A i, j \in 1..Len(unit.localVars) : i < j => unit.localVars[i].scopeDepth <= unit.localVars[j].scopeDepth

ShapeOK(us) ==
  \A d \in 1..Len(us) :
    /\ us[d].kind = "module" <=> d = 1
    /\ us[d].kind = "method" => d = 2
    /\ d >= 2 => InnerOK(us[d])

\* k variables have been declared, of which those in marked have been captured.
IdsOK(us, k, marked) ==
  \A d, j : IsLocal(us, d, j) =>
    us[d].localVars[j].id \in 1..k /\ (us[d].localVars[j].isUpvalue <=> us[d].localVars[j].id \in marked)

Chain(us, k, marked) ==
  /\ \E T : Sound(us, T)
  /\ ShapeOK(us) /\ IdsOK(us, k, marked) /\ k \in Nat /\ marked \subseteq 1..k

\* The module has static fields, and no other variables in its unit.
StaticsOf(us, C) == \A j : IsLocal(us, 1, j) => \E c \in C, n \in Name : us[1].localVars[j].name = Cls(c, n)

InPlace(us, en, c) == Rising(en) /\ Seen(us, en, c) /\ \E lv : Placed(us, en, lv)

LEMMA ChainFacts ==
  ASSUME NEW us, NEW k, NEW marked, Chain(us, k, marked)
  PROVE  /\ us \in Seq(UnitType) /\ LocalsInOrder(us) /\ Numbered(us)
         /\ Len(us) \in Nat /\ Len(us) # 0 /\ Len(us) \in 1..Len(us) /\ 1 \in 1..Len(us)
         /\ \A d \in 1..Len(us) : d \in Nat /\ us[d] \in UnitType /\ us[d].kind \in Kind /\ us[d].scopeDepth \in Int
              /\ us[d].localVars \in Seq(LocalVar) /\ Len(us[d].localVars) \in Nat
         /\ \A d, j : IsLocal(us, d, j) =>
              /\ d \in Nat /\ j \in Nat /\ us[d].localVars[j] \in LocalVar
              /\ us[d].localVars[j].id \in Nat /\ us[d].localVars[j].scopeDepth \in Int
              /\ us[d].localVars[j].name \in Plain \union Static
<1>1. us \in Seq(UnitType) /\ LocalsInOrder(us) /\ us # <<>>
  BY DEF Chain, Sound
<1>2. Len(us) \in Nat /\ Len(us) # 0 /\ Len(us) \in 1..Len(us) /\ 1 \in 1..Len(us)
  BY <1>1, UnitFacts, EmptySeq
<1>3. \A d \in 1..Len(us) : d \in Nat /\ us[d] \in UnitType /\ us[d].localVars \in Seq(LocalVar) /\ Len(us[d].localVars) \in Nat
  BY <1>1, <1>2, UnitFacts
<1>4. \A x \in UnitType : x.kind \in Kind /\ x.scopeDepth \in Int
  BY DEF UnitType
<1>5. \A d, j : IsLocal(us, d, j) => d \in Nat /\ j \in Nat /\ us[d].localVars[j] \in LocalVar
  BY <1>1, <1>3, UnitFacts DEF IsLocal
<1>6. \A x \in LocalVar : x.id \in Nat /\ x.scopeDepth \in Int /\ x.name \in Plain \union Static
  BY DEF LocalVar
<1>7. Numbered(us)
  <2> SUFFICES ASSUME NEW d \in 1..Len(us), NEW j \in 1..Len(us[d].localVars) PROVE us[d].localVars[j].id > 0
    BY DEF Numbered
  <2>1. us[d].localVars[j].id \in 1..k /\ k \in Nat
    BY DEF Chain, IdsOK, IsLocal
  <2> QED
    BY <2>1
<1> HIDE DEF UnitType, LocalVar
<1> QED
  BY <1>1, <1>2, <1>3, <1>4, <1>5, <1>6, <1>7

LEMMA TopFacts ==
  ASSUME NEW us \in Seq(UnitType), Len(us) # 0, NEW unit \in UnitType, NEW vs, vs = [us EXCEPT ![Len(us)] = unit]
  PROVE  /\ vs \in Seq(UnitType) /\ Len(vs) = Len(us) /\ vs[Len(us)] = unit
         /\ \A d \in 1..(Len(us) - 1) : d \in 1..Len(us) /\ vs[d] = us[d]
         /\ \A d \in 1..Len(us) : d # Len(us) => d \in 1..(Len(us) - 1) /\ vs[d] = us[d]
<1>1. Len(us) \in Nat /\ Len(us) \in 1..Len(us)
  BY UnitFacts
<1>2. vs \in Seq(UnitType) /\ Len(vs) = Len(us) /\ \A d \in 1..Len(us) : vs[d] = IF d = Len(us) THEN unit ELSE us[d]
  BY <1>1, ExceptSeq
<1>3. \A d \in 1..(Len(us) - 1) : d \in 1..Len(us) /\ d # Len(us)
  BY <1>1
<1>4. \A d \in 1..Len(us) : d # Len(us) => d \in 1..(Len(us) - 1)
  BY <1>1
<1> QED
  BY <1>1, <1>2, <1>3, <1>4

\* A step that changes scope or variables of the innermost unit.
LEMMA ChainTop ==
  ASSUME NEW us, NEW k, NEW marked, Chain(us, k, marked),
         NEW vs \in Seq(UnitType), Len(vs) = Len(us), \A d \in 1..(Len(us) - 1) : vs[d] = us[d],
         vs[Len(us)].kind = us[Len(us)].kind, vs[Len(us)].upvalues = us[Len(us)].upvalues,
         LocalsInOrder(vs), Len(us) >= 2 => InnerOK(vs[Len(us)]),
         NEW k2 \in Nat, k <= k2, IdsOK(vs, k2, marked)
  PROVE  Chain(vs, k2, marked)
<1>1. Len(us) \in Nat /\ \A d \in 1..Len(us) : d = Len(us) \/ d \in 1..(Len(us) - 1)
  BY ChainFacts
<1>2. \E T : Sound(vs, T)
  BY SoundTop DEF Chain
<1>3. ShapeOK(vs)
  BY <1>1 DEF Chain, ShapeOK
<1>4. marked \subseteq 1..k2
  BY DEF Chain
<1> QED
  BY <1>2, <1>3, <1>4 DEF Chain

LEMMA RisingAppend ==
  ASSUME NEW en \in Seq(Decl), Rising(en), NEW e \in Decl,
         e.id = 0 \/ \A i \in 1..Len(en) : en[i].id < e.id
  PROVE  Rising(Append(en, e))
<1>1. Len(en) \in Nat
  BY LenProperties
<1>2. /\ Len(Append(en, e)) = Len(en) + 1
      /\ \A i \in 1..Len(en) : Append(en, e)[i] = en[i]
      /\ Append(en, e)[Len(en) + 1] = e
  BY AppendProperties
<1> DEFINE n == Len(en)
           en2 == Append(en, e)
<1> HIDE DEF n, en2
<1>3. /\ n \in Nat /\ Len(en2) = n + 1 /\ (\A i \in 1..n : en2[i] = en[i]) /\ en2[n + 1] = e
      /\ \A i, j \in 1..n : i < j /\ en[i].id # 0 /\ en[j].id # 0 => en[i].id < en[j].id
  BY <1>1, <1>2 DEF n, en2, Rising
<1>4. e.id = 0 \/ \A i \in 1..n : en[i].id < e.id
  BY DEF n
<1>5. ASSUME NEW i \in 1..(n + 1), NEW j \in 1..(n + 1), i < j, en2[i].id # 0, en2[j].id # 0
      PROVE  en2[i].id < en2[j].id
  <2>1. i \in 1..n
    BY <1>3, <1>5
  <2>2. CASE j \in 1..n
    BY <1>3, <1>5, <2>1, <2>2
  <2>3. CASE j = n + 1
    BY <1>3, <1>4, <1>5, <2>1, <2>3
  <2> QED
    BY <1>3, <2>2, <2>3
<1>6. Rising(en2)
  BY <1>3, <1>5 DEF Rising
<1> QED
  BY <1>6 DEF en2

LEMMA RisingPrefix ==
  ASSUME NEW en \in Seq(Decl), Rising(en), NEW n \in 0..Len(en)
  PROVE  Rising(SubSeq(en, 1, n))
<1>1. Len(SubSeq(en, 1, n)) = n /\ \A i \in 1..n : i \in 1..Len(en) /\ SubSeq(en, 1, n)[i] = en[i]
  BY PrefixIs
<1> DEFINE en2 == SubSeq(en, 1, n)
<1> HIDE DEF en2
<1>2. Len(en2) = n /\ \A i \in 1..n : i \in 1..Len(en) /\ en2[i] = en[i]
  BY <1>1 DEF en2
<1>3. Rising(en2)
  BY <1>2 DEF Rising
<1> QED
  BY <1>3 DEF en2

\* The numbers of the declarations are those of variables.
LEMMA EntryIds ==
  ASSUME NEW us, NEW k, NEW marked, Chain(us, k, marked), NEW en, NEW lv, Placed(us, en, lv), NEW i \in 1..Len(en)
  PROVE  en[i].id \in Nat /\ en[i].id <= k
<1>1. en[i].id \in Nat /\ k \in Nat
  BY PlacedFacts DEF Chain
<1>2. CASE en[i].id # 0
  <2> DEFINE d == lv[i][1]
  <2>1. d \in 1..Len(us) /\ \E j \in 1..Len(us[d].localVars) : en[i] = Entry(us[d].localVars[j])
    BY <1>2 DEF Placed, Holds, IsLevel
  <2> HIDE DEF d
  <2>2. PICK j \in 1..Len(us[d].localVars) : en[i] = Entry(us[d].localVars[j])
    BY <2>1
  <2>3. en[i].id = us[d].localVars[j].id
    BY <2>2 DEF Entry
  <2>4. us[d].localVars[j].id \in 1..k
    BY <2>1 DEF Chain, IdsOK, IsLocal
  <2> QED
    BY <1>1, <2>3, <2>4
<1> QED
  BY <1>1, <1>2

\* Every variable in sight stays in sight, or is new and in sight.
LEMMA SeenKept ==
  ASSUME NEW us, NEW vs, NEW en, NEW en2, NEW c, NEW c2, Seen(us, en, c),
         \A i \in 1..Len(en) : \E m \in 1..Len(en2) : en2[m] = en[i],
         \A d, j : IsLocal(vs, d, j) =>
           \/ IsLocal(us, d, j) /\ Entry(vs[d].localVars[j]) = Entry(us[d].localVars[j])
              /\ (d >= 2 \/ c2 = c \/ \A n \in Name : vs[d].localVars[j].name # Cls(c2, n))
           \/ \E m \in 1..Len(en2) : en2[m] = Entry(vs[d].localVars[j])
  PROVE  Seen(vs, en2, c2)
<1> SUFFICES ASSUME NEW d \in 1..Len(vs), NEW j \in 1..Len(vs[d].localVars),
                    d >= 2 \/ (\E n \in Name : vs[d].localVars[j].name = Cls(c2, n))
             PROVE  \E m \in 1..Len(en2) : en2[m] = Entry(vs[d].localVars[j])
  BY DEF Seen
<1>1. IsLocal(vs, d, j)
  BY DEF IsLocal
<1> SUFFICES ASSUME IsLocal(us, d, j), Entry(vs[d].localVars[j]) = Entry(us[d].localVars[j]),
                    d >= 2 \/ c2 = c
             PROVE  \E m \in 1..Len(en2) : en2[m] = Entry(vs[d].localVars[j])
  BY <1>1
<1>2. us[d].localVars[j].name = vs[d].localVars[j].name
  BY DEF Entry
<1>3. d >= 2 \/ (\E n \in Name : us[d].localVars[j].name = Cls(c, n))
  BY <1>2
<1>4. PICK i \in 1..Len(en) : en[i] = Entry(us[d].localVars[j])
  BY <1>3 DEF Seen, IsLocal
<1> QED
  BY <1>4

-----------------------------------------------------------------------------
(***************************************************************************)
(* Scopes are entered and left, variables declared, units opened and       *)
(* closed, and references mark variables.                                  *)
(***************************************************************************)
LEMMA DepthChanged ==
  ASSUME NEW u \in UnitType, NEW s \in Int
  PROVE  LET w == [u EXCEPT !.scopeDepth = s]
         IN  w \in UnitType /\ w.kind = u.kind /\ w.upvalues = u.upvalues /\ w.scopeDepth = s /\ w.localVars = u.localVars
BY DEF UnitType

LEMMA LocalsChanged ==
  ASSUME NEW u \in UnitType, NEW locals \in Seq(LocalVar)
  PROVE  LET x == [u EXCEPT !.localVars = locals]
         IN  x \in UnitType /\ x.kind = u.kind /\ x.upvalues = u.upvalues /\ x.scopeDepth = u.scopeDepth /\ x.localVars = locals
BY DEF UnitType

Entered(us) == [us EXCEPT ![Len(us)].scopeDepth = @ + 1]

LEMMA EnteredIs ==
  ASSUME NEW us, NEW k, NEW marked, Chain(us, k, marked)
  PROVE  LET vs == Entered(us)
             D == Len(us)
         IN  /\ vs \in Seq(UnitType) /\ Len(vs) = D
             /\ \A d \in 1..D : vs[d].kind = us[d].kind /\ vs[d].localVars = us[d].localVars /\ vs[d].upvalues = us[d].upvalues
             /\ \A d \in 1..D : vs[d].scopeDepth = IF d = D THEN us[d].scopeDepth + 1 ELSE us[d].scopeDepth
             /\ \A d \in 1..(D - 1) : vs[d] = us[d]
<1> DEFINE D == Len(us)
           unit == [us[D] EXCEPT !.scopeDepth = us[D].scopeDepth + 1]
<1>1. us \in Seq(UnitType) /\ D # 0 /\ D \in 1..D /\ us[D] \in UnitType /\ us[D].scopeDepth \in Int /\ D \in Nat
  BY ChainFacts
<1>2. unit \in UnitType /\ unit.kind = us[D].kind /\ unit.localVars = us[D].localVars /\ unit.upvalues = us[D].upvalues
      /\ unit.scopeDepth = us[D].scopeDepth + 1
  <2>1. us[D].scopeDepth + 1 \in Int /\ us[D].localVars \in Seq(LocalVar)
    BY <1>1, UnitFacts
  <2> HIDE DEF D
  <2> QED
    BY <1>1, <2>1, DepthChanged
<1>3. Entered(us) = [us EXCEPT ![D] = unit]
  BY <1>1 DEF Entered
<1> HIDE DEF unit
<1>4. /\ Entered(us) \in Seq(UnitType) /\ Len(Entered(us)) = D /\ Entered(us)[D] = unit
      /\ \A d \in 1..(D - 1) : d \in 1..D /\ Entered(us)[d] = us[d]
      /\ \A d \in 1..D : d # D => d \in 1..(D - 1) /\ Entered(us)[d] = us[d]
  BY <1>1, <1>2, <1>3, TopFacts
<1> QED
  BY <1>1, <1>2, <1>4

\* What differs in nothing but the scope it is in has the same variables.
LEMMA ChainEntered ==
  ASSUME NEW us, NEW k, NEW marked, Chain(us, k, marked)
  PROVE  Chain(Entered(us), k, marked)
<1> DEFINE vs == Entered(us)
           D == Len(us)
<1>1. /\ vs \in Seq(UnitType) /\ Len(vs) = D
      /\ \A d \in 1..D : vs[d].kind = us[d].kind /\ vs[d].localVars = us[d].localVars /\ vs[d].upvalues = us[d].upvalues
      /\ \A d \in 1..D : vs[d].scopeDepth = IF d = D THEN us[d].scopeDepth + 1 ELSE us[d].scopeDepth
      /\ \A d \in 1..(D - 1) : vs[d] = us[d]
  BY EnteredIs
<1> HIDE DEF vs
<1>2. D \in Nat /\ D \in 1..D /\ k \in Nat /\ us[D].scopeDepth \in Int
  BY ChainFacts DEF Chain
<1>3. \A d, j : IsLocal(vs, d, j) <=> IsLocal(us, d, j)
  BY <1>1 DEF IsLocal
<1>4. \A d, j : IsLocal(us, d, j) => vs[d].localVars = us[d].localVars
  BY <1>1 DEF IsLocal
<1>5. LocalsInOrder(vs)
  BY <1>3, <1>4, ChainFacts, OrderOfFewer
<1>6. IdsOK(vs, k, marked)
  BY <1>3, <1>4 DEF Chain, IdsOK
<1>7. D >= 2 => InnerOK(vs[D])
  <2> SUFFICES ASSUME D >= 2 PROVE InnerOK(vs[D])
    OBVIOUS
  <2>1. InnerOK(us[D]) /\ vs[D].localVars = us[D].localVars /\ vs[D].scopeDepth = us[D].scopeDepth + 1
    BY <1>1, <1>2 DEF Chain, ShapeOK
  <2>2. \A j \in 1..Len(us[D].localVars) : us[D].localVars[j].scopeDepth \in Int
    BY <1>2, ChainFacts DEF IsLocal
  <2> QED
    BY <1>2, <2>1, <2>2 DEF InnerOK
<1>8. Chain(vs, k, marked)
  BY <1>1, <1>2, <1>5, <1>6, <1>7, ChainTop
<1> QED
  BY <1>8 DEF vs

LEMMA InPlaceEntered ==
  ASSUME NEW us, NEW k, NEW marked, Chain(us, k, marked), NEW en, NEW c, InPlace(us, en, c),
         us[Len(us)].scopeDepth >= -1,
         NEW kind, kind = IF us[Len(us)].scopeDepth >= 0 THEN "scope"
                          ELSE IF Len(us) = 1 THEN "class" ELSE us[Len(us)].kind,
         NEW c2, c2 = c \/ \A j : IsLocal(us, 1, j) => \A n \in Name : us[1].localVars[j].name # Cls(c2, n)
  PROVE  InPlace(Entered(us), Append(en, Mark(kind)), c2)
<1> DEFINE vs == Entered(us)
           D == Len(us)
           s == us[D].scopeDepth + 1
           l == <<D, s>>
<1>1. /\ vs \in Seq(UnitType) /\ Len(vs) = D
      /\ \A d \in 1..D : vs[d].kind = us[d].kind /\ vs[d].localVars = us[d].localVars /\ vs[d].upvalues = us[d].upvalues
      /\ \A d \in 1..D : vs[d].scopeDepth = IF d = D THEN us[d].scopeDepth + 1 ELSE us[d].scopeDepth
      /\ \A d \in 1..(D - 1) : vs[d] = us[d]
  BY EnteredIs
<1> HIDE DEF vs
<1>2. D \in Nat /\ D \in 1..D /\ us[D].scopeDepth \in Int /\ \A d \in 1..D : d \in Nat /\ us[d].scopeDepth \in Int /\ us[d].kind \in Kind
  BY ChainFacts
<1>3. s \in Nat /\ l \in Nat \X Nat /\ l[1] = D /\ l[2] = s
  BY <1>2
<1>4. KindAt(vs, l) = kind /\ kind \in Kind
  <2>1. KindAt(vs, l) = IF s > 0 THEN "scope" ELSE IF D = 1 THEN "class" ELSE us[D].kind
    <3> HIDE DEF l, s
    <3> QED
      BY <1>1, <1>2, <1>3 DEF KindAt
  <2>2. s > 0 <=> us[D].scopeDepth >= 0
    BY <1>2
  <2> HIDE DEF s, D
  <2>3. kind = IF s > 0 THEN "scope" ELSE IF D = 1 THEN "class" ELSE us[D].kind
    BY <2>2 DEF D
  <2>4. us[D].kind \in Kind /\ "scope" \in Kind /\ "class" \in Kind
    BY ChainFacts DEF D, Kind
  <2>5. kind \in Kind
    BY <2>3, <2>4
  <2> QED
    BY <2>1, <2>3, <2>5
<1> HIDE DEF l, s
<1>5. Levels(vs) = Levels(us) \union {l}
  <2>1. ASSUME NEW m \in Nat \X Nat PROVE IsLevel(vs, m) <=> IsLevel(us, m) \/ m = l
    <3>1. m[1] \in Nat /\ m[2] \in Nat /\ (m = l <=> m[1] = D /\ m[2] = s)
      BY <1>3 DEF l
    <3>2. CASE m[1] = D
      <4>1. IsLevel(vs, m) <=> m[2] \in 0..s
        BY <1>1, <1>2, <3>2 DEF IsLevel, s
      <4>2. IsLevel(us, m) <=> m[2] \in 0..(s - 1)
        BY <1>2, <3>2 DEF IsLevel, s
      <4> QED
        BY <1>3, <3>1, <3>2, <4>1, <4>2
    <3>3. CASE m[1] # D
      BY <1>1, <3>1, <3>3 DEF IsLevel
    <3> QED
      BY <3>2, <3>3
  <2> QED
    BY <1>3, <2>1 DEF Levels
<1>6. \A m \in Levels(us) : Outer(m, l)
  <2> SUFFICES ASSUME NEW m \in Levels(us) PROVE Outer(m, l)
    OBVIOUS
  <2>1. m[1] \in 1..D /\ m[2] \in 0..us[m[1]].scopeDepth
    BY DEF Levels, IsLevel
  <2>2. m[1] = D => m[2] < s
    BY <1>2, <2>1 DEF s
  <2> QED
    BY <1>2, <1>3, <2>1, <2>2 DEF Outer, Below
<1>7. Keeps(us, vs, Levels(us))
  <2>1. \A m \in Levels(us) : m[1] \in 1..D
    BY DEF Levels, IsLevel
  <2> QED
    BY <1>1, <2>1 DEF Keeps, SameEntry
<1>8. PICK lv : Placed(us, en, lv)
  BY DEF InPlace
<1> DEFINE en2 == Append(en, Mark(kind))
<1>9. Placed(vs, en2, Append(lv, l))
  BY <1>3, <1>4, <1>5, <1>6, <1>7, <1>8, PlacedMark
<1>10. en \in Seq(Decl) /\ Mark(kind) \in Decl /\ Mark(kind).id = 0
  BY <1>4, <1>8, MarkIs DEF Placed
<1>11. Rising(en2)
  BY <1>10, RisingAppend DEF InPlace
<1>12. Seen(vs, en2, c2)
  <2>1. \A i \in 1..Len(en) : \E m \in 1..Len(en2) : en2[m] = en[i]
    <3>1. Len(en) \in Nat /\ Len(en2) = Len(en) + 1 /\ \A i \in 1..Len(en) : en2[i] = en[i]
      BY <1>10, AppendProperties, LenProperties
    <3> HIDE DEF en2
    <3> QED
      BY <3>1
  <2>2. ASSUME NEW d, NEW j, IsLocal(vs, d, j)
        PROVE  IsLocal(us, d, j) /\ Entry(vs[d].localVars[j]) = Entry(us[d].localVars[j])
               /\ (d >= 2 \/ c2 = c \/ \A n \in Name : vs[d].localVars[j].name # Cls(c2, n))
    <3>1. d \in 1..D /\ IsLocal(us, d, j) /\ vs[d].localVars = us[d].localVars
      BY <1>1, <2>2 DEF IsLocal
    <3>2. d = 1 \/ d >= 2
      BY <1>2, <3>1
    <3> QED
      BY <3>1, <3>2
  <2>3. Seen(us, en, c)
    BY DEF InPlace
  <2> HIDE DEF en2
  <2> QED
    BY <2>1, <2>2, <2>3, SeenKept
<1> QED
  BY <1>9, <1>11, <1>12 DEF InPlace, vs

WithLocal(us, name, id) == [us EXCEPT ![Len(us)].localVars = Append(@, Local(name, us[Len(us)].scopeDepth, id))]

LEMMA WithLocalIs ==
  ASSUME NEW us, NEW k, NEW marked, Chain(us, k, marked), NEW name \in Plain \union Static
  PROVE  LET vs == WithLocal(us, name, k + 1)
             D == Len(us)
             J == Len(us[D].localVars) + 1
         IN  /\ vs \in Seq(UnitType) /\ Len(vs) = D
             /\ \A d \in 1..D : vs[d].kind = us[d].kind /\ vs[d].scopeDepth = us[d].scopeDepth /\ vs[d].upvalues = us[d].upvalues
             /\ \A d \in 1..(D - 1) : vs[d] = us[d]
             /\ \A d, j : IsLocal(us, d, j) => IsLocal(vs, d, j) /\ vs[d].localVars[j] = us[d].localVars[j]
             /\ \A d, j : IsLocal(vs, d, j) <=> IsLocal(us, d, j) \/ (d = D /\ j = J)
             /\ vs[D].localVars[J] = Local(name, us[D].scopeDepth, k + 1)
<1> DEFINE D == Len(us)
           J == Len(us[D].localVars) + 1
           v == Local(name, us[D].scopeDepth, k + 1)
           locals == Append(us[D].localVars, v)
           unit == [us[D] EXCEPT !.localVars = locals]
<1>1. /\ us \in Seq(UnitType) /\ D # 0 /\ D \in 1..D /\ us[D] \in UnitType /\ us[D].scopeDepth \in Int /\ D \in Nat
      /\ k \in Nat /\ us[D].localVars \in Seq(LocalVar) /\ Len(us[D].localVars) \in Nat
  BY ChainFacts DEF Chain
<1>2. v \in LocalVar
  BY <1>1 DEF LocalVar, Local
<1> HIDE DEF v
<1>3. /\ locals \in Seq(LocalVar) /\ Len(locals) = J /\ locals[J] = v
      /\ \A j \in 1..Len(us[D].localVars) : locals[j] = us[D].localVars[j]
  BY <1>1, <1>2, AppendProperties
<1>4. WithLocal(us, name, k + 1) = [us EXCEPT ![D] = unit]
  BY <1>1 DEF WithLocal, v
<1> HIDE DEF locals
<1>5. unit \in UnitType /\ unit.kind = us[D].kind /\ unit.localVars = locals /\ unit.upvalues = us[D].upvalues
      /\ unit.scopeDepth = us[D].scopeDepth
  <2> HIDE DEF D
  <2> QED
    BY <1>1, <1>3, LocalsChanged
<1> HIDE DEF unit
<1> DEFINE vs == WithLocal(us, name, k + 1)
<1>6. /\ vs \in Seq(UnitType) /\ Len(vs) = D /\ vs[D] = unit
      /\ \A d \in 1..(D - 1) : d \in 1..D /\ vs[d] = us[d]
      /\ \A d \in 1..D : d # D => d \in 1..(D - 1) /\ vs[d] = us[d]
  BY <1>1, <1>4, <1>5, TopFacts
<1> HIDE DEF vs
<1>7. \A d \in 1..D : vs[d].kind = us[d].kind /\ vs[d].scopeDepth = us[d].scopeDepth /\ vs[d].upvalues = us[d].upvalues
  BY <1>5, <1>6
<1>8. ASSUME NEW d, NEW j PROVE IsLocal(vs, d, j) <=> IsLocal(us, d, j) \/ (d = D /\ j = J)
  <2>1. CASE d = D
    <3>1. j \in 1..J <=> j \in 1..Len(us[D].localVars) \/ j = J
      BY <1>1
    <3> HIDE DEF D, J
    <3> QED
      BY <1>1, <1>3, <1>5, <1>6, <2>1, <3>1 DEF IsLocal, D
  <2>2. CASE d # D
    BY <1>6, <2>2 DEF IsLocal
  <2> QED
    BY <2>1, <2>2
<1>9. ASSUME NEW d, NEW j, IsLocal(us, d, j) PROVE IsLocal(vs, d, j) /\ vs[d].localVars[j] = us[d].localVars[j]
  <2>1. CASE d = D
    BY <1>3, <1>5, <1>6, <1>8, <1>9, <2>1 DEF IsLocal
  <2>2. CASE d # D
    BY <1>6, <1>8, <1>9, <2>2 DEF IsLocal
  <2> QED
    BY <2>1, <2>2
<1>10. vs[D].localVars[J] = v
  BY <1>3, <1>5, <1>6
<1> HIDE DEF D, J
<1> QED
  BY <1>6, <1>7, <1>8, <1>9, <1>10 DEF v, vs, D, J

LEMMA ChainWithLocal ==
  ASSUME NEW us, NEW k, NEW marked, Chain(us, k, marked), NEW name \in Plain \union Static,
         Len(us) >= 2 => name \in Plain
  PROVE  Chain(WithLocal(us, name, k + 1), k + 1, marked)
<1> DEFINE vs == WithLocal(us, name, k + 1)
           D == Len(us)
           J == Len(us[D].localVars) + 1
           v == Local(name, us[D].scopeDepth, k + 1)
<1>1. /\ vs \in Seq(UnitType) /\ Len(vs) = D
      /\ \A d \in 1..D : vs[d].kind = us[d].kind /\ vs[d].scopeDepth = us[d].scopeDepth /\ vs[d].upvalues = us[d].upvalues
      /\ \A d \in 1..(D - 1) : vs[d] = us[d]
      /\ \A d, j : IsLocal(us, d, j) => IsLocal(vs, d, j) /\ vs[d].localVars[j] = us[d].localVars[j]
      /\ \A d, j : IsLocal(vs, d, j) <=> IsLocal(us, d, j) \/ (d = D /\ j = J)
      /\ vs[D].localVars[J] = v
  BY WithLocalIs
<1> HIDE DEF vs
<1>2. v.name = name /\ v.id = k + 1 /\ v.isUpvalue = FALSE /\ v.scopeDepth = us[D].scopeDepth
  BY DEF Local
<1> HIDE DEF v
<1>3. D \in Nat /\ D \in 1..D /\ k \in Nat /\ us[D].scopeDepth \in Int /\ J \in Nat /\ Len(us[D].localVars) \in Nat
      /\ marked \subseteq 1..k /\ us \in Seq(UnitType) /\ LocalsInOrder(us)
  <2>1. D \in Nat /\ D \in 1..D /\ us[D].scopeDepth \in Int /\ Len(us[D].localVars) \in Nat
        /\ us \in Seq(UnitType) /\ LocalsInOrder(us)
    BY ChainFacts
  <2>2. k \in Nat /\ marked \subseteq 1..k
    BY DEF Chain
  <2>3. J \in Nat
    BY <2>1
  <2> QED
    BY <2>1, <2>2, <2>3
<1>4. \A d, j : IsLocal(us, d, j) => us[d].localVars[j].id \in 1..k /\ (us[d].localVars[j].isUpvalue <=> us[d].localVars[j].id \in marked)
  BY DEF Chain, IdsOK
<1>5. LocalsInOrder(vs)
  <2>1. ASSUME NEW d, NEW j, IsLocal(us, d, j) PROVE us[d].localVars[j].id < k + 1 /\ Below(d, j, D, J)
    <3>1. d \in Nat /\ j \in Nat /\ d <= D /\ (d = D => j < J)
      BY <1>3, <2>1, ChainFacts DEF IsLocal
    <3> QED
      BY <1>3, <1>4, <2>1, <3>1 DEF Below
  <2>2. k + 1 \in Nat
    BY <1>3
  <2> HIDE DEF D, J
  <2>3. \A d, j : IsLocal(vs, d, j) =>
           \/ IsLocal(us, d, j) /\ vs[d].localVars[j].id = us[d].localVars[j].id
           \/ d = D /\ j = J /\ vs[d].localVars[j].id = k + 1
    BY <1>1, <1>2
  <2> QED
    BY <1>3, <2>1, <2>2, <2>3, OrderOfOneMore
<1>6. IdsOK(vs, k + 1, marked)
  <2> SUFFICES ASSUME NEW d, NEW j, IsLocal(vs, d, j)
               PROVE  vs[d].localVars[j].id \in 1..(k + 1)
                      /\ (vs[d].localVars[j].isUpvalue <=> vs[d].localVars[j].id \in marked)
    BY DEF IdsOK
  <2>1. CASE IsLocal(us, d, j)
    <3>1. vs[d].localVars[j] = us[d].localVars[j]
      BY <1>1, <2>1
    <3> QED
      BY <1>3, <1>4, <2>1, <3>1
  <2>2. CASE d = D /\ j = J
    <3>1. vs[d].localVars[j] = v
      BY <1>1, <2>2
    <3>2. k + 1 \notin marked /\ k + 1 \in 1..(k + 1)
      BY <1>3
    <3> QED
      BY <1>2, <3>1, <3>2
  <2> QED
    BY <1>1, <2>1, <2>2
<1>7. D >= 2 => InnerOK(vs[D])
  <2> SUFFICES ASSUME D >= 2 PROVE InnerOK(vs[D])
    OBVIOUS
  <2>1. InnerOK(us[D]) /\ vs[D].scopeDepth = us[D].scopeDepth /\ name \in Plain
    BY <1>1, <1>3 DEF Chain, ShapeOK
  <2>2. Len(vs[D].localVars) = J
    <3>1. vs[D] \in UnitType
      BY <1>1, <1>3, UnitFacts
    <3>2. Len(vs[D].localVars) \in Nat
      BY <1>1, <1>3, UnitFacts
    <3>3. \A j : j \in 1..Len(vs[D].localVars) <=> j \in 1..Len(us[D].localVars) \/ j = J
      BY <1>1, <1>3 DEF IsLocal
    <3>4. J \in 1..Len(vs[D].localVars) /\ J + 1 \notin 1..Len(vs[D].localVars)
      BY <1>3, <3>3
    <3> QED
      BY <1>3, <3>2, <3>4
  <2>3. \A j \in 1..J : j = J \/ j \in 1..Len(us[D].localVars)
    BY <1>3
  <2>4. \A j \in 1..Len(us[D].localVars) : vs[D].localVars[j] = us[D].localVars[j] /\ us[D].localVars[j].scopeDepth \in Int /\ j < J
    BY SMTT(30), <1>1, <1>3, ChainFacts DEF IsLocal
  <2>5. \A j \in 1..J : vs[D].localVars[j].scopeDepth <= vs[D].scopeDepth /\ vs[D].localVars[j].name \in Plain
    <3> TAKE j \in 1..J
    <3>1. CASE j = J
      BY <1>1, <1>2, <1>3, <2>1, <3>1
    <3>2. CASE j \in 1..Len(us[D].localVars)
      BY <2>1, <2>4, <3>2 DEF InnerOK
    <3> QED
      BY <2>3, <3>1, <3>2
  <2>6. \A i, j \in 1..J : i < j => vs[D].localVars[i].scopeDepth <= vs[D].localVars[j].scopeDepth
    <3> SUFFICES ASSUME NEW i \in 1..J, NEW j \in 1..J, i < j
                 PROVE  vs[D].localVars[i].scopeDepth <= vs[D].localVars[j].scopeDepth
      OBVIOUS
    <3>1. CASE j = J
      BY <1>1, <1>2, <2>1, <2>5, <3>1
    <3>2. CASE j \in 1..Len(us[D].localVars)
      <4>1. i \in 1..Len(us[D].localVars)
        BY <1>3, <3>2
      <4> QED
        BY <2>1, <2>4, <3>2, <4>1 DEF InnerOK
    <3> QED
      BY <2>3, <3>1, <3>2
  <2>7. vs[D].scopeDepth >= 0
    BY <2>1 DEF InnerOK
  <2> HIDE DEF J, D
  <2> QED
    BY <2>2, <2>5, <2>6, <2>7 DEF InnerOK
<1>8. Chain(vs, k + 1, marked)
  <2>1. k + 1 \in Nat /\ k <= k + 1
    BY <1>3
  <2> QED
    BY <1>1, <1>3, <1>5, <1>6, <1>7, <2>1, ChainTop
<1> QED
  BY <1>8 DEF vs

\* Declarations from level l on are in the innermost scope when it is the last.
LEMMA LastLevel ==
  ASSUME NEW us, NEW k, NEW marked, Chain(us, k, marked), us[Len(us)].scopeDepth >= 0
  PROVE  LET l == <<Len(us), us[Len(us)].scopeDepth>>
         IN  l \in Levels(us) /\ \A m \in Levels(us) : ~Outer(l, m) /\ (m = l \/ Outer(m, l))
<1> DEFINE D == Len(us)
           s == us[D].scopeDepth
           l == <<D, s>>
<1>1. D \in Nat /\ D \in 1..D /\ s \in Nat
  BY ChainFacts
<1>2. l[1] = D /\ l[2] = s /\ l \in Nat \X Nat
  BY <1>1
<1>3. l \in Levels(us)
  BY <1>1, <1>2 DEF Levels, IsLevel
<1>4. ASSUME NEW m \in Levels(us) PROVE ~Outer(l, m) /\ (m = l \/ Outer(m, l))
  <2>1. m \in Nat \X Nat /\ m[1] \in 1..D /\ m[2] \in 0..us[m[1]].scopeDepth /\ m = <<m[1], m[2]>>
    BY DEF Levels, IsLevel
  <2>2. m[1] <= D /\ m[1] \in Nat /\ m[2] \in Nat /\ (m[1] = D => m[2] <= s)
    BY <1>1, <2>1
  <2> HIDE DEF D, s
  <2>3. m = l <=> m[1] = D /\ m[2] = s
    BY <2>1
  <2> HIDE DEF l
  <2> QED
    BY <1>1, <1>2, <2>2, <2>3 DEF Outer, Below
<1> QED
  BY <1>3, <1>4

LEMMA InPlaceWithLocal ==
  ASSUME NEW us, NEW k, NEW marked, Chain(us, k, marked), NEW en, NEW c, InPlace(us, en, c),
         NEW name \in Plain \union Static, us[Len(us)].scopeDepth >= 0
  PROVE  InPlace(WithLocal(us, name, k + 1), Append(en, [name |-> name, id |-> k + 1]), c)
<1> DEFINE vs == WithLocal(us, name, k + 1)
           D == Len(us)
           J == Len(us[D].localVars) + 1
           v == Local(name, us[D].scopeDepth, k + 1)
           l == <<D, us[D].scopeDepth>>
           e == [name |-> name, id |-> k + 1]
           en2 == Append(en, e)
<1>1. /\ vs \in Seq(UnitType) /\ Len(vs) = D
      /\ \A d \in 1..D : vs[d].kind = us[d].kind /\ vs[d].scopeDepth = us[d].scopeDepth /\ vs[d].upvalues = us[d].upvalues
      /\ \A d \in 1..(D - 1) : vs[d] = us[d]
      /\ \A d, j : IsLocal(us, d, j) => IsLocal(vs, d, j) /\ vs[d].localVars[j] = us[d].localVars[j]
      /\ \A d, j : IsLocal(vs, d, j) <=> IsLocal(us, d, j) \/ (d = D /\ j = J)
      /\ vs[D].localVars[J] = v
  BY WithLocalIs
<1> HIDE DEF vs
<1>2. l \in Levels(us) /\ l[1] = D /\ l[2] = us[D].scopeDepth /\ \A m \in Levels(us) : ~Outer(l, m)
  BY LastLevel
<1> HIDE DEF l
<1>3. D \in Nat /\ D \in 1..D /\ k \in Nat /\ us[D].scopeDepth \in Int
  BY ChainFacts DEF Chain
<1>4. e \in Decl /\ e.id = k + 1 /\ e.id # 0 /\ e = Entry(v) /\ LevelOf(v) = us[D].scopeDepth
  BY <1>3 DEF Decl, Entry, Local, LevelOf
<1> HIDE DEF e, v
<1>5. Levels(vs) = Levels(us)
  BY <1>1 DEF Levels, IsLevel
<1>6. Keeps(us, vs, Levels(us))
  <2>1. \A m \in Levels(us) : m[1] \in 1..D
    BY DEF Levels, IsLevel
  <2>2. \A d \in 1..D : \A j \in 1..Len(us[d].localVars) : j \in 1..Len(vs[d].localVars) /\ vs[d].localVars[j] = us[d].localVars[j]
    BY <1>1 DEF IsLocal
  <2> QED
    BY <1>1, <2>1, <2>2 DEF Keeps, SameEntry
<1>7. Holds(vs, l, e)
  <2>1. J \in 1..Len(vs[D].localVars)
    BY <1>1 DEF IsLocal
  <2> QED
    BY <1>1, <1>2, <1>4, <2>1 DEF Holds
<1>8. PICK lv : Placed(us, en, lv)
  BY DEF InPlace
<1>9. Placed(vs, en2, Append(lv, l))
  BY <1>2, <1>4, <1>5, <1>6, <1>7, <1>8, PlacedEntry
<1>10. en \in Seq(Decl)
  BY <1>8 DEF Placed
<1>11. Rising(en2)
  <2>1. \A i \in 1..Len(en) : en[i].id < e.id
    BY <1>3, <1>4, <1>8, EntryIds
  <2> QED
    BY <1>4, <1>10, <2>1, RisingAppend DEF InPlace
<1>12. Seen(vs, en2, c)
  <2>0. Len(en) \in Nat /\ Len(en2) = Len(en) + 1 /\ en2[Len(en) + 1] = e /\ \A i \in 1..Len(en) : en2[i] = en[i]
    BY <1>4, <1>10, AppendProperties, LenProperties
  <2> HIDE DEF en2
  <2>1. \A i \in 1..Len(en) : \E m \in 1..Len(en2) : en2[m] = en[i]
    BY <2>0
  <2>2. Len(en) + 1 \in 1..Len(en2)
    BY <2>0
  <2>3. \A d, j : IsLocal(vs, d, j) =>
           \/ IsLocal(us, d, j) /\ Entry(vs[d].localVars[j]) = Entry(us[d].localVars[j])
              /\ (d >= 2 \/ c = c \/ \A n \in Name : vs[d].localVars[j].name # Cls(c, n))
           \/ \E m \in 1..Len(en2) : en2[m] = Entry(vs[d].localVars[j])
    BY <1>1, <1>4, <2>0, <2>2
  <2>4. Seen(us, en, c)
    BY DEF InPlace
  <2> QED
    BY <2>1, <2>3, <2>4, SeenKept
<1> QED
  BY <1>9, <1>11, <1>12 DEF InPlace, vs, e

\* What is declared in level l goes out of sight.
LEMMA InPlaceCut ==
  ASSUME NEW us, NEW k, NEW marked, Chain(us, k, marked), NEW en, NEW c, InPlace(us, en, c),
         NEW l \in Levels(us), \A m \in Levels(us) : m = l \/ Outer(m, l),
         NEW vs, NEW c2, Levels(vs) = Levels(us) \ {l}, Keeps(us, vs, Levels(vs)),
         \A d, j : IsLocal(vs, d, j) =>
           /\ IsLocal(us, d, j) /\ SameEntry(us, vs, d, j)
           /\ \/ <<d, LevelOf(us[d].localVars[j])>> # l /\ (d >= 2 \/ c2 = c)
              \/ d < 2 /\ \A n \in Name : us[d].localVars[j].name # Cls(c2, n)
  PROVE  InPlace(vs, SubSeq(en, 1, LastOf(us, en, l) - 1), c2)
<1> DEFINE p == LastOf(us, en, l)
           en2 == SubSeq(en, 1, p - 1)
<1>1. PICK lv : Placed(us, en, lv)
  BY DEF InPlace
<1>2. p \in 1..Len(en) /\ \A i \in 1..Len(en) : lv[i] # l => i < p
  BY <1>1, LastMark
<1>3. Placed(vs, en2, SubSeq(lv, 1, p - 1))
  BY <1>1, PlacedCut
<1> HIDE DEF p
<1>4. en \in Seq(Decl) /\ Len(en) \in Nat /\ p - 1 \in 0..Len(en)
  <2>1. en \in Seq(Decl) /\ Len(en) \in Nat
    BY <1>1, PlacedFacts DEF Placed
  <2> QED
    BY <1>2, <2>1
<1>5. Rising(en2)
  BY <1>4, RisingPrefix DEF InPlace
<1>6. Len(en2) = p - 1 /\ \A i \in 1..(p - 1) : en2[i] = en[i]
  BY <1>4, PrefixIs
<1> HIDE DEF en2
<1>7. Seen(vs, en2, c2)
  <2> SUFFICES ASSUME NEW d \in 1..Len(vs), NEW j \in 1..Len(vs[d].localVars),
                      d >= 2 \/ (\E n \in Name : vs[d].localVars[j].name = Cls(c2, n))
               PROVE  \E i \in 1..Len(en2) : en2[i] = Entry(vs[d].localVars[j])
    BY DEF Seen
  <2>1. IsLocal(us, d, j) /\ SameEntry(us, vs, d, j)
    BY DEF IsLocal
  <2>2. us[d].localVars[j].name = vs[d].localVars[j].name
    BY <2>1 DEF SameEntry, Entry
  <2>3. d \in Nat
    BY <2>1, ChainFacts
  <2>4. <<d, LevelOf(us[d].localVars[j])>> # l /\ (d >= 2 \/ c2 = c)
    BY <2>2, <2>3 DEF IsLocal
  <2>5. PICK i \in 1..Len(en) : en[i] = Entry(us[d].localVars[j])
    <3>1. d >= 2 \/ (\E n \in Name : us[d].localVars[j].name = Cls(c, n))
      BY <2>2, <2>4
    <3> QED
      BY <2>1, <3>1 DEF InPlace, Seen, IsLocal
  <2>6. lv[i] = <<d, LevelOf(us[d].localVars[j])>>
    BY <1>1, <2>1, <2>5, ChainFacts, LevelOfEntry DEF IsLocal
  <2>7. i \in 1..(p - 1)
    <3>1. lv[i] # l
      BY <2>4, <2>6
    <3>2. i < p
      BY <1>2, <3>1
    <3> QED
      BY <1>2, <1>4, <3>2
  <2> QED
    BY <1>6, <2>1, <2>5, <2>7 DEF SameEntry
<1> QED
  BY <1>3, <1>5, <1>7 DEF InPlace, p, en2

LeftTop(us, isModule) == [us EXCEPT ![Len(us)] = Left(@, isModule)]

\* The variables that stay are those of the outer scopes of the unit.
LEMMA RemainingIs ==
  ASSUME NEW us, NEW k, NEW marked, Chain(us, k, marked), Len(us) >= 2
  PROVE  LET D == Len(us)
         IN  /\ Remaining(us[D]) \in 0..Len(us[D].localVars)
             /\ \A j \in 1..Len(us[D].localVars) : j <= Remaining(us[D]) <=> us[D].localVars[j].scopeDepth < us[D].scopeDepth
<1> DEFINE D == Len(us)
           N == Len(us[D].localVars)
           s == us[D].scopeDepth
           low == {0} \union {i \in DOMAIN us[D].localVars : us[D].localVars[i].scopeDepth < s}
           R == Remaining(us[D])
<1>1. /\ N \in Nat /\ DOMAIN us[D].localVars = 1..N /\ s \in Int /\ D \in 1..Len(us)
      /\ \A j \in 1..N : us[D].localVars[j].scopeDepth \in Int
  BY ChainFacts, UnitFacts DEF IsLocal
<1>2. \A i, j \in 1..N : i < j => us[D].localVars[i].scopeDepth <= us[D].localVars[j].scopeDepth
  BY <1>1 DEF Chain, ShapeOK, InnerOK
<1>3. low \subseteq 0..N /\ low # {}
  BY <1>1
<1>4. R \in low /\ \A i \in low : i <= R
  BY <1>1, <1>3, MaxIs DEF Remaining
<1> HIDE DEF R
<1>5. R \in 0..N
  BY <1>3, <1>4
<1>6. ASSUME NEW j \in 1..N PROVE j <= R <=> us[D].localVars[j].scopeDepth < s
  <2>1. CASE us[D].localVars[j].scopeDepth < s
    <3>1. j \in low
      BY <1>1, <2>1
    <3> QED
      BY <1>4, <2>1, <3>1
  <2>2. CASE ~(us[D].localVars[j].scopeDepth < s)
    <3> SUFFICES ASSUME j <= R PROVE FALSE
      BY <2>2
    <3>1. R \in 1..N
      BY <1>1, <1>5
    <3>2. us[D].localVars[R].scopeDepth < s
      BY <1>1, <1>4, <3>1
    <3>3. us[D].localVars[j].scopeDepth <= us[D].localVars[R].scopeDepth
      BY <1>1, <1>2, <3>1
    <3> QED
      BY <1>1, <2>2, <3>1, <3>2, <3>3
  <2> QED
    BY <2>1, <2>2
<1> QED
  BY <1>5, <1>6 DEF R

\* leaveScope(): what differs.
LEMMA LeftIs ==
  ASSUME NEW us, NEW k, NEW marked, Chain(us, k, marked), NEW isModule \in BOOLEAN, isModule <=> Len(us) = 1
  PROVE  LET vs == LeftTop(us, isModule)
             D == Len(us)
         IN  /\ vs \in Seq(UnitType) /\ Len(vs) = D
             /\ \A d \in 1..D : vs[d].kind = us[d].kind /\ vs[d].upvalues = us[d].upvalues
             /\ \A d \in 1..D : vs[d].scopeDepth = IF d = D THEN us[d].scopeDepth - 1 ELSE us[d].scopeDepth
             /\ \A d \in 1..(D - 1) : d \in 1..D /\ vs[d] = us[d]
             /\ \A d, j : IsLocal(vs, d, j) =>
                  IsLocal(us, d, j) /\ vs[d].localVars[j] = us[d].localVars[j]
             /\ \A d, j : IsLocal(us, d, j) =>
                  (IsLocal(vs, d, j) <=> isModule \/ d # D \/ us[D].localVars[j].scopeDepth < us[D].scopeDepth)
<1> DEFINE D == Len(us)
           N == Len(us[D].localVars)
           R == IF isModule THEN N ELSE Remaining(us[D])
           locals == SubSeq(us[D].localVars, 1, R)
           unit == [us[D] EXCEPT !.scopeDepth = us[D].scopeDepth - 1, !.localVars = locals]
           vs == LeftTop(us, isModule)
<1>1. /\ us \in Seq(UnitType) /\ D # 0 /\ D \in 1..D /\ us[D] \in UnitType /\ us[D].scopeDepth \in Int /\ D \in Nat
      /\ us[D].localVars \in Seq(LocalVar) /\ N \in Nat
  BY ChainFacts
<1>2. ~isModule => D >= 2
  <2>1. ~isModule => D # 1
    OBVIOUS
  <2> HIDE DEF D
  <2> QED
    BY <1>1, <2>1
<1>3. R \in 0..N /\ \A j \in 1..N : j <= R <=> isModule \/ us[D].localVars[j].scopeDepth < us[D].scopeDepth
  <2>1. CASE isModule
    BY <1>1, <2>1
  <2>2. CASE ~isModule
    BY <1>2, <2>2, RemainingIs
  <2> QED
    BY <2>1, <2>2
<1>4. vs = [us EXCEPT ![D] = unit]
  <2>1. isModule => locals = us[D].localVars
    BY <1>1, SubSeqFull
  <2>2. Left(us[D], isModule) = unit
    BY <2>1 DEF Left
  <2> QED
    BY <1>1, <2>2 DEF LeftTop
<1> HIDE DEF R
<1>5. /\ locals \in Seq(LocalVar) /\ Len(locals) = R
      /\ \A j \in 1..R : j \in 1..N /\ locals[j] = us[D].localVars[j]
  BY <1>1, <1>3, PrefixIs
<1> HIDE DEF locals
<1>6. unit \in UnitType /\ unit.kind = us[D].kind /\ unit.localVars = locals /\ unit.upvalues = us[D].upvalues
      /\ unit.scopeDepth = us[D].scopeDepth - 1
  <2> DEFINE s == us[D].scopeDepth - 1
             u == us[D]
             v == [u EXCEPT !.scopeDepth = s, !.localVars = locals]
  <2>1. s \in Int /\ u \in UnitType
    BY <1>1
  <2>2. unit = v
    OBVIOUS
  <2> HIDE DEF s, u, unit
  <2>3. v \in UnitType /\ v.kind = u.kind /\ v.upvalues = u.upvalues /\ v.scopeDepth = s /\ v.localVars = locals
    BY <1>5, <2>1 DEF UnitType
  <2> QED
    BY <2>2, <2>3 DEF s, u
<1> HIDE DEF unit, vs
<1>7. /\ vs \in Seq(UnitType) /\ Len(vs) = D /\ vs[D] = unit
      /\ \A d \in 1..(D - 1) : d \in 1..D /\ vs[d] = us[d]
      /\ \A d \in 1..D : d # D => d \in 1..(D - 1) /\ vs[d] = us[d]
  BY <1>1, <1>4, <1>6, TopFacts
<1>8. \A d \in 1..D : vs[d].kind = us[d].kind /\ vs[d].upvalues = us[d].upvalues
  BY <1>6, <1>7
<1>9. \A d \in 1..D : vs[d].scopeDepth = IF d = D THEN us[d].scopeDepth - 1 ELSE us[d].scopeDepth
  BY <1>6, <1>7
<1> HIDE DEF D
<1>10. ASSUME NEW d, NEW j, IsLocal(vs, d, j) PROVE IsLocal(us, d, j) /\ vs[d].localVars[j] = us[d].localVars[j]
  <2>1. CASE d = D
    BY <1>1, <1>5, <1>6, <1>7, <1>10, <2>1 DEF IsLocal, D
  <2>2. CASE d # D
    BY <1>7, <1>10, <2>2 DEF IsLocal, D
  <2> QED
    BY <2>1, <2>2
<1>11. ASSUME NEW d, NEW j, IsLocal(us, d, j)
       PROVE  IsLocal(vs, d, j) <=> isModule \/ d # D \/ us[D].localVars[j].scopeDepth < us[D].scopeDepth
  <2>1. CASE d = D
    <3>1. IsLocal(vs, d, j) <=> j \in 1..R
      BY <1>1, <1>5, <1>6, <1>7, <2>1 DEF IsLocal
    <3>2. j \in 1..N
      BY <1>11, <2>1 DEF IsLocal
    <3>3. j \in 1..R <=> j <= R
      BY <1>1, <1>3, <3>2
    <3> QED
      BY <1>3, <2>1, <3>1, <3>2, <3>3
  <2>2. CASE d # D
    BY <1>7, <1>11, <2>2 DEF IsLocal, D
  <2> QED
    BY <2>1, <2>2
<1> QED
  BY <1>7, <1>8, <1>9, <1>10, <1>11 DEF D, vs

LEMMA ChainLeft ==
  ASSUME NEW us, NEW k, NEW marked, Chain(us, k, marked), NEW isModule \in BOOLEAN, isModule <=> Len(us) = 1,
         Len(us) >= 2 => us[Len(us)].scopeDepth > 0
  PROVE  Chain(LeftTop(us, isModule), k, marked)
<1> DEFINE vs == LeftTop(us, isModule)
           D == Len(us)
<1>1. /\ vs \in Seq(UnitType) /\ Len(vs) = D
      /\ \A d \in 1..D : vs[d].kind = us[d].kind /\ vs[d].upvalues = us[d].upvalues
      /\ \A d \in 1..D : vs[d].scopeDepth = IF d = D THEN us[d].scopeDepth - 1 ELSE us[d].scopeDepth
      /\ \A d \in 1..(D - 1) : d \in 1..D /\ vs[d] = us[d]
      /\ \A d, j : IsLocal(vs, d, j) => IsLocal(us, d, j) /\ vs[d].localVars[j] = us[d].localVars[j]
      /\ \A d, j : IsLocal(us, d, j) =>
           (IsLocal(vs, d, j) <=> isModule \/ d # D \/ us[D].localVars[j].scopeDepth < us[D].scopeDepth)
  BY LeftIs
<1> HIDE DEF vs
<1>2. D \in Nat /\ D \in 1..D /\ us[D].scopeDepth \in Int /\ LocalsInOrder(us)
  BY ChainFacts
<1>3. LocalsInOrder(vs)
  BY <1>1, <1>2, OrderOfFewer
<1>4. IdsOK(vs, k, marked)
  BY <1>1 DEF Chain, IdsOK
<1>5. D >= 2 => InnerOK(vs[D])
  <2> SUFFICES ASSUME D >= 2 PROVE InnerOK(vs[D])
    OBVIOUS
  <2>1. InnerOK(us[D]) /\ vs[D].scopeDepth = us[D].scopeDepth - 1 /\ us[D].scopeDepth > 0 /\ ~isModule
    BY <1>1, <1>2 DEF Chain, ShapeOK
  <2>2. ASSUME NEW j \in 1..Len(vs[D].localVars)
        PROVE  /\ j \in 1..Len(us[D].localVars) /\ vs[D].localVars[j] = us[D].localVars[j]
               /\ us[D].localVars[j].scopeDepth < us[D].scopeDepth /\ us[D].localVars[j].scopeDepth \in Int
    <3>1. IsLocal(vs, D, j)
      BY <1>1, <1>2 DEF IsLocal
    <3>2. IsLocal(us, D, j) /\ vs[D].localVars[j] = us[D].localVars[j]
      BY <1>1, <3>1
    <3>3. us[D].localVars[j].scopeDepth < us[D].scopeDepth
      BY <1>1, <2>1, <3>1, <3>2
    <3> QED
      BY <3>2, <3>3, ChainFacts DEF IsLocal
  <2>3. ASSUME NEW j \in 1..Len(vs[D].localVars)
        PROVE  vs[D].localVars[j].scopeDepth <= vs[D].scopeDepth /\ vs[D].localVars[j].name \in Plain
    <3>1. /\ us[D].localVars[j].scopeDepth < us[D].scopeDepth /\ us[D].localVars[j].scopeDepth \in Int
          /\ vs[D].localVars[j] = us[D].localVars[j] /\ us[D].localVars[j].name \in Plain
      BY <2>1, <2>2 DEF InnerOK
    <3>2. \A a, b \in Int : a < b => a <= b - 1
      OBVIOUS
    <3> HIDE DEF D
    <3>3. us[D].localVars[j].scopeDepth <= us[D].scopeDepth - 1
      BY <1>2, <3>1, <3>2
    <3> QED
      BY <2>1, <3>1, <3>3
  <2>4. \A i, j \in 1..Len(vs[D].localVars) : i < j => vs[D].localVars[i].scopeDepth <= vs[D].localVars[j].scopeDepth
    BY <2>1, <2>2 DEF InnerOK
  <2>5. vs[D].scopeDepth >= 0
    BY <1>2, <2>1
  <2> QED
    BY <2>3, <2>4, <2>5 DEF InnerOK
<1>6. Chain(vs, k, marked)
  <2>1. k \in Nat /\ k <= k
    BY DEF Chain
  <2> QED
    BY <1>1, <1>2, <1>3, <1>4, <1>5, <2>1, ChainTop
<1> QED
  BY <1>6 DEF vs

LEMMA InPlaceLeft ==
  ASSUME NEW us, NEW k, NEW marked, Chain(us, k, marked), NEW en, NEW c, InPlace(us, en, c),
         NEW isModule \in BOOLEAN, isModule <=> Len(us) = 1,
         us[Len(us)].scopeDepth >= 0, Len(us) >= 2 => us[Len(us)].scopeDepth > 0,
         NEW c2, IF isModule THEN \A j : IsLocal(us, 1, j) => \A n \in Name : us[1].localVars[j].name # Cls(c2, n)
                 ELSE c2 = c
  PROVE  LET l == <<Len(us), us[Len(us)].scopeDepth>>
         IN  InPlace(LeftTop(us, isModule), SubSeq(en, 1, LastOf(us, en, l) - 1), c2)
<1> DEFINE vs == LeftTop(us, isModule)
           D == Len(us)
           s == us[D].scopeDepth
           l == <<D, s>>
<1>1. /\ vs \in Seq(UnitType) /\ Len(vs) = D
      /\ \A d \in 1..D : vs[d].kind = us[d].kind /\ vs[d].upvalues = us[d].upvalues
      /\ \A d \in 1..D : vs[d].scopeDepth = IF d = D THEN us[d].scopeDepth - 1 ELSE us[d].scopeDepth
      /\ \A d \in 1..(D - 1) : d \in 1..D /\ vs[d] = us[d]
      /\ \A d, j : IsLocal(vs, d, j) => IsLocal(us, d, j) /\ vs[d].localVars[j] = us[d].localVars[j]
      /\ \A d, j : IsLocal(us, d, j) =>
           (IsLocal(vs, d, j) <=> isModule \/ d # D \/ us[D].localVars[j].scopeDepth < us[D].scopeDepth)
  BY LeftIs
<1> HIDE DEF vs
<1>2. D \in Nat /\ D \in 1..D /\ s \in Nat /\ \A d \in 1..D : d \in Nat /\ us[d].scopeDepth \in Int
  BY ChainFacts
<1>3. l \in Levels(us) /\ \A m \in Levels(us) : m = l \/ Outer(m, l)
  BY LastLevel
<1>4. l[1] = D /\ l[2] = s /\ \A a, b : <<a, b>> = l <=> a = D /\ b = s
  OBVIOUS
<1> HIDE DEF l
<1>5. Levels(vs) = Levels(us) \ {l}
  <2>1. ASSUME NEW m \in Nat \X Nat PROVE IsLevel(vs, m) <=> IsLevel(us, m) /\ m # l
    <3>1. m[1] \in Nat /\ m[2] \in Nat /\ (m = l <=> m[1] = D /\ m[2] = s)
      BY DEF l
    <3>2. CASE m[1] = D
      <4>1. IsLevel(vs, m) <=> m[2] \in 0..(s - 1)
        BY <1>1, <1>2, <3>2 DEF IsLevel
      <4>2. IsLevel(us, m) <=> m[2] \in 0..s
        BY <1>2, <3>2 DEF IsLevel
      <4> HIDE DEF s
      <4> QED
        BY <1>2, <3>1, <3>2, <4>1, <4>2
    <3>3. CASE m[1] # D
      BY <1>1, <3>1, <3>3 DEF IsLevel
    <3> QED
      BY <3>2, <3>3
  <2> QED
    BY <2>1 DEF Levels
<1>6. \A m \in Levels(vs) : m[1] \in 1..D /\ (m[1] = D => m[2] < s) /\ m[2] \in Nat
  <2> SUFFICES ASSUME NEW m \in Levels(vs) PROVE m[1] \in 1..D /\ (m[1] = D => m[2] < s) /\ m[2] \in Nat
    OBVIOUS
  <2>1. m[1] \in 1..D /\ m[2] \in 0..vs[m[1]].scopeDepth /\ m[2] \in Nat
    BY <1>1 DEF Levels, IsLevel
  <2>2. m[1] = D => m[2] < s
    BY <1>1, <1>2, <2>1
  <2> QED
    BY <2>1, <2>2
<1>7. Keeps(us, vs, Levels(vs))
  <2>1. ASSUME NEW m \in Levels(vs), NEW j \in 1..Len(us[m[1]].localVars), LevelOf(us[m[1]].localVars[j]) = m[2]
        PROVE  j \in 1..Len(vs[m[1]].localVars) /\ SameEntry(us, vs, m[1], j)
    <3> DEFINE d == m[1]
    <3>1. IsLocal(us, d, j)
      BY <1>6 DEF IsLocal
    <3>2. us[d].localVars[j].scopeDepth \in Int
      BY <3>1, ChainFacts
    <3>3. d = D => us[D].localVars[j].scopeDepth < us[D].scopeDepth
      BY <1>2, <1>6, <2>1, <3>2 DEF LevelOf
    <3>4. IsLocal(vs, d, j)
      BY <1>1, <3>1, <3>3
    <3> QED
      BY ZenonT(40), <1>1, <3>4 DEF IsLocal, SameEntry
  <2>2. \A m \in Levels(vs) : m[1] \in 1..Len(vs) /\ vs[m[1]].kind = us[m[1]].kind
    BY <1>1, <1>6
  <2> QED
    BY <2>1, <2>2 DEF Keeps
<1>8. ASSUME NEW d, NEW j, IsLocal(vs, d, j)
      PROVE  /\ IsLocal(us, d, j) /\ SameEntry(us, vs, d, j)
             /\ \/ <<d, LevelOf(us[d].localVars[j])>> # l /\ (d >= 2 \/ c2 = c)
                \/ d < 2 /\ \A n \in Name : us[d].localVars[j].name # Cls(c2, n)
  <2>1. IsLocal(us, d, j) /\ vs[d].localVars[j] = us[d].localVars[j]
    BY <1>1, <1>8
  <2>2. d \in 1..D /\ us[d].localVars[j].scopeDepth \in Int
    BY <2>1, ChainFacts DEF IsLocal
  <2>3. CASE isModule
    <3>0. D = 1
      BY <2>3
    <3>1. d = 1
      <4> HIDE DEF D
      <4> QED
        BY <2>2, <3>0
    <3> QED
      BY <2>1, <2>3, <3>1 DEF SameEntry
  <2>4. CASE ~isModule
    <3>0. D # 1
      BY <2>4
    <3>1. s > 0
      <4>1. D >= 2
        <5> HIDE DEF D
        <5> QED
          BY <1>2, <3>0
      <4> QED
        BY <4>1
    <3>2. <<d, LevelOf(us[d].localVars[j])>> # l
      <4> SUFFICES ASSUME d = D, LevelOf(us[d].localVars[j]) = s PROVE FALSE
        BY <1>4
      <4>1. us[D].localVars[j].scopeDepth < us[D].scopeDepth
        BY <1>1, <1>8, <2>1, <2>4
      <4> QED
        BY <1>2, <2>2, <3>1, <4>1 DEF LevelOf
    <3> QED
      BY <2>1, <2>4, <3>2 DEF SameEntry
  <2> QED
    BY <2>3, <2>4
<1>9. InPlace(vs, SubSeq(en, 1, LastOf(us, en, l) - 1), c2)
  BY <1>3, <1>5, <1>7, <1>8, InPlaceCut
<1> QED
  BY <1>9 DEF vs, l

Opened(us, kind, own, id) == Append(us, Unit(kind, <<Local(own, -1, id)>>))

\* initCompileUnit(): what differs.
LEMMA OpenedIs ==
  ASSUME NEW us, NEW k, NEW marked, Chain(us, k, marked), NEW kind \in Kind, kind # "module", NEW own \in Plain
  PROVE  LET vs == Opened(us, kind, own, k + 1)
             D == Len(us)
             v == Local(own, -1, k + 1)
         IN  /\ vs \in Seq(UnitType) /\ Len(vs) = D + 1 /\ v \in LocalVar
             /\ \A d \in 1..D : d \in 1..Len(vs) /\ vs[d] = us[d]
             /\ vs[D + 1].kind = kind /\ vs[D + 1].scopeDepth = 0 /\ vs[D + 1].upvalues = <<>>
             /\ Len(vs[D + 1].localVars) = 1 /\ vs[D + 1].localVars[1] = v
             /\ \A d, j : IsLocal(us, d, j) => IsLocal(vs, d, j) /\ vs[d].localVars[j] = us[d].localVars[j]
             /\ \A d, j : IsLocal(vs, d, j) <=> IsLocal(us, d, j) \/ (d = D + 1 /\ j = 1)
<1> DEFINE D == Len(us)
           v == Local(own, -1, k + 1)
           unit == Unit(kind, <<v>>)
           vs == Opened(us, kind, own, k + 1)
<1>1. us \in Seq(UnitType) /\ D \in Nat /\ k + 1 \in Nat
  <2>1. k \in Nat
    BY DEF Chain
  <2> QED
    BY <2>1, ChainFacts
<1>2. v \in LocalVar
  BY <1>1 DEF Local, LocalVar
<1> HIDE DEF v
<1>3. <<v>> \in Seq(LocalVar) /\ Len(<<v>>) = 1 /\ <<v>>[1] = v /\ <<>> \in Seq(Upvalue)
  BY <1>2
<1>4. /\ unit.kind = kind /\ unit.scopeDepth = 0 /\ unit.upvalues = <<>> /\ unit.localVars = <<v>>
      /\ unit \in UnitType
  BY <1>3 DEF Unit, UnitType
<1>5. vs = Append(us, unit)
  BY DEF Opened, v
<1> HIDE DEF unit, vs
<1>6. vs \in Seq(UnitType) /\ Len(vs) = D + 1 /\ vs[D + 1] = unit /\ \A d \in 1..D : vs[d] = us[d]
  BY <1>1, <1>4, <1>5, AppendProperties
<1>7. \A d \in 1..D : d \in 1..Len(vs)
  <2> HIDE DEF D
  <2> QED
    BY <1>1, <1>6
<1>8. Len(vs[D + 1].localVars) = 1 /\ vs[D + 1].localVars[1] = v
  BY <1>3, <1>4, <1>6
<1>9. \A d : d \in 1..Len(vs) <=> d \in 1..D \/ d = D + 1
  <2> HIDE DEF D
  <2> QED
    BY <1>1, <1>6
<1>10. D + 1 \notin 1..D
  <2> HIDE DEF D
  <2> QED
    BY <1>1
<1>11. \A d, j : IsLocal(us, d, j) => IsLocal(vs, d, j) /\ vs[d].localVars[j] = us[d].localVars[j]
  BY <1>6, <1>7 DEF IsLocal
<1>12. ASSUME NEW d, NEW j PROVE IsLocal(vs, d, j) <=> IsLocal(us, d, j) \/ (d = D + 1 /\ j = 1)
  <2>1. CASE d \in 1..D
    BY <1>6, <1>9, <1>10, <2>1 DEF IsLocal
  <2>2. CASE d = D + 1
    <3>1. j \in 1..1 <=> j = 1
      OBVIOUS
    <3>2. ~IsLocal(us, d, j)
      BY <1>10, <2>2 DEF IsLocal
    <3>3. IsLocal(vs, d, j) <=> j \in 1..1
      BY <1>8, <1>9, <2>2 DEF IsLocal
    <3> QED
      BY <2>2, <3>1, <3>2, <3>3
  <2>3. CASE d \notin 1..D /\ d # D + 1
    BY <1>9, <2>3 DEF IsLocal
  <2> QED
    BY <2>1, <2>2, <2>3
<1> QED
  BY <1>2, <1>4, <1>6, <1>7, <1>8, <1>11, <1>12 DEF v, vs

LEMMA ChainOpened ==
  ASSUME NEW us, NEW k, NEW marked, Chain(us, k, marked), NEW kind \in Kind, kind # "module", NEW own \in Plain,
         kind = "method" => Len(us) = 1
  PROVE  Chain(Opened(us, kind, own, k + 1), k + 1, marked)
<1> DEFINE D == Len(us)
           v == Local(own, -1, k + 1)
           vs == Opened(us, kind, own, k + 1)
<1>1. /\ vs \in Seq(UnitType) /\ Len(vs) = D + 1 /\ v \in LocalVar
      /\ \A d \in 1..D : d \in 1..Len(vs) /\ vs[d] = us[d]
      /\ vs[D + 1].kind = kind /\ vs[D + 1].scopeDepth = 0 /\ vs[D + 1].upvalues = <<>>
      /\ Len(vs[D + 1].localVars) = 1 /\ vs[D + 1].localVars[1] = v
      /\ \A d, j : IsLocal(us, d, j) => IsLocal(vs, d, j) /\ vs[d].localVars[j] = us[d].localVars[j]
      /\ \A d, j : IsLocal(vs, d, j) <=> IsLocal(us, d, j) \/ (d = D + 1 /\ j = 1)
  BY OpenedIs
<1>2. v.name = own /\ v.scopeDepth = -1 /\ v.isUpvalue = FALSE /\ v.id = k + 1
  BY DEF Local
<1> HIDE DEF v, vs
<1>3. k \in Nat /\ k + 1 \in Nat /\ us \in Seq(UnitType) /\ LocalsInOrder(us) /\ D \in Nat /\ D + 1 \in Nat /\ D # 0
  BY ChainFacts DEF Chain
<1>4. marked \subseteq 1..k /\ k + 1 \notin marked
  <2>1. marked \subseteq 1..k
    BY DEF Chain
  <2> QED
    BY <1>3, <2>1
<1>5. LocalsInOrder(vs)
  <2>1. ASSUME NEW d, NEW j, IsLocal(us, d, j) PROVE us[d].localVars[j].id < k + 1 /\ Below(d, j, D + 1, 1)
    <3>1. us[d].localVars[j].id \in 1..k /\ d \in 1..D
      BY <2>1 DEF Chain, IdsOK, IsLocal
    <3>2. us[d].localVars[j].id < k + 1
      BY <1>3, <3>1
    <3>3. d < D + 1
      <4> HIDE DEF D
      <4> QED
        BY <1>3, <3>1
    <3> QED
      BY <3>2, <3>3 DEF Below
  <2>2. \A d, j : IsLocal(vs, d, j) =>
           \/ IsLocal(us, d, j) /\ vs[d].localVars[j].id = us[d].localVars[j].id
           \/ d = D + 1 /\ j = 1 /\ vs[d].localVars[j].id = k + 1
    BY <1>1, <1>2
  <2> HIDE DEF D
  <2> QED
    BY <1>3, <2>1, <2>2, OrderOfOneMore
<1>6. \E T : Sound(vs, T)
  BY <1>1, <1>5, SoundOpened DEF Chain
<1>7. ShapeOK(vs)
  <2> SUFFICES ASSUME NEW d \in 1..Len(vs)
               PROVE  /\ vs[d].kind = "module" <=> d = 1
                      /\ vs[d].kind = "method" => d = 2
                      /\ d >= 2 => InnerOK(vs[d])
    BY DEF ShapeOK
  <2>1. CASE d \in 1..D
    BY <1>1, <2>1 DEF Chain, ShapeOK
  <2>2. CASE d = D + 1
    <3>1. D + 1 # 1 /\ (D = 1 => D + 1 = 2)
      <4> HIDE DEF D
      <4> QED
        BY <1>3
    <3>2. \A j \in 1..Len(vs[D + 1].localVars) : j = 1 /\ vs[D + 1].localVars[j] = v
      BY <1>1
    <3>3. InnerOK(vs[D + 1])
      BY <1>1, <1>2, <3>2 DEF InnerOK
    <3> QED
      BY <1>1, <2>2, <3>1, <3>3
  <2>3. d \in 1..D \/ d = D + 1
    <3> HIDE DEF D
    <3> QED
      BY <1>1, <1>3
  <2> QED
    BY <2>1, <2>2, <2>3
<1>8. IdsOK(vs, k + 1, marked)
  <2> SUFFICES ASSUME NEW d, NEW j, IsLocal(vs, d, j)
               PROVE  vs[d].localVars[j].id \in 1..(k + 1) /\ (vs[d].localVars[j].isUpvalue <=> vs[d].localVars[j].id \in marked)
    BY DEF IdsOK
  <2>1. CASE IsLocal(us, d, j)
    BY SMTT(30), <1>1, <1>3, <2>1 DEF Chain, IdsOK
  <2>2. CASE d = D + 1 /\ j = 1
    BY <1>1, <1>2, <1>3, <1>4, <2>2
  <2> QED
    BY <1>1, <2>1, <2>2
<1>9. marked \subseteq 1..(k + 1)
  BY <1>3, <1>4
<1>10. Chain(vs, k + 1, marked)
  BY <1>3, <1>6, <1>7, <1>8, <1>9 DEF Chain
<1> QED
  BY <1>10 DEF vs

LEMMA TwoMore ==
  ASSUME NEW S, NEW s \in Seq(S), NEW a \in S, NEW b \in S
  PROVE  s \o <<a, b>> = Append(Append(s, a), b)
<1>1. Len(s) \in Nat /\ <<a, b>> \in Seq(S) /\ Len(<<a, b>>) = 2 /\ <<a, b>>[1] = a /\ <<a, b>>[2] = b
  BY LenProperties
<1> DEFINE n == Len(s)
           c == <<a, b>>
           t == s \o c
           p == Append(s, a)
           q == Append(p, b)
<1>2. t \in Seq(S) /\ Len(t) = n + 2 /\ \A i \in 1..(n + 2) : t[i] = IF i <= n THEN s[i] ELSE c[i - n]
  BY <1>1, ConcatProperties
<1>3. p \in Seq(S) /\ Len(p) = n + 1 /\ (\A i \in 1..n : p[i] = s[i]) /\ p[n + 1] = a
  BY AppendProperties
<1> HIDE DEF t, c, p, n
<1>4. q \in Seq(S) /\ Len(q) = n + 2 /\ (\A i \in 1..(n + 1) : q[i] = p[i]) /\ q[n + 2] = b
  <2>1. q \in Seq(S) /\ Len(q) = Len(p) + 1 /\ (\A i \in 1..Len(p) : q[i] = p[i]) /\ q[Len(p) + 1] = b
    BY <1>3, AppendProperties
  <2> HIDE DEF q
  <2>2. (n + 1) + 1 = n + 2
    BY <1>1 DEF n
  <2> QED
    BY <1>3, <2>1, <2>2
<1> HIDE DEF q
<1>5. ASSUME NEW i \in 1..(n + 2) PROVE t[i] = q[i]
  <2>0. n \in Nat /\ c[1] = a /\ c[2] = b
    BY <1>1 DEF n, c
  <2>1. CASE i \in 1..n
    <3>1. i <= n /\ i \in 1..(n + 1)
      BY <2>0, <2>1
    <3> QED
      BY <1>2, <1>3, <1>4, <2>1, <3>1
  <2>2. CASE i = n + 1
    <3>1. ~(i <= n) /\ i - n = 1 /\ i \in 1..(n + 1)
      BY <2>0, <2>2
    <3> QED
      BY <1>2, <1>3, <1>4, <2>0, <2>2, <3>1
  <2>3. CASE i = n + 2
    <3>1. ~(i <= n) /\ i - n = 2
      BY <2>0, <2>3
    <3> QED
      BY <1>2, <1>4, <2>0, <2>3, <3>1
  <2>4. i \in 1..n \/ i = n + 1 \/ i = n + 2
    BY <2>0
  <2> QED
    BY <2>1, <2>2, <2>3, <2>4
<1>6. t = q
  BY <1>2, <1>4, <1>5, SeqEqual
<1> QED
  BY <1>6 DEF t, q, p, c

LEMMA InPlaceOpened ==
  ASSUME NEW us, NEW k, NEW marked, Chain(us, k, marked), NEW en, NEW c, InPlace(us, en, c),
         NEW kind \in Kind, kind # "module", NEW own \in Plain
  PROVE  InPlace(Opened(us, kind, own, k + 1), en \o <<Mark(kind), [name |-> own, id |-> k + 1]>>, c)
<1> DEFINE D == Len(us)
           v == Local(own, -1, k + 1)
           vs == Opened(us, kind, own, k + 1)
           e == [name |-> own, id |-> k + 1]
           l == <<D + 1, 0>>
           en1 == Append(en, Mark(kind))
           en2 == Append(en1, e)
<1>1. /\ vs \in Seq(UnitType) /\ Len(vs) = D + 1 /\ v \in LocalVar
      /\ \A d \in 1..D : d \in 1..Len(vs) /\ vs[d] = us[d]
      /\ vs[D + 1].kind = kind /\ vs[D + 1].scopeDepth = 0 /\ vs[D + 1].upvalues = <<>>
      /\ Len(vs[D + 1].localVars) = 1 /\ vs[D + 1].localVars[1] = v
      /\ \A d, j : IsLocal(us, d, j) => IsLocal(vs, d, j) /\ vs[d].localVars[j] = us[d].localVars[j]
      /\ \A d, j : IsLocal(vs, d, j) <=> IsLocal(us, d, j) \/ (d = D + 1 /\ j = 1)
  BY OpenedIs
<1>2. v.name = own /\ v.scopeDepth = -1 /\ v.id = k + 1 /\ e.name = own /\ e.id = k + 1
  BY DEF Local
<1>3. Entry(v) = e /\ LevelOf(v) = 0
  BY <1>2 DEF Entry, LevelOf
<1> HIDE DEF vs, v
<1>4. k \in Nat /\ D \in Nat /\ D # 0 /\ \A d \in 1..D : d \in Nat
  BY ChainFacts DEF Chain
<1>5. l \in Nat \X Nat /\ l[1] = D + 1 /\ l[2] = 0 /\ D + 1 # 1 /\ D + 1 \notin 1..D
  <2> HIDE DEF D
  <2> QED
    BY <1>4
<1>6. e \in Decl /\ e.id # 0
  <2>1. own \in Plain \union Static /\ k + 1 \in Nat /\ k + 1 # 0
    BY <1>4
  <2> QED
    BY <1>2, <2>1 DEF Decl
<1> HIDE DEF e
<1>7. KindAt(vs, l) = kind
  <2> HIDE DEF l
  <2> QED
    BY <1>1, <1>5 DEF KindAt
<1>8. Levels(vs) = Levels(us) \union {l}
  <2>1. ASSUME NEW m \in Nat \X Nat PROVE IsLevel(vs, m) <=> IsLevel(us, m) \/ m = l
    <3>1. m[1] \in Nat /\ m[2] \in Nat /\ (m = l <=> m[1] = D + 1 /\ m[2] = 0)
      OBVIOUS
    <3>2. m[1] \in 1..Len(vs) <=> m[1] \in 1..D \/ m[1] = D + 1
      <4> HIDE DEF D
      <4> QED
        BY <1>1, <1>4, <3>1
    <3>3. CASE m[1] = D + 1
      <4>1. m[2] \in 0..0 <=> m[2] = 0
        BY <3>1
      <4> HIDE DEF l
      <4> QED
        BY <1>1, <1>5, <3>1, <3>2, <3>3, <4>1 DEF IsLevel
    <3>4. CASE m[1] # D + 1
      <4> HIDE DEF l
      <4> QED
        BY <1>1, <3>1, <3>2, <3>4 DEF IsLevel
    <3> QED
      BY <3>3, <3>4
  <2> QED
    BY <1>5, <2>1 DEF Levels
<1>9. \A m \in Levels(us) : Outer(m, l)
  <2> SUFFICES ASSUME NEW m \in Levels(us) PROVE Outer(m, l)
    OBVIOUS
  <2>1. m[1] \in 1..D
    BY DEF Levels, IsLevel
  <2>2. m[1] < D + 1
    <3> HIDE DEF D
    <3> QED
      BY <1>4, <2>1
  <2> HIDE DEF l
  <2> QED
    BY <1>5, <2>2 DEF Outer, Below
<1>10. Keeps(us, vs, Levels(us))
  <2>1. \A m \in Levels(us) : m[1] \in 1..D
    BY DEF Levels, IsLevel
  <2> QED
    BY <1>1, <2>1 DEF Keeps, SameEntry
<1>11. PICK lv : Placed(us, en, lv)
  BY DEF InPlace
<1>12. Placed(vs, en1, Append(lv, l))
  BY <1>5, <1>7, <1>8, <1>9, <1>10, <1>11, PlacedMark
<1>13. Placed(vs, en2, Append(Append(lv, l), l))
  <2>1. l \in Levels(vs)
    BY <1>8
  <2>2. Keeps(vs, vs, Levels(vs))
    <3>1. \A m \in Levels(vs) : m[1] \in 1..Len(vs)
      BY DEF Levels, IsLevel
    <3> QED
      BY <3>1 DEF Keeps, SameEntry
  <2>3. Holds(vs, l, e)
    <3>1. 1 \in 1..Len(vs[D + 1].localVars)
      BY <1>1
    <3> HIDE DEF l
    <3> QED
      BY <1>1, <1>3, <1>5, <3>1 DEF Holds
  <2>4. \A m \in Levels(vs) : ~Outer(l, m)
    <3> SUFFICES ASSUME NEW m \in Levels(vs) PROVE ~Outer(l, m)
      OBVIOUS
    <3>1. CASE m = l
      <4>1. ~(D + 1 < D + 1) /\ ~(0 < 0)
        BY <1>4
      <4> HIDE DEF l
      <4> QED
        BY <1>5, <3>1, <4>1 DEF Outer, Below
    <3>2. CASE m \in Levels(us)
      <4>1. m[1] \in 1..D
        BY <3>2 DEF Levels, IsLevel
      <4>2. ~(D + 1 < m[1]) /\ D + 1 # m[1]
        <5> HIDE DEF D
        <5> QED
          BY <1>4, <4>1
      <4> HIDE DEF l
      <4> QED
        BY <1>5, <4>2 DEF Outer, Below
    <3> QED
      BY <1>8, <3>1, <3>2
  <2> HIDE DEF l, en1
  <2> QED
    BY <1>6, <1>12, <2>1, <2>2, <2>3, <2>4, PlacedEntry
<1>14. en \in Seq(Decl) /\ Mark(kind) \in Decl /\ Mark(kind).id = 0
  BY <1>11, MarkIs DEF Placed
<1>15. Rising(en2)
  <2>1. en1 \in Seq(Decl) /\ Rising(en1)
    BY <1>14, AppendProperties, RisingAppend DEF InPlace
  <2>2. /\ Len(en) \in Nat /\ Len(en1) = Len(en) + 1 /\ en1[Len(en) + 1] = Mark(kind)
        /\ \A i \in 1..Len(en) : en1[i] = en[i]
    BY <1>14, AppendProperties, LenProperties
  <2>3. \A i \in 1..Len(en) : en[i].id \in Nat /\ en[i].id <= k
    BY <1>11, EntryIds
  <2>4. \A i \in 1..Len(en1) : en1[i].id < k + 1
    <3> HIDE DEF en1
    <3> SUFFICES ASSUME NEW i \in 1..Len(en1) PROVE en1[i].id < k + 1
      OBVIOUS
    <3>1. CASE i \in 1..Len(en)
      BY <1>4, <2>2, <2>3, <3>1
    <3>2. CASE i = Len(en) + 1
      BY <1>4, <1>14, <2>2, <3>2
    <3> QED
      BY <2>2, <3>1, <3>2
  <2>5. e.id = k + 1
    BY <1>2 DEF e
  <2> HIDE DEF en1
  <2> QED
    BY <1>6, <2>1, <2>4, <2>5, RisingAppend
<1>16. Seen(vs, en2, c)
  <2>1. en1 \in Seq(Decl)
    BY <1>14, AppendProperties
  <2>2. /\ Len(en) \in Nat /\ Len(en1) = Len(en) + 1
        /\ \A i \in 1..Len(en) : en1[i] = en[i]
    BY <1>14, AppendProperties, LenProperties
  <2> HIDE DEF en1
  <2>3. /\ Len(en2) = Len(en1) + 1 /\ en2[Len(en1) + 1] = e
        /\ \A i \in 1..Len(en1) : en2[i] = en1[i]
    BY <1>6, <2>1, AppendProperties
  <2> HIDE DEF en2
  <2>4. \A i \in 1..Len(en) : i \in 1..Len(en2) /\ en2[i] = en[i]
    BY <2>2, <2>3
  <2>5. Len(en1) + 1 \in 1..Len(en2)
    BY <2>2, <2>3
  <2>6. \A d, j : IsLocal(vs, d, j) =>
           \/ IsLocal(us, d, j) /\ Entry(vs[d].localVars[j]) = Entry(us[d].localVars[j])
              /\ (d >= 2 \/ c = c \/ \A n \in Name : vs[d].localVars[j].name # Cls(c, n))
           \/ \E m \in 1..Len(en2) : en2[m] = Entry(vs[d].localVars[j])
    BY <1>1, <1>3, <2>3, <2>5
  <2>7. Seen(us, en, c)
    BY DEF InPlace
  <2>8. \A i \in 1..Len(en) : \E m \in 1..Len(en2) : en2[m] = en[i]
    BY <2>4
  <2> QED
    BY <2>6, <2>7, <2>8, SeenKept
<1>17. en \o <<Mark(kind), e>> = en2
  BY <1>6, <1>14, TwoMore
<1> HIDE DEF en2
<1>18. InPlace(vs, en2, c)
  BY <1>13, <1>15, <1>16 DEF InPlace
<1>19. InPlace(vs, en \o <<Mark(kind), e>>, c)
  BY <1>17, <1>18
<1> QED
  BY <1>19 DEF vs, e

LEMMA ChainClosed ==
  ASSUME NEW us, NEW k, NEW marked, Chain(us, k, marked), Len(us) > 1
  PROVE  LET vs == Front(us)
         IN  /\ Chain(vs, k, marked) /\ Len(vs) = Len(us) - 1
             /\ \A d \in 1..Len(vs) : d \in 1..Len(us) /\ vs[d] = us[d]
<1> DEFINE D == Len(us)
           vs == Front(us)
<1>1. us \in Seq(UnitType) /\ D \in Nat /\ D - 1 \in 0..D /\ D # 0 /\ Len(us) \in Nat
  <2>1. us \in Seq(UnitType) /\ D \in Nat /\ D # 0 /\ Len(us) \in Nat
    BY ChainFacts
  <2> HIDE DEF D
  <2>2. D - 1 \in 0..D
    BY <2>1
  <2> QED
    BY <2>1, <2>2
<1>2. vs = SubSeq(us, 1, D - 1)
  BY DEF Front
<1> HIDE DEF vs
<1>3. /\ vs \in Seq(UnitType) /\ Len(vs) = D - 1
      /\ \A d \in 1..Len(vs) : d \in 1..D /\ vs[d] = us[d]
  BY <1>1, <1>2, PrefixIs
<1>4. \A d, j : IsLocal(vs, d, j) => IsLocal(us, d, j) /\ vs[d].localVars[j] = us[d].localVars[j]
  BY <1>3 DEF IsLocal
<1>5. \E T : Sound(vs, T)
  BY <1>3, SoundClosed DEF Chain
<1>6. ShapeOK(vs)
  BY <1>3 DEF Chain, ShapeOK
<1>7. IdsOK(vs, k, marked)
  BY <1>4 DEF Chain, IdsOK
<1>8. Chain(vs, k, marked)
  BY <1>5, <1>6, <1>7 DEF Chain
<1> QED
  BY <1>3, <1>8 DEF vs

LEMMA InPlaceClosed ==
  ASSUME NEW us, NEW k, NEW marked, Chain(us, k, marked), Len(us) > 1, us[Len(us)].scopeDepth = 0,
         NEW en, NEW c, InPlace(us, en, c)
  PROVE  LET m == Max({i \in DOMAIN en : en[i] = Mark(us[Len(us)].kind)})
         IN  InPlace(Front(us), SubSeq(en, 1, m - 1), c)
<1> DEFINE D == Len(us)
           vs == Front(us)
           l == <<D, 0>>
<1>1. /\ Chain(vs, k, marked) /\ Len(vs) = D - 1
      /\ \A d \in 1..Len(vs) : d \in 1..D /\ vs[d] = us[d]
  BY ChainClosed
<1> HIDE DEF vs
<1>2. D \in Nat /\ D > 1 /\ D # 1 /\ D >= 2 /\ \A d \in 1..D : d \in Nat
  <2>1. D \in Nat /\ D > 1 /\ \A d \in 1..D : d \in Nat
    BY ChainFacts
  <2> HIDE DEF D
  <2> QED
    BY <2>1
<1>3. l[1] = D /\ l[2] = 0 /\ l = <<Len(us), us[Len(us)].scopeDepth>>
  OBVIOUS
<1>4. l \in Levels(us) /\ \A m \in Levels(us) : m = l \/ Outer(m, l)
  <2>1. us[Len(us)].scopeDepth >= 0
    OBVIOUS
  <2> HIDE DEF l
  <2> QED
    BY <1>3, <2>1, LastLevel
<1>5. \A a \in 1..D : a \in 1..Len(vs) <=> a # D
  <2> HIDE DEF D
  <2> QED
    BY <1>1, <1>2
<1>6. Levels(vs) = Levels(us) \ {l}
  <2>1. ASSUME NEW m \in Nat \X Nat PROVE IsLevel(vs, m) <=> IsLevel(us, m) /\ m # l
    <3>1. m = l <=> m[1] = D /\ m[2] = 0
      OBVIOUS
    <3> HIDE DEF l
    <3>2. CASE m[1] \notin 1..D
      BY <1>1, <3>2 DEF IsLevel
    <3>3. CASE m[1] = D
      <4>1. ~IsLevel(vs, m)
        BY <1>1, <1>5, <3>3 DEF IsLevel
      <4>2. IsLevel(us, m) => m[2] \in 0..0
        BY <3>3 DEF IsLevel
      <4>3. m[2] \in 0..0 => m[2] = 0
        OBVIOUS
      <4> QED
        BY <3>1, <3>3, <4>1, <4>2, <4>3
    <3>4. CASE m[1] \in 1..D /\ m[1] # D
      <4>1. m[1] \in 1..Len(vs) /\ vs[m[1]] = us[m[1]]
        BY <1>1, <1>5, <3>4
      <4> QED
        BY <3>1, <3>4, <4>1 DEF IsLevel
    <3> QED
      BY <3>2, <3>3, <3>4
  <2> HIDE DEF l
  <2> QED
    BY <2>1 DEF Levels
<1>7. Keeps(us, vs, Levels(vs))
  <2>1. \A m \in Levels(vs) : m[1] \in 1..Len(vs)
    BY DEF Levels, IsLevel
  <2> QED
    BY <1>1, <2>1 DEF Keeps, SameEntry
<1>8. ASSUME NEW d, NEW j, IsLocal(vs, d, j)
      PROVE  /\ IsLocal(us, d, j) /\ SameEntry(us, vs, d, j)
             /\ \/ <<d, LevelOf(us[d].localVars[j])>> # l /\ (d >= 2 \/ c = c)
                \/ d < 2 /\ \A n \in Name : us[d].localVars[j].name # Cls(c, n)
  <2>1. d \in 1..Len(vs) /\ d \in 1..D /\ vs[d] = us[d] /\ d # D
    BY <1>1, <1>5, <1>8 DEF IsLocal
  <2>2. <<d, LevelOf(us[d].localVars[j])>> # l
    BY <2>1
  <2> QED
    BY <1>8, <2>1, <2>2 DEF IsLocal, SameEntry
<1>9. InPlace(vs, SubSeq(en, 1, LastOf(us, en, l) - 1), c)
  <2> HIDE DEF l
  <2> QED
    BY <1>4, <1>6, <1>7, <1>8, InPlaceCut
<1>10. KindAt(us, l) = us[Len(us)].kind
  <2>1. KindAt(us, l) = us[D].kind
    <3> HIDE DEF l, D
    <3> QED
      BY <1>2, <1>3 DEF KindAt
  <2> QED
    BY <2>1
<1>11. LastOf(us, en, l) = Max({i \in DOMAIN en : en[i] = Mark(us[Len(us)].kind)})
  BY <1>10 DEF LastOf
<1> QED
  BY <1>9, <1>11 DEF vs

-----------------------------------------------------------------------------
(***************************************************************************)
(* A reference changes upvalues and marks, and nothing a name depends on.  *)
(***************************************************************************)
LEMMA ReferenceKeeps ==
  ASSUME NEW us, NEW k, NEW marked, Chain(us, k, marked), NEW vs, NEW T, Sound(vs, T), SameLocals(us, vs),
         NEW marked2, marked2 \subseteq 1..k,
         \A d, j : IsLocal(us, d, j) => (vs[d].localVars[j].isUpvalue <=> us[d].localVars[j].id \in marked2)
  PROVE  /\ Chain(vs, k, marked2)
         /\ vs[1].scopeDepth = us[1].scopeDepth
         /\ \A C : StaticsOf(us, C) => StaticsOf(vs, C)
         /\ \A en, c : InPlace(us, en, c) => InPlace(vs, en, c)
<1> DEFINE D == Len(us)
<1>1. /\ Len(vs) = D
      /\ \A d \in 1..D :
           /\ vs[d].kind = us[d].kind /\ vs[d].scopeDepth = us[d].scopeDepth
           /\ Len(vs[d].localVars) = Len(us[d].localVars)
           /\ \A j \in 1..Len(us[d].localVars) :
                /\ vs[d].localVars[j].name = us[d].localVars[j].name
                /\ vs[d].localVars[j].scopeDepth = us[d].localVars[j].scopeDepth
                /\ vs[d].localVars[j].id = us[d].localVars[j].id
  BY DEF SameLocals
<1>2. D \in 1..D /\ 1 \in 1..D /\ k \in Nat
  BY ChainFacts DEF Chain
<1>3. \A d, j : IsLocal(vs, d, j) <=> IsLocal(us, d, j)
  BY <1>1 DEF IsLocal
<1>4. \A d, j : IsLocal(us, d, j) =>
         /\ vs[d].localVars[j].name = us[d].localVars[j].name
         /\ vs[d].localVars[j].scopeDepth = us[d].localVars[j].scopeDepth
         /\ vs[d].localVars[j].id = us[d].localVars[j].id
         /\ SameEntry(us, vs, d, j) /\ Entry(vs[d].localVars[j]) = Entry(us[d].localVars[j])
  BY <1>1 DEF IsLocal, SameEntry, Entry, LevelOf
<1>5. ShapeOK(vs)
  <2> SUFFICES ASSUME NEW d \in 1..D
               PROVE  /\ vs[d].kind = "module" <=> d = 1
                      /\ vs[d].kind = "method" => d = 2
                      /\ d >= 2 => InnerOK(vs[d])
    BY <1>1 DEF ShapeOK
  <2>1. d >= 2 => InnerOK(vs[d])
    BY SMTT(30), <1>1 DEF Chain, ShapeOK, InnerOK
  <2> QED
    BY <1>1, <2>1 DEF Chain, ShapeOK
<1>6. IdsOK(vs, k, marked2)
  BY <1>3, <1>4 DEF Chain, IdsOK
<1>7. Chain(vs, k, marked2)
  BY <1>2, <1>5, <1>6 DEF Chain
<1>8. \A C : StaticsOf(us, C) => StaticsOf(vs, C)
  BY <1>3, <1>4 DEF StaticsOf
<1>9. ASSUME NEW en, NEW c, InPlace(us, en, c) PROVE InPlace(vs, en, c)
  <2>1. Levels(vs) = Levels(us)
    BY <1>1 DEF Levels, IsLevel
  <2>2. Keeps(us, vs, Levels(us))
    <3>1. \A m \in Levels(us) : m[1] \in 1..D
      BY DEF Levels, IsLevel
    <3>2. \A d \in 1..D : \A j \in 1..Len(us[d].localVars) : SameEntry(us, vs, d, j)
      BY <1>4 DEF IsLocal
    <3> QED
      BY <1>1, <3>1, <3>2 DEF Keeps
  <2>3. PICK lv : Placed(us, en, lv)
    BY <1>9 DEF InPlace
  <2>4. Placed(vs, en, lv)
    BY <2>1, <2>2, <2>3, PlacedKept
  <2>5. Seen(vs, en, c)
    <3>1. Seen(us, en, c)
      BY <1>9 DEF InPlace
    <3>2. \A i \in 1..Len(en) : \E m \in 1..Len(en) : en[m] = en[i]
      OBVIOUS
    <3>3. \A d, j : IsLocal(vs, d, j) =>
             \/ IsLocal(us, d, j) /\ Entry(vs[d].localVars[j]) = Entry(us[d].localVars[j])
                /\ (d >= 2 \/ c = c \/ \A n \in Name : vs[d].localVars[j].name # Cls(c, n))
             \/ \E m \in 1..Len(en) : en[m] = Entry(vs[d].localVars[j])
      BY <1>3, <1>4
    <3> QED
      BY <3>1, <3>2, <3>3, SeenKept
  <2> QED
    BY <1>9, <2>4, <2>5 DEF InPlace
<1> QED
  BY <1>1, <1>2, <1>7, <1>8, <1>9

\* What a reference leaves behind when it has been compiled to variable x.
Referred(us, x) ==
  /\ Chain(us, ids, Caught(x))
  /\ us[1].scopeDepth = units[1].scopeDepth
  /\ \A C : StaticsOf(units, C) => StaticsOf(us, C)
  /\ \A en, c : InPlace(units, en, c) => InPlace(us, en, c)

LEMMA ReferenceIs ==
  ASSUME Chain(units, ids, caught), NEW name, NEW r, VarFound(name, r), r.var # Nothing
  PROVE  \E e, j : /\ IsInnermost(units, name, Depth, e, j)
                   /\ IdOf(r.units, r.var) = units[e].localVars[j].id
                   /\ Referred(r.units, IdOf(r.units, r.var))
<1>1. PICK e, j, T2 :
          /\ IsInnermost(units, name, Depth, e, j)
          /\ Sound(r.units, T2) /\ SameLocals(units, r.units)
          /\ IdOf(r.units, r.var) = units[e].localVars[j].id
          /\ IF e = Depth THEN SameMarks(units, r.units) ELSE MarksMore(units, r.units, units[e].localVars[j].id)
  BY DEF VarFound
<1> DEFINE x == IdOf(r.units, r.var)
<1>2. IsLocal(units, e, j) /\ x = units[e].localVars[j].id /\ e <= Depth
  BY <1>1 DEF IsInnermost, Named, IsLocal
<1> HIDE DEF x
<1>3. x \in 1..ids /\ caught \subseteq 1..ids
  BY <1>2 DEF Chain, IdsOK
<1>4. units \in Seq(UnitType) /\ LocalsInOrder(units) /\ Depth \in Nat /\ Depth \in 1..Depth /\ cu = units[Depth]
      /\ DOMAIN cu.localVars = 1..Len(cu.localVars)
  <2>1. units \in Seq(UnitType) /\ LocalsInOrder(units) /\ Len(units) \in Nat /\ Len(units) \in 1..Len(units)
    BY ChainFacts
  <2> QED
    BY <2>1, UnitFacts DEF Depth, cu, Last
<1>5. Caught(x) = IF e = Depth THEN caught ELSE caught \union {x}
  <2>1. CASE e = Depth
    <3>1. \E i \in DOMAIN cu.localVars : cu.localVars[i].id = x
      BY <1>2, <1>4, <2>1 DEF IsLocal
    <3> QED
      BY <2>1, <3>1 DEF Caught
  <2>2. CASE e # Depth
    <3>1. ASSUME NEW i \in DOMAIN cu.localVars, cu.localVars[i].id = x PROVE FALSE
      <4>1. e = Depth /\ i = j
        BY <1>2, <1>4, <3>1, DifferentIds DEF IsLocal, Depth
      <4> QED
        BY <2>2, <4>1
    <3> QED
      BY <2>2, <3>1 DEF Caught
  <2> QED
    BY <2>1, <2>2
<1>6. Caught(x) \subseteq 1..ids
  BY <1>3, <1>5
<1>7. ASSUME NEW d, NEW i, IsLocal(units, d, i)
      PROVE  r.units[d].localVars[i].isUpvalue <=> units[d].localVars[i].id \in Caught(x)
  <2>1. units[d].localVars[i].isUpvalue <=> units[d].localVars[i].id \in caught
    BY <1>7 DEF Chain, IdsOK
  <2>2. CASE e = Depth
    BY <1>1, <1>5, <1>7, <2>1, <2>2 DEF SameMarks, IsLocal
  <2>3. CASE e # Depth
    <3>1. r.units[d].localVars[i].isUpvalue <=> units[d].localVars[i].isUpvalue \/ units[d].localVars[i].id = x
      BY <1>1, <1>2, <1>7, <2>3 DEF MarksMore, IsLocal
    <3> QED
      BY <1>5, <2>1, <2>3, <3>1
  <2> QED
    BY <2>2, <2>3
<1>8. Referred(r.units, x)
  BY <1>1, <1>6, <1>7, ReferenceKeeps DEF Referred
<1> QED
  BY <1>1, <1>8 DEF x

\* The names of the program, "this" and the name of slot 0 are no variables of the module.
LEMMA NoPlainStatics ==
  ASSUME NEW us, StaticsOf(us, Class), NEW name \in Plain
  PROVE  \A j : ~Named(us, name, 1, j)
<1> SUFFICES ASSUME NEW j, Named(us, name, 1, j) PROVE FALSE
  OBVIOUS
<1>1. \E c \in Class, n \in Name : name = Cls(c, n)
  BY DEF StaticsOf, Named, IsLocal
<1>2. PICK c \in Class, n \in Name : name = Cls(c, n)
  BY <1>1
<1> QED
  BY <1>2, NamesApart

\* What a name in sight of the innermost method is, by the declarations and by the tables.
LEMMA InSightIs ==
  ASSUME Chain(units, ids, caught), StaticsOf(units, Class), NEW c, InPlace(units, env, c), NEW name \in Plain
  PROVE  /\ InSight(name) = {} <=> \A d, j : ~Named(units, name, d, j)
         /\ \A d, j : IsInnermost(units, name, Depth, d, j) =>
              InSight(name) # {} /\ Innermost(name) = units[d].localVars[j].id
<1>1. units \in Seq(UnitType) /\ LocalsInOrder(units) /\ Numbered(units)
  BY ChainFacts
<1>2. PICK lv : Placed(units, env, lv)
  BY DEF InPlace
<1>3. Len(env) \in Nat /\ DOMAIN env = 1..Len(env)
  BY <1>2, PlacedFacts
<1> DEFINE b == Boundary
           marks == {i \in DOMAIN env : env[i] = Mark("method")}
<1>4. b \in {0} \union marks
  <2>1. {0} \union marks \subseteq 0..Len(env) /\ {0} \union marks # {}
    BY <1>3
  <2> QED
    BY <1>3, <2>1, MaxIs DEF Boundary
<1> HIDE DEF b
<1>5. ASSUME NEW d, NEW j, Named(units, name, d, j)
      PROVE  \E i \in 1..Len(env) : env[i] = Entry(units[d].localVars[j]) /\ i > b
  <2>1. d \in 1..Len(units) /\ j \in 1..Len(units[d].localVars) /\ d # 1 /\ d \in Nat
    BY <1>5, ChainFacts, NoPlainStatics DEF Named
  <2>2. d >= 2
    BY <2>1
  <2>3. PICK i \in 1..Len(env) : env[i] = Entry(units[d].localVars[j])
    BY <2>1, <2>2 DEF InPlace, Seen
  <2>4. env[i].id # 0 /\ lv[i] = <<d, LevelOf(units[d].localVars[j])>>
    BY <1>1, <1>2, <2>1, <2>3, LevelOfEntry
  <2>5. i > 0 /\ i \in Nat
    BY <1>3
  <2>6. CASE b \in marks
    <3>1. b \in 1..Len(env) /\ env[b] = Mark("method")
      BY <1>3, <2>6
    <3>2. env[b].id = 0
      BY <3>1, MarkIs
    <3>3. IsLevel(units, lv[b]) /\ env[b] = Mark(KindAt(units, lv[b]))
      BY <1>2, <3>1, <3>2 DEF Placed
    <3>4. KindAt(units, lv[b]) = "method"
      BY <3>1, <3>3, MarkIs
    <3>5. lv[b][1] \in 1..Len(units) /\ units[lv[b][1]].kind = "method"
      BY <3>3, <3>4 DEF KindAt, IsLevel
    <3>6. lv[b][1] = 2 /\ ~(lv[b][2] > 0) /\ lv[b][2] \in Nat
      BY <1>2, <3>1, <3>4, <3>5, PlacedFacts DEF Chain, ShapeOK, KindAt
    <3>7. ~(i < b)
      <4> SUFFICES ASSUME i < b PROVE FALSE
        OBVIOUS
      <4>1. Outer(lv[i], lv[b])
        BY <1>2, <3>1, <3>2 DEF Placed
      <4>2. lv[i] \in Nat \X Nat /\ lv[i][1] \in Nat /\ lv[i][2] \in Nat
        BY <1>2, PlacedFacts
      <4>3. lv[i][1] = d
        BY <2>4
      <4> QED
        BY <2>1, <2>2, <3>6, <4>1, <4>2, <4>3 DEF Outer, Below
    <3>8. i # b
      BY <2>4, <3>2
    <3> QED
      BY <1>3, <2>3, <2>5, <3>1, <3>7, <3>8
  <2> QED
    BY <1>4, <2>3, <2>5, <2>6
<1>6. name \in Plain \union Static /\ AllBehind(units, env, name, b)
  BY <1>5 DEF AllBehind
<1>7. InSight(name) = Hits(env, name, b)
  BY DEF InSight, Hits, b
<1>8. Rising(env)
  BY DEF InPlace
<1> QED
  BY <1>1, <1>2, <1>6, <1>7, <1>8, Lookup DEF Innermost, Depth

\* The same for a static field of the class around.
LEMMA StaticIs ==
  ASSUME Chain(units, ids, caught), NEW c \in Class, InPlace(units, env, c), NEW n \in Name
  PROVE  LET name == Cls(c, n)
         IN  /\ Statics(name) = {} <=> \A d, j : ~Named(units, name, d, j)
             /\ \A d, j : IsInnermost(units, name, Depth, d, j) =>
                  Statics(name) # {} /\ env[Max(Statics(name))].id = units[d].localVars[j].id
<1> DEFINE name == Cls(c, n)
<1>1. units \in Seq(UnitType) /\ LocalsInOrder(units) /\ Numbered(units)
  BY ChainFacts
<1>2. PICK lv : Placed(units, env, lv)
  BY DEF InPlace
<1>3. Len(env) \in Nat /\ DOMAIN env = 1..Len(env)
  BY <1>2, PlacedFacts
<1>4. ASSUME NEW d, NEW j, Named(units, name, d, j)
      PROVE  \E i \in 1..Len(env) : env[i] = Entry(units[d].localVars[j]) /\ i > 0
  <2>1. d \in 1..Len(units) /\ j \in 1..Len(units[d].localVars) /\ units[d].localVars[j].name = name
    BY <1>4 DEF Named
  <2>2. \E i \in 1..Len(env) : env[i] = Entry(units[d].localVars[j])
    BY <2>1 DEF InPlace, Seen
  <2> QED
    BY <1>3, <2>2
<1>5. name \in Plain \union Static /\ AllBehind(units, env, name, 0)
  BY <1>4 DEF Static, AllBehind
<1>6. Statics(name) = Hits(env, name, 0)
  BY <1>3 DEF Statics, Hits
<1>7. Rising(env)
  BY DEF InPlace
<1> HIDE DEF name
<1>8. /\ Statics(name) = {} <=> \A d, j : ~Named(units, name, d, j)
      /\ \A d, j : IsInnermost(units, name, Len(units), d, j) =>
           Statics(name) # {} /\ env[Max(Statics(name))].id = units[d].localVars[j].id
  BY <1>1, <1>2, <1>5, <1>6, <1>7, Lookup
<1> QED
  BY <1>8 DEF Depth, name

-----------------------------------------------------------------------------
(***************************************************************************)
(* The invariant.  What the names mean is only claimed of a module that is *)
(* being compiled: an error in the name of a class leaves its body open.   *)
(***************************************************************************)
IsDefined(name) == name \in DOMAIN moduleVars /\ moduleVars[name] = "defined"
Defined == {c \in Class : IsDefined(<<c>>)}

Values ==
  /\ status \in {"compiling", "error", "undefined", "compiled"}
  /\ class \in [name : Class \union {NoClass}, fields : SUBSET Name, inStatic : BOOLEAN]
  /\ \A n \in DOMAIN moduleVars : moduleVars[n] \in {"line", "defined"}

\* The scope of the module's unit is that of its class, if it is in one, and the
\* declarations in sight are those of the tables.
Open ==
  /\ units[1].scopeDepth = IF InClass THEN 0 ELSE -1
  /\ InClass => class.name \in Defined
  /\ InPlace(units, env, class.name)

NamesInv ==
  /\ Values
  /\ Chain(units, ids, caught) /\ StaticsOf(units, Defined)
  /\ found = meant
  /\ Compiling => Open

LEMMA FewerStatics ==
  ASSUME NEW us, NEW C, NEW B, StaticsOf(us, C), C \subseteq B
  PROVE  StaticsOf(us, B)
BY DEF StaticsOf

\* A class that has not been defined has no static fields.
LEMMA NoStatics ==
  ASSUME NEW us, NEW C, StaticsOf(us, C), NEW c, c \notin C
  PROVE  \A j : IsLocal(us, 1, j) => \A n \in Name : us[1].localVars[j].name # Cls(c, n)
<1> SUFFICES ASSUME NEW j, IsLocal(us, 1, j), NEW n \in Name, us[1].localVars[j].name = Cls(c, n) PROVE FALSE
  OBVIOUS
<1>1. \E b \in C, m \in Name : us[1].localVars[j].name = Cls(b, m)
  BY DEF StaticsOf
<1>2. PICK b \in C, m \in Name : us[1].localVars[j].name = Cls(b, m)
  BY <1>1
<1>3. Cls(b, m) = Cls(c, n)
  BY <1>2
<1>4. b = c
  BY <1>3 DEF Cls
<1> QED
  BY <1>4

\* What holds of an open module: its class has a name that is one of a class.
LEMMA OpenFacts ==
  ASSUME NamesInv, Compiling
  PROVE  /\ Open /\ Values /\ Chain(units, ids, caught)
         /\ Depth = Len(units) /\ cu = units[Depth] /\ Depth \in 1..Depth /\ Depth \in Nat /\ (Depth = 1 \/ Depth >= 2)
         /\ StaticsOf(units, Defined) /\ StaticsOf(units, Class)
         /\ InClass <=> class.name \in Class
         /\ InPlace(units, env, class.name)
         /\ cu.scopeDepth \in Int /\ ids \in Nat
<1>1. Open /\ Values /\ Chain(units, ids, caught) /\ StaticsOf(units, Defined)
  BY DEF NamesInv
<1>2. Len(units) \in Nat /\ Len(units) # 0 /\ Len(units) \in 1..Len(units)
      /\ \A d \in 1..Len(units) : units[d].scopeDepth \in Int
  BY <1>1, ChainFacts
<1>3. Depth = Len(units) /\ cu = units[Depth]
  BY DEF Depth, cu, Last
<1>4. StaticsOf(units, Class)
  <2>1. Defined \subseteq Class
    BY DEF Defined
  <2> QED
    BY <1>1, <2>1, FewerStatics
<1>5. InClass <=> class.name \in Class
  <2>1. class.name \in Class \union {NoClass}
    BY <1>1 DEF Values
  <2>2. NoClass \notin Class
    BY NamesAssumption DEF NoClass
  <2> QED
    BY <2>1, <2>2 DEF InClass
<1>6. ids \in Nat
  BY <1>1 DEF Chain
<1>7. Depth = 1 \/ Depth >= 2
  <2> HIDE DEF Depth
  <2> QED
    BY <1>2, <1>3
<1> QED
  BY <1>1, <1>2, <1>3, <1>4, <1>5, <1>6, <1>7 DEF Open

LEMMA NamesInvInit == Init => NamesInv
<1> SUFFICES ASSUME Init PROVE NamesInv
  OBVIOUS
<1> DEFINE unit == Unit("module", <<>>)
<1>1. /\ units = <<unit>> /\ class = [name |-> NoClass, fields |-> {}, inStatic |-> FALSE]
      /\ moduleVars = [n \in {} |-> ""] /\ status = "compiling"
      /\ env = <<>> /\ ids = 0 /\ caught = {} /\ found = Nothing /\ meant = Nothing
  BY DEF Init
<1>2. unit.kind = "module" /\ unit.scopeDepth = -1 /\ unit.localVars = <<>> /\ unit.upvalues = <<>>
  BY DEF Unit
<1>3. unit \in UnitType
  <2>1. "module" \in Kind /\ <<>> \in Seq(LocalVar) /\ <<>> \in Seq(Upvalue) /\ -1 \in Int
    BY DEF Kind
  <2> QED
    BY <2>1 DEF Unit, UnitType
<1> HIDE DEF unit
<1>4. units \in Seq(UnitType) /\ Len(units) = 1 /\ units[1] = unit /\ units # <<>>
  BY <1>1, <1>3
<1>5. \A d \in 1..Len(units) : d = 1 /\ units[d] = unit
  BY <1>4
<1>6. \A d, j : ~IsLocal(units, d, j)
  BY <1>2, <1>5 DEF IsLocal
<1>7. LocalsInOrder(units)
  BY <1>6 DEF LocalsInOrder, IsLocal
<1>8. UpvaluesInBounds(units)
  BY <1>2, <1>4, <1>5 DEF UpvaluesInBounds
<1> DEFINE T == [e \in 0..1 |-> <<>>]
<1>9. IsTable(T, units)
  <2>1. \A d \in 1..Len(units) : units[d].upvalues = <<>>
    BY <1>2, <1>5
  <2>2. Tables(T, units)
    BY <1>4, <2>1 DEF Tables
  <2> QED
    BY <1>4, <2>2, TableIs
<1> HIDE DEF T
<1>10. Distinct(T, units)
  BY <1>2, <1>5 DEF Distinct
<1>11. Chain(units, ids, caught)
  <2>1. Sound(units, T)
    BY <1>4, <1>7, <1>8, <1>9, <1>10 DEF Sound
  <2>2. ShapeOK(units)
    <3>1. "module" # "method" /\ ~(1 >= 2)
      OBVIOUS
    <3> QED
      BY <1>2, <1>5, <3>1 DEF ShapeOK
  <2>3. IdsOK(units, ids, caught)
    BY <1>6 DEF IdsOK
  <2> QED
    BY <1>1, <2>1, <2>2, <2>3 DEF Chain
<1>12. StaticsOf(units, Defined)
  BY <1>6 DEF StaticsOf
<1>13. Values
  BY <1>1 DEF Values
<1>14. Open
  <2>1. ~InClass /\ class.name = NoClass
    BY <1>1 DEF InClass
  <2>2. InPlace(units, env, class.name)
    <3>1. Placed(units, env, <<>>)
      <4>1. \A l : ~IsLevel(units, l)
        <5>1. \A x : x \notin 0..(-1)
          OBVIOUS
        <5> QED
          BY <1>2, <1>5, <5>1 DEF IsLevel
      <4> QED
        BY <1>1, <4>1 DEF Placed
    <3>2. Seen(units, env, class.name)
      BY <1>6 DEF Seen, IsLocal
    <3>3. Rising(env)
      BY <1>1 DEF Rising
    <3> QED
      BY <3>1, <3>2, <3>3 DEF InPlace
  <2> QED
    BY <1>2, <1>4, <2>1, <2>2 DEF Open
<1> QED
  BY <1>1, <1>11, <1>12, <1>13, <1>14 DEF NamesInv

LEMMA FailKeeps ==
  ASSUME NamesInv, Fail
  PROVE  NamesInv'
<1>1. /\ units' = units /\ class' = class /\ moduleVars' = moduleVars /\ status' = "error"
      /\ ids' = ids /\ caught' = caught /\ found' = Nothing /\ meant' = Nothing
  BY DEF Fail, said, NoReference
<1>2. Values' /\ ~Compiling'
  <2>1. "error" # "compiling"
    OBVIOUS
  <2> QED
    BY <1>1, <2>1 DEF NamesInv, Values, Compiling
<1>3. Defined' = Defined
  BY <1>1 DEF Defined, IsDefined
<1> QED
  BY <1>1, <1>2, <1>3 DEF NamesInv

\* defineModuleVar(): what is defined stays so; the name is new, or it is an error.
LEMMA DefineKeeps ==
  ASSUME NEW name, DefineModuleVar(name), Values, Compiling,
         class' \in [name : Class \union {NoClass}, fields : SUBSET Name, inStatic : BOOLEAN]
  PROVE  /\ Values' /\ Defined \subseteq Defined'
         /\ (~Compiling)' \/ (Compiling' /\ ~IsDefined(name) /\ IsDefined(name)')
<1>1. CASE IsDefined(name)
  <2>1. status' = "error" /\ moduleVars' = moduleVars
    BY <1>1 DEF DefineModuleVar, IsDefined
  <2>2. Defined' = Defined
    BY <2>1 DEF Defined, IsDefined
  <2>3. (~Compiling)'
    <3>1. "error" # "compiling"
      OBVIOUS
    <3> QED
      BY <2>1, <3>1 DEF Compiling
  <2> QED
    BY <2>1, <2>2, <2>3 DEF Values
<1>2. CASE ~IsDefined(name)
  <2>1. status' = status /\ moduleVars' = WithValue(name, "defined")
    BY <1>2 DEF DefineModuleVar, IsDefined
  <2>2. /\ DOMAIN moduleVars' = {name} \union DOMAIN moduleVars
        /\ moduleVars'[name] = "defined"
        /\ \A n \in DOMAIN moduleVars : n # name => moduleVars'[n] = moduleVars[n]
    BY <2>1 DEF WithValue
  <2>3. IsDefined(name)'
    BY <2>2 DEF IsDefined
  <2>4. \A n : IsDefined(n) => IsDefined(n)'
    BY <1>2, <2>2 DEF IsDefined
  <2>5. Defined \subseteq Defined'
    BY <2>4 DEF Defined
  <2>6. Values'
    BY <2>1, <2>2 DEF Values
  <2>7. Compiling'
    BY <2>1 DEF Compiling
  <2> QED
    BY <1>2, <2>3, <2>5, <2>6, <2>7
<1> QED
  BY <1>1, <1>2

\* A step that leaves class, status and module variables alone.
LEMMA SameTables ==
  ASSUME NamesInv, UNCHANGED <<class, status, moduleVars>>
  PROVE  Values' /\ Defined' = Defined /\ (InClass' <=> InClass)
BY DEF NamesInv, Values, Defined, IsDefined, InClass

LEMMA NoReferenceIs ==
  ASSUME NoReference
  PROVE  (found = meant)'
BY DEF NoReference

-----------------------------------------------------------------------------
(***************************************************************************)
(* One lemma per operation.                                                *)
(***************************************************************************)
LEMMA InnerScope ==
  ASSUME NEW us, NEW k, NEW marked, Chain(us, k, marked), Len(us) >= 2
  PROVE  us[Len(us)].scopeDepth >= 0
BY ChainFacts DEF Chain, ShapeOK, InnerOK

LEMMA StaticsKept ==
  ASSUME NEW us, NEW vs, NEW C, StaticsOf(us, C),
         \A j : IsLocal(vs, 1, j) => IsLocal(us, 1, j) /\ vs[1].localVars[j] = us[1].localVars[j]
  PROVE  StaticsOf(vs, C)
BY DEF StaticsOf

LEMMA EnterScopeKeeps ==
  ASSUME NamesInv, ~ModuleLocals, EnterScope
  PROVE  NamesInv'
<1> DEFINE us == units
           D == Depth
<1>1. /\ Compiling /\ Depth # 1 /\ env' = Append(env, Mark("scope"))
      /\ UNCHANGED <<class, moduleVars, status, ids, caught>> /\ NoReference
      /\ units' = Entered(units)
  BY DEF EnterScope, Entered, Depth
<1>2. /\ Open /\ Chain(units, ids, caught) /\ Depth = Len(units) /\ Depth >= 2 /\ StaticsOf(units, Defined)
      /\ InPlace(units, env, class.name)
  BY <1>1, OpenFacts
<1>3. /\ Len(units') = Depth
      /\ \A d \in 1..Depth : units'[d].localVars = units[d].localVars
      /\ \A d \in 1..Depth : units'[d].scopeDepth = IF d = Depth THEN units[d].scopeDepth + 1 ELSE units[d].scopeDepth
  BY <1>1, <1>2, EnteredIs
<1>4. 1 \in 1..Depth /\ Values' /\ Defined' = Defined /\ (InClass' <=> InClass) /\ (found = meant)'
  BY <1>1, <1>2, ChainFacts, SameTables, NoReferenceIs
<1>5. Chain(units, ids, caught)'
  BY <1>1, <1>2, ChainEntered
<1>6. StaticsOf(units', Defined)
  BY <1>2, <1>3, <1>4, StaticsKept DEF IsLocal
<1>7. InPlace(units, env, class.name)'
  <2>1. units[Len(units)].scopeDepth >= 0 /\ units[Len(units)].scopeDepth \in Int
    BY <1>2, InnerScope, ChainFacts
  <2>2. units[Len(units)].scopeDepth >= -1
    BY <2>1
  <2>3. InPlace(Entered(units), Append(env, Mark("scope")), class.name)
    BY <1>2, <2>1, <2>2, InPlaceEntered
  <2> QED
    BY <1>1, <2>3
<1>8. Open'
  BY <1>1, <1>2, <1>3, <1>4, <1>7 DEF Open
<1> QED
  BY <1>4, <1>5, <1>6, <1>8 DEF NamesInv

LEMMA LeaveScopeKeeps ==
  ASSUME NamesInv, LeaveScope
  PROVE  NamesInv'
<1>1. /\ Compiling /\ ~(Depth = 1 /\ InClass) /\ cu.scopeDepth > (IF Depth = 1 THEN -1 ELSE 0)
      /\ env' = Outside("scope") /\ UNCHANGED <<class, moduleVars, status, ids, caught>> /\ NoReference
      /\ units' = [units EXCEPT ![Depth] = Left(@, Depth = 1)]
  BY DEF LeaveScope
<1>2. /\ Open /\ Chain(units, ids, caught) /\ Depth = Len(units) /\ (Depth = 1 \/ Depth >= 2)
      /\ cu = units[Depth] /\ StaticsOf(units, Defined) /\ InPlace(units, env, class.name) /\ cu.scopeDepth \in Int
  BY <1>1, OpenFacts
<1>3. Depth # 1 /\ Depth >= 2 /\ cu.scopeDepth > 0
  BY <1>1, <1>2 DEF Open
<1>4. PICK isModule \in BOOLEAN : (isModule <=> Len(units) = 1) /\ units' = LeftTop(units, isModule)
  <2>1. (Depth = 1) \in BOOLEAN /\ ((Depth = 1) <=> Len(units) = 1)
    BY <1>2
  <2>2. units' = LeftTop(units, Depth = 1)
    BY <1>1, <1>2 DEF LeftTop
  <2> QED
    BY <2>1, <2>2
<1>5. /\ Len(units') = Depth
      /\ \A d \in 1..Depth : units'[d].scopeDepth = IF d = Depth THEN units[d].scopeDepth - 1 ELSE units[d].scopeDepth
      /\ \A d, j : IsLocal(units', d, j) => IsLocal(units, d, j) /\ units'[d].localVars[j] = units[d].localVars[j]
  BY <1>2, <1>3, <1>4, LeftIs
<1>6. 1 \in 1..Depth /\ Values' /\ Defined' = Defined /\ (InClass' <=> InClass) /\ (found = meant)'
  BY <1>1, <1>2, ChainFacts, SameTables, NoReferenceIs
<1>7. Chain(units, ids, caught)'
  <2>1. Len(units) >= 2 => units[Len(units)].scopeDepth > 0
    BY <1>2, <1>3
  <2>2. Chain(LeftTop(units, isModule), ids, caught)
    BY <1>2, <1>4, <2>1, ChainLeft
  <2> QED
    BY <1>1, <1>4, <2>2
<1>8. StaticsOf(units', Defined)
  BY <1>2, <1>5, StaticsKept
<1>9. InPlace(units, env, class.name)'
  <2> DEFINE l == <<Len(units), units[Len(units)].scopeDepth>>
  <2>1. InPlace(LeftTop(units, isModule), SubSeq(env, 1, LastOf(units, env, l) - 1), class.name)
    <3>1. units[Len(units)].scopeDepth >= 0
      BY <1>2, <1>3, InnerScope
    <3>2. ~isModule /\ units[Len(units)].scopeDepth > 0
      BY <1>2, <1>3, <1>4
    <3> QED
      BY <1>2, <1>4, <3>1, <3>2, InPlaceLeft
  <2>2. KindAt(units, l) = "scope"
    BY <1>2, <1>3 DEF KindAt
  <2> HIDE DEF l
  <2>3. Outside("scope") = SubSeq(env, 1, LastOf(units, env, l) - 1)
    BY <2>2 DEF Outside, LastOf
  <2> QED
    BY <1>1, <1>4, <2>1, <2>3
<1>10. Open'
  BY <1>1, <1>2, <1>3, <1>5, <1>6, <1>9 DEF Open
<1> QED
  BY <1>6, <1>7, <1>8, <1>10 DEF NamesInv

LEMMA CloseUnitKeeps ==
  ASSUME NamesInv, CloseUnit
  PROVE  NamesInv'
<1>1. /\ Compiling /\ Depth > 1 /\ cu.scopeDepth = 0 /\ units' = Front(units)
      /\ env' = Outside(cu.kind) /\ UNCHANGED <<class, moduleVars, status, ids, caught>> /\ NoReference
  BY DEF CloseUnit
<1>2. /\ Open /\ Chain(units, ids, caught) /\ Depth = Len(units) /\ cu = units[Depth] /\ Depth \in Nat
      /\ StaticsOf(units, Defined) /\ InPlace(units, env, class.name)
  BY <1>1, OpenFacts
<1>3. /\ Chain(units', ids, caught) /\ Len(units') = Depth - 1
      /\ \A d \in 1..Len(units') : d \in 1..Depth /\ units'[d] = units[d]
  BY <1>1, <1>2, ChainClosed
<1>4. Values' /\ Defined' = Defined /\ (InClass' <=> InClass) /\ (found = meant)'
  BY <1>1, SameTables, NoReferenceIs
<1>5. 1 \in 1..Len(units')
  BY <1>3, ChainFacts
<1>6. StaticsOf(units', Defined)
  BY <1>2, <1>3, StaticsKept DEF IsLocal
<1>7. InPlace(units, env, class.name)'
  <2> DEFINE m == Max({i \in DOMAIN env : env[i] = Mark(units[Len(units)].kind)})
  <2>1. InPlace(Front(units), SubSeq(env, 1, m - 1), class.name)
    BY <1>1, <1>2, InPlaceClosed
  <2>2. Outside(cu.kind) = SubSeq(env, 1, m - 1)
    BY <1>2 DEF Outside
  <2> QED
    BY <1>1, <2>1, <2>2
<1>8. Open'
  BY <1>1, <1>2, <1>3, <1>4, <1>5, <1>7 DEF Open
<1> QED
  BY <1>1, <1>3, <1>4, <1>6, <1>8 DEF NamesInv

LEMMA CloseClassKeeps ==
  ASSUME NamesInv, CloseClass
  PROVE  NamesInv'
<1>1. /\ Compiling /\ Depth = 1 /\ InClass /\ class' = [class EXCEPT !.name = NoClass, !.fields = {}]
      /\ units' = [units EXCEPT ![1] = Left(@, TRUE)]
      /\ env' = Outside("class") /\ UNCHANGED <<moduleVars, status, ids, caught>> /\ NoReference
  BY DEF CloseClass
<1>2. /\ Open /\ Values /\ Chain(units, ids, caught) /\ Depth = Len(units)
      /\ StaticsOf(units, Defined) /\ StaticsOf(units, Class) /\ InPlace(units, env, class.name)
  BY <1>1, OpenFacts
<1>3. Len(units) = 1 /\ 1 \in 1..Len(units) /\ units[1].scopeDepth = 0
  BY <1>1, <1>2 DEF Open
<1>4. PICK isModule \in BOOLEAN : (isModule <=> Len(units) = 1) /\ units' = LeftTop(units, isModule)
  <2>1. TRUE \in BOOLEAN /\ (TRUE <=> Len(units) = 1)
    BY <1>3
  <2>2. units' = LeftTop(units, TRUE)
    BY <1>1, <1>3 DEF LeftTop
  <2> QED
    BY <2>1, <2>2
<1>4a. /\ \A d \in 1..Depth : units'[d].scopeDepth = IF d = Depth THEN units[d].scopeDepth - 1 ELSE units[d].scopeDepth
       /\ \A d, j : IsLocal(units', d, j) => IsLocal(units, d, j) /\ units'[d].localVars[j] = units[d].localVars[j]
  <2> DEFINE vs == LeftTop(units, isModule)
  <2>1. \A d \in 1..Len(units) : vs[d].scopeDepth = IF d = Len(units) THEN units[d].scopeDepth - 1 ELSE units[d].scopeDepth
    BY <1>2, <1>4, LeftIs
  <2>2. \A d, j : IsLocal(vs, d, j) => IsLocal(units, d, j) /\ vs[d].localVars[j] = units[d].localVars[j]
    BY ZenonT(40), <1>2, <1>4, LeftIs
  <2> HIDE DEF vs
  <2>3. units' = vs /\ Depth = Len(units)
    BY <1>2, <1>4 DEF vs
  <2> QED
    BY <2>1, <2>2, <2>3
<1>5. class'.name = NoClass /\ class' \in [name : Class \union {NoClass}, fields : SUBSET Name, inStatic : BOOLEAN]
  BY <1>1, <1>2 DEF Values
<1>6. Values' /\ Defined' = Defined /\ (found = meant)' /\ ~InClass'
  <2>1. Values' /\ Defined' = Defined
    BY <1>1, <1>2, <1>5 DEF Values, Defined, IsDefined
  <2> QED
    BY <1>1, <1>5, <2>1, NoReferenceIs DEF InClass
<1>7. Chain(units, ids, caught)'
  <2>1. Len(units) >= 2 => units[Len(units)].scopeDepth > 0
    BY <1>3
  <2>2. Chain(LeftTop(units, isModule), ids, caught)
    BY <1>2, <1>4, <2>1, ChainLeft
  <2> QED
    BY <1>1, <1>4, <2>2
<1>8. StaticsOf(units', Defined)
  BY <1>2, <1>4a, StaticsKept
<1>9. InPlace(units, env, class.name)'
  <2> DEFINE l == <<Len(units), units[Len(units)].scopeDepth>>
  <2>1. NoClass \notin Class
    BY NamesAssumption DEF NoClass
  <2>2. \A j : IsLocal(units, 1, j) => \A n \in Name : units[1].localVars[j].name # Cls(NoClass, n)
    BY <1>2, <2>1, NoStatics
  <2>3. InPlace(LeftTop(units, isModule), SubSeq(env, 1, LastOf(units, env, l) - 1), NoClass)
    <3>1. units[Len(units)].scopeDepth >= 0 /\ ~(Len(units) >= 2)
      BY <1>3
    <3>2. IF isModule THEN \A j : IsLocal(units, 1, j) => \A n \in Name : units[1].localVars[j].name # Cls(NoClass, n)
          ELSE NoClass = class.name
      BY <1>3, <1>4, <2>2
    <3> QED
      BY <1>2, <1>4, <3>1, <3>2, InPlaceLeft
  <2>4. KindAt(units, l) = "class"
    BY <1>3 DEF KindAt
  <2> HIDE DEF l
  <2>5. Outside("class") = SubSeq(env, 1, LastOf(units, env, l) - 1)
    BY <2>4 DEF Outside, LastOf
  <2> QED
    BY <1>1, <1>4, <1>5, <2>3, <2>5
<1>10. Open'
  BY <1>2, <1>3, <1>4a, <1>6, <1>9 DEF Open
<1> QED
  BY <1>6, <1>7, <1>8, <1>10 DEF NamesInv

\* initCompileUnit(), for what its own variable is called.
LEMMA OpenedKeeps ==
  ASSUME NamesInv, Compiling, NEW kind \in Kind, kind # "module", NEW own \in Plain, kind = "method" => Depth = 1,
         units' = Append(units, Unit(kind, <<Local(own, -1, ids + 1)>>)),
         env' = env \o <<Mark(kind), [name |-> own, id |-> ids + 1]>>,
         ids' = ids + 1, caught' = caught
  PROVE  /\ Chain(units, ids, caught)' /\ StaticsOf(units', Defined)
         /\ units'[1].scopeDepth = units[1].scopeDepth
         /\ InPlace(units', env', class.name)
<1>1. /\ Chain(units, ids, caught) /\ Depth = Len(units) /\ StaticsOf(units, Defined) /\ InPlace(units, env, class.name)
  BY OpenFacts
<1>2. units' = Opened(units, kind, own, ids + 1)
  BY DEF Opened
<1> DEFINE vs == Opened(units, kind, own, ids + 1)
<1>3. /\ \A d \in 1..Len(units) : vs[d] = units[d]
      /\ \A d, j : IsLocal(vs, d, j) <=> IsLocal(units, d, j) \/ (d = Len(units) + 1 /\ j = 1)
  BY <1>1, OpenedIs
<1>4. 1 \in 1..Len(units) /\ Len(units) \in Nat /\ 1 # Len(units) + 1
  BY <1>1, ChainFacts
<1>5. Chain(units, ids, caught)'
  <2>1. Chain(Opened(units, kind, own, ids + 1), ids + 1, caught)
    BY <1>1, ChainOpened
  <2> QED
    BY <1>2, <2>1
<1>6. StaticsOf(units', Defined) /\ units'[1].scopeDepth = units[1].scopeDepth
  <2> HIDE DEF vs
  <2>1. \A j : IsLocal(vs, 1, j) => IsLocal(units, 1, j) /\ vs[1].localVars[j] = units[1].localVars[j]
    BY <1>3, <1>4
  <2>2. StaticsOf(vs, Defined)
    BY <1>1, <2>1, StaticsKept
  <2> QED
    BY <1>2, <1>3, <1>4, <2>2 DEF vs
<1>7. InPlace(units', env', class.name)
  <2>1. InPlace(Opened(units, kind, own, ids + 1), env \o <<Mark(kind), [name |-> own, id |-> ids + 1]>>, class.name)
    BY <1>1, InPlaceOpened
  <2> QED
    BY <1>2, <2>1
<1> QED
  BY <1>5, <1>6, <1>7

LEMMA OpenMethodKeeps ==
  ASSUME NamesInv, NEW isStatic \in BOOLEAN, OpenMethod(isStatic)
  PROVE  NamesInv'
<1>1. /\ Compiling /\ Depth = 1 /\ InClass /\ class' = [class EXCEPT !.inStatic = isStatic]
      /\ units' = Append(units, Unit("method", <<Local(this, -1, ids + 1)>>))
      /\ env' = env \o <<Mark("method"), [name |-> this, id |-> ids + 1]>>
      /\ ids' = ids + 1 /\ UNCHANGED <<moduleVars, status, caught>> /\ NoReference
  BY DEF OpenMethod, OpenUnit
<1>2. "method" \in Kind /\ "method" # "module" /\ this \in Plain
  BY DEF Kind, Plain
<1>3. /\ Chain(units, ids, caught)' /\ StaticsOf(units', Defined)
      /\ units'[1].scopeDepth = units[1].scopeDepth /\ InPlace(units', env', class.name)
  BY <1>1, <1>2, OpenedKeeps
<1>4. class'.name = class.name /\ class' \in [name : Class \union {NoClass}, fields : SUBSET Name, inStatic : BOOLEAN]
  BY <1>1 DEF NamesInv, Values
<1>5. Values' /\ Defined' = Defined /\ (InClass' <=> InClass) /\ (found = meant)'
  BY <1>1, <1>4, NoReferenceIs DEF NamesInv, Values, Defined, IsDefined, InClass
<1>6. Open'
  <2>1. Open
    BY <1>1, OpenFacts
  <2> QED
    BY <1>3, <1>4, <1>5, <2>1 DEF Open
<1> QED
  BY <1>3, <1>5, <1>6 DEF NamesInv

LEMMA OpenBlockKeeps ==
  ASSUME NamesInv, OpenBlock
  PROVE  NamesInv'
<1>1. "block" # "method" /\ "block" # "module"
  OBVIOUS
<1>2. /\ Compiling
      /\ units' = Append(units, Unit("block", <<Local(<<"">>, -1, ids + 1)>>))
      /\ env' = env \o <<Mark("block"), [name |-> <<"">>, id |-> ids + 1]>>
      /\ ids' = ids + 1 /\ UNCHANGED <<class, moduleVars, status, caught>> /\ NoReference
  BY <1>1 DEF OpenBlock, OpenUnit
<1>3. "block" \in Kind /\ <<"">> \in Plain
  BY DEF Kind, Plain
<1>4. /\ Chain(units, ids, caught)' /\ StaticsOf(units', Defined)
      /\ units'[1].scopeDepth = units[1].scopeDepth /\ InPlace(units', env', class.name)
  BY <1>1, <1>2, <1>3, OpenedKeeps
<1>5. Values' /\ Defined' = Defined /\ (InClass' <=> InClass) /\ (found = meant)'
  BY <1>2, SameTables, NoReferenceIs
<1>6. Open'
  <2>1. Open
    BY <1>2, OpenFacts
  <2> QED
    BY <1>2, <1>4, <1>5, <2>1 DEF Open
<1> QED
  BY <1>4, <1>5, <1>6 DEF NamesInv

LEMMA OpenFunctionKeeps ==
  ASSUME NamesInv, NEW n \in Name, OpenFunction(n)
  PROVE  NamesInv'
<1>1. /\ Compiling /\ DefineModuleVar(Fn(n))
      /\ units' = Append(units, Unit("fn", <<Local(<<"">>, -1, ids + 1)>>))
      /\ env' = env \o <<Mark("fn"), [name |-> <<"">>, id |-> ids + 1]>>
      /\ ids' = ids + 1 /\ UNCHANGED <<class, caught>> /\ NoReference
  BY DEF OpenFunction
<1>2. "fn" \in Kind /\ "fn" # "module" /\ "fn" # "method" /\ <<"">> \in Plain
  BY DEF Kind, Plain
<1>3. /\ Chain(units, ids, caught)' /\ StaticsOf(units', Defined)
      /\ units'[1].scopeDepth = units[1].scopeDepth /\ InPlace(units', env', class.name)
  BY <1>1, <1>2, OpenedKeeps
<1>4. Values' /\ Defined \subseteq Defined'
  <2>1. Values /\ class' \in [name : Class \union {NoClass}, fields : SUBSET Name, inStatic : BOOLEAN]
    BY <1>1 DEF NamesInv, Values
  <2> QED
    BY <1>1, <2>1, DefineKeeps
<1>5. StaticsOf(units, Defined)'
  BY <1>3, <1>4, FewerStatics
<1>6. Open'
  <2>1. Open
    BY <1>1, OpenFacts
  <2> QED
    BY <1>1, <1>3, <1>4, <2>1 DEF Open, InClass
<1> QED
  BY <1>1, <1>3, <1>4, <1>5, <1>6, NoReferenceIs DEF NamesInv

LEMMA OpenClassKeeps ==
  ASSUME NamesInv, NEW c \in Class, OpenClass(c)
  PROVE  NamesInv'
<1>1. /\ Compiling /\ Depth = 1 /\ ~InClass /\ cu.scopeDepth = -1
      /\ class' = [name |-> c, fields |-> {}, inStatic |-> FALSE]
      /\ DefineModuleVar(<<c>>)
      /\ units' = [units EXCEPT ![1].scopeDepth = @ + 1]
      /\ env' = Append(env, Mark("class"))
      /\ UNCHANGED <<ids, caught>> /\ NoReference
  BY DEF OpenClass
<1>2. /\ Values /\ Chain(units, ids, caught) /\ Depth = Len(units) /\ cu = units[Depth]
      /\ StaticsOf(units, Defined) /\ InPlace(units, env, class.name)
  BY <1>1, OpenFacts
<1>3. Len(units) = 1 /\ units[1].scopeDepth = -1 /\ units' = Entered(units)
  BY <1>1, <1>2 DEF Entered
<1>4. /\ class' \in [name : Class \union {NoClass}, fields : SUBSET Name, inStatic : BOOLEAN]
      /\ class'.name = c
  BY <1>1
<1>5. Values' /\ Defined \subseteq Defined' /\ ((~Compiling)' \/ (~IsDefined(<<c>>) /\ IsDefined(<<c>>)'))
  BY <1>1, <1>2, <1>4, DefineKeeps
<1>6. Chain(units, ids, caught)'
  <2>1. Chain(Entered(units), ids, caught)
    BY <1>2, ChainEntered
  <2> QED
    BY <1>1, <1>3, <2>1
<1>7. /\ \A d \in 1..Depth : units'[d].localVars = units[d].localVars
      /\ \A d \in 1..Depth : units'[d].scopeDepth = IF d = Depth THEN units[d].scopeDepth + 1 ELSE units[d].scopeDepth
      /\ Len(units') = Depth /\ 1 \in 1..Depth
  BY <1>2, <1>3, EnteredIs, ChainFacts
<1>8. StaticsOf(units, Defined)'
  <2>1. StaticsOf(units', Defined)
    BY <1>2, <1>7, StaticsKept DEF IsLocal
  <2> QED
    BY <1>5, <2>1, FewerStatics
<1>9. ASSUME Compiling' PROVE Open'
  <2>1. c \notin Defined /\ c \in Defined'
    BY <1>5, <1>9 DEF Defined
  <2>2. \A j : IsLocal(units, 1, j) => \A n \in Name : units[1].localVars[j].name # Cls(c, n)
    BY <1>2, <2>1, NoStatics
  <2>3. units[Len(units)].scopeDepth >= -1 /\ ~(units[Len(units)].scopeDepth >= 0)
    BY <1>3
  <2>4. "class" = IF units[Len(units)].scopeDepth >= 0 THEN "scope"
                  ELSE IF Len(units) = 1 THEN "class" ELSE units[Len(units)].kind
    BY <1>3, <2>3
  <2>5. InPlace(Entered(units), Append(env, Mark("class")), c)
    BY <1>2, <2>2, <2>3, <2>4, InPlaceEntered
  <2>6. units'[1].scopeDepth = 0
    BY <1>2, <1>3, <1>7
  <2>7. InPlace(units', env', class'.name)
    BY <1>1, <1>3, <1>4, <2>5
  <2>8. InClass'
    BY <1>4, NamesAssumption DEF InClass, NoClass
  <2> QED
    BY <1>4, <2>1, <2>6, <2>7, <2>8 DEF Open
<1> QED
  BY <1>1, <1>5, <1>6, <1>8, <1>9, NoReferenceIs DEF NamesInv

LEMMA EndModuleKeeps ==
  ASSUME NamesInv, EndModule
  PROVE  NamesInv'
<1>1. /\ Compiling /\ status' \in {"undefined", "compiled"}
      /\ UNCHANGED <<units, class, moduleVars, env, ids, caught>> /\ NoReference
  BY DEF EndModule, said
<1>2. ~Compiling'
  <2>1. "undefined" # "compiling" /\ "compiled" # "compiling"
    OBVIOUS
  <2> QED
    BY <1>1, <2>1 DEF Compiling
<1>3. Values' /\ Defined' = Defined
  BY <1>1 DEF NamesInv, Values, Defined, IsDefined
<1> QED
  BY <1>1, <1>2, <1>3, NoReferenceIs DEF NamesInv

LEMMA AddLocalKeeps ==
  ASSUME NamesInv, Compiling, NEW name \in Plain \union Static, AddLocal(name), cu.scopeDepth >= 0,
         IF Depth = 1 THEN \E c \in Defined, n \in Name : name = Cls(c, n) ELSE name \in Plain
  PROVE  NamesInv'
<1>1. CASE Fail
  BY <1>1, FailKeeps
<1>2. CASE ~Fail
  <2>1. /\ ids' = ids + 1 /\ env' = Append(env, [name |-> name, id |-> ids + 1])
        /\ units' = [units EXCEPT ![Depth].localVars = Append(@, Local(name, cu.scopeDepth, ids + 1))]
        /\ UNCHANGED <<class, moduleVars, status, caught>> /\ NoReference
    BY <1>2 DEF AddLocal
  <2>2. /\ Open /\ Chain(units, ids, caught) /\ Depth = Len(units) /\ cu = units[Depth] /\ (Depth = 1 \/ Depth >= 2)
        /\ StaticsOf(units, Defined) /\ InPlace(units, env, class.name)
    BY OpenFacts
  <2> DEFINE vs == WithLocal(units, name, ids + 1)
             J == Len(units[Len(units)].localVars) + 1
  <2>3. units' = vs
    BY <2>1, <2>2 DEF WithLocal
  <2>4. /\ \A d \in 1..Len(units) : vs[d].scopeDepth = units[d].scopeDepth
        /\ \A d, j : IsLocal(units, d, j) => vs[d].localVars[j] = units[d].localVars[j]
        /\ \A d, j : IsLocal(vs, d, j) <=> IsLocal(units, d, j) \/ (d = Len(units) /\ j = J)
        /\ vs[Len(units)].localVars[J] = Local(name, units[Len(units)].scopeDepth, ids + 1)
    BY <2>2, WithLocalIs
  <2>5. Chain(vs, ids + 1, caught)
    <3>1. Len(units) >= 2 => name \in Plain
      BY <2>2
    <3> QED
      BY <2>2, <3>1, ChainWithLocal
  <2>6. InPlace(vs, Append(env, [name |-> name, id |-> ids + 1]), class.name)
    <3>1. units[Len(units)].scopeDepth >= 0
      BY <2>2
    <3> QED
      BY <2>2, <3>1, InPlaceWithLocal
  <2> HIDE DEF vs, J
  <2>7. StaticsOf(vs, Defined)
    <3> SUFFICES ASSUME NEW j, IsLocal(vs, 1, j)
                 PROVE  \E c \in Defined, n \in Name : vs[1].localVars[j].name = Cls(c, n)
      BY DEF StaticsOf
    <3>1. CASE IsLocal(units, 1, j)
      BY <2>2, <2>4, <3>1 DEF StaticsOf
    <3>2. CASE 1 = Len(units) /\ j = J
      <4>1. Depth = 1 /\ Depth = Len(units)
        BY <2>2, <3>2
      <4>2. vs[1].localVars[j] = Local(name, units[Len(units)].scopeDepth, ids + 1)
        BY <2>4, <3>2
      <4>3. vs[1].localVars[j].name = name
        BY <4>2 DEF Local
      <4> QED
        BY <4>1, <4>3
    <3> QED
      BY <2>4, <3>1, <3>2
  <2>8. 1 \in 1..Len(units) /\ Values' /\ Defined' = Defined /\ (InClass' <=> InClass) /\ (found = meant)'
    BY <2>1, <2>2, ChainFacts, SameTables, NoReferenceIs
  <2>9. Open'
    <3>1. units'[1].scopeDepth = units[1].scopeDepth
      BY <2>3, <2>4, <2>8
    <3> QED
      BY <2>1, <2>2, <2>3, <2>6, <2>8, <3>1 DEF Open
  <2>10. Chain(units, ids, caught)' /\ StaticsOf(units, Defined)'
    BY <2>1, <2>3, <2>5, <2>7, <2>8
  <2> QED
    BY <2>8, <2>9, <2>10 DEF NamesInv
<1> QED
  BY <1>1, <1>2

LEMMA DeclareLocalKeeps ==
  ASSUME NamesInv, ~ModuleLocals, NEW n \in Name, DeclareLocal(n)
  PROVE  NamesInv'
<1>1. Compiling /\ cu.scopeDepth >= 0 /\ Depth # 1 /\ AddLocal(<<n>>)
  BY DEF DeclareLocal
<1>2. <<n>> \in Plain
  BY DEF Plain
<1> QED
  BY <1>1, <1>2, AddLocalKeeps

LEMMA DeclareStaticKeeps ==
  ASSUME NamesInv, NEW n \in Name, DeclareStatic(n)
  PROVE  NamesInv'
<1>1. Compiling /\ Depth = 1 /\ InClass /\ AddLocal(Cls(class.name, n))
  BY DEF DeclareStatic
<1>2. Open /\ class.name \in Class /\ cu = units[Depth]
  BY <1>1, OpenFacts
<1>3. Cls(class.name, n) \in Static /\ class.name \in Defined /\ cu.scopeDepth >= 0
  BY <1>1, <1>2 DEF Static, Open
<1> QED
  BY <1>1, <1>3, AddLocalKeeps

LEMMA DeclareModuleVarKeeps ==
  ASSUME NamesInv, NEW name, DeclareModuleVar(name)
  PROVE  NamesInv'
<1>1. Compiling /\ DefineModuleVar(name) /\ UNCHANGED <<units, class, env, ids, caught>> /\ NoReference
  BY DEF DeclareModuleVar
<1>2. Values' /\ Defined \subseteq Defined'
  <2>1. Values /\ class' \in [name : Class \union {NoClass}, fields : SUBSET Name, inStatic : BOOLEAN]
    BY <1>1 DEF NamesInv, Values
  <2> QED
    BY <1>1, <2>1, DefineKeeps
<1>3. StaticsOf(units, Defined)'
  <2>1. StaticsOf(units', Defined)
    BY <1>1 DEF NamesInv
  <2> QED
    BY <1>2, <2>1, FewerStatics
<1>4. Open'
  <2>1. Open
    BY <1>1, OpenFacts
  <2> QED
    BY <1>1, <1>2, <2>1 DEF Open, InClass
<1> QED
  BY <1>1, <1>2, <1>3, <1>4, NoReferenceIs DEF NamesInv

LEMMA DeclareFieldKeeps ==
  ASSUME NamesInv, NEW n \in Name, DeclareField(n)
  PROVE  NamesInv'
<1>1. CASE Fail
  BY <1>1, FailKeeps
<1>2. CASE ~Fail
  <2>1. /\ Compiling /\ class' = [class EXCEPT !.fields = @ \union {n}]
        /\ UNCHANGED <<units, moduleVars, status, env, ids, caught>> /\ NoReference
    BY <1>2 DEF DeclareField, said
  <2>2. class'.name = class.name /\ class' \in [name : Class \union {NoClass}, fields : SUBSET Name, inStatic : BOOLEAN]
    BY <2>1 DEF NamesInv, Values
  <2>3. Values' /\ Defined' = Defined /\ (InClass' <=> InClass)
    BY <2>1, <2>2 DEF NamesInv, Values, Defined, IsDefined, InClass
  <2>4. Open'
    <3>1. Open
      BY <2>1, OpenFacts
    <3> QED
      BY <2>1, <2>2, <2>3, <3>1 DEF Open
  <2> QED
    BY <2>1, <2>3, <2>4, NoReferenceIs DEF NamesInv
<1> QED
  BY <1>1, <1>2

\* What the tables say of a name of the program is what the declarations say.
LEMMA PlainMeans ==
  ASSUME NamesInv, Compiling, NEW name \in Plain, NEW space
  PROVE  LET r == VarFromLocalOrUpvalue(name, space)
         IN  /\ r.var = Nothing => InSight(name) = {}
             /\ r.var # Nothing => /\ InSight(name) # {}
                                   /\ IdOf(r.units, r.var) = Innermost(name)
                                   /\ Referred(r.units, Innermost(name))
<1> DEFINE r == VarFromLocalOrUpvalue(name, space)
<1>1. Chain(units, ids, caught) /\ StaticsOf(units, Class) /\ InPlace(units, env, class.name)
  BY OpenFacts
<1>2. \A j : ~Named(units, name, 1, j)
  BY <1>1, NoPlainStatics
<1>3. VarFound(name, r)
  <2>1. PICK T : Sound(units, T)
    BY <1>1 DEF Chain
  <2> QED
    BY <1>2, <2>1, VarFromLocalOrUpvalueIs
<1> HIDE DEF r
<1>4. r.var = Nothing => InSight(name) = {}
  <2> SUFFICES ASSUME r.var = Nothing PROVE InSight(name) = {}
    OBVIOUS
  <2>1. \A e, i : ~Named(units, name, e, i)
    BY <1>3 DEF VarFound
  <2> QED
    BY <1>1, <2>1, InSightIs
<1>5. ASSUME r.var # Nothing
      PROVE  InSight(name) # {} /\ IdOf(r.units, r.var) = Innermost(name) /\ Referred(r.units, Innermost(name))
  <2>1. PICK e, j : /\ IsInnermost(units, name, Depth, e, j)
                    /\ IdOf(r.units, r.var) = units[e].localVars[j].id
                    /\ Referred(r.units, IdOf(r.units, r.var))
    BY <1>1, <1>3, <1>5, ReferenceIs
  <2>2. InSight(name) # {} /\ Innermost(name) = units[e].localVars[j].id
    BY <1>1, <2>1, InSightIs
  <2> QED
    BY <2>1, <2>2
<1> QED
  BY <1>4, <1>5 DEF r

\* ... and of a static field of the class around.
LEMMA StaticMeans ==
  ASSUME NamesInv, Compiling, InClass, NEW n \in Name, NEW space
  PROVE  LET name == Cls(class.name, n)
             r == VarFromLocalOrUpvalue(name, space)
             x == env[Max(Statics(name))].id
         IN  /\ r.var = Nothing => Statics(name) = {}
             /\ r.var # Nothing => Statics(name) # {} /\ IdOf(r.units, r.var) = x /\ Referred(r.units, x)
<1> DEFINE name == Cls(class.name, n)
           r == VarFromLocalOrUpvalue(name, space)
           x == env[Max(Statics(name))].id
<1>1. Chain(units, ids, caught) /\ class.name \in Class /\ InPlace(units, env, class.name)
  BY OpenFacts
<1>2. Len(name) = 3
  BY DEF Cls
<1>3. /\ Statics(name) = {} <=> \A d, j : ~Named(units, name, d, j)
      /\ \A d, j : IsInnermost(units, name, Depth, d, j) => Statics(name) # {} /\ x = units[d].localVars[j].id
  BY <1>1, StaticIs
<1> HIDE DEF name, x
<1>4. VarFound(name, r)
  <2>1. PICK T : Sound(units, T)
    BY <1>1 DEF Chain
  <2>2. Len(name) = 1 => \A i : ~Named(units, name, 1, i)
    BY <1>2
  <2> QED
    BY <2>1, <2>2, VarFromLocalOrUpvalueIs
<1> HIDE DEF r
<1>5. r.var = Nothing => Statics(name) = {}
  <2> SUFFICES ASSUME r.var = Nothing PROVE Statics(name) = {}
    OBVIOUS
  <2>1. \A e, i : ~Named(units, name, e, i)
    BY <1>4 DEF VarFound
  <2> QED
    BY <1>3, <2>1
<1>6. ASSUME r.var # Nothing
      PROVE  Statics(name) # {} /\ IdOf(r.units, r.var) = x /\ Referred(r.units, x)
  <2>1. PICK e, j : /\ IsInnermost(units, name, Depth, e, j)
                    /\ IdOf(r.units, r.var) = units[e].localVars[j].id
                    /\ Referred(r.units, IdOf(r.units, r.var))
    BY <1>1, <1>4, <1>6, ReferenceIs
  <2> QED
    BY <1>3, <2>1
<1> QED
  BY <1>5, <1>6 DEF r, name, x

LEMMA ReferredKeeps ==
  ASSUME NamesInv, Compiling, NEW us, NEW x, Referred(us, x), units' = us, caught' = Caught(x),
         UNCHANGED <<class, moduleVars, status, env, ids>>, found' = meant'
  PROVE  NamesInv'
<1>1. Open /\ StaticsOf(units, Defined) /\ InPlace(units, env, class.name)
  BY OpenFacts
<1>2. /\ Chain(units', ids, caught') /\ units'[1].scopeDepth = units[1].scopeDepth
      /\ StaticsOf(units', Defined) /\ InPlace(units', env, class.name)
  BY <1>1 DEF Referred
<1>3. Values' /\ Defined' = Defined /\ (InClass' <=> InClass)
  BY SameTables
<1>4. Open'
  BY <1>1, <1>2, <1>3 DEF Open
<1> QED
  BY <1>2, <1>3, <1>4 DEF NamesInv

\* A variable has been found: x is what the name means.
LEMMA ReferToVarKeeps ==
  ASSUME NamesInv, Compiling, NEW r, NEW n, ReferToVar(r, n), NEW x, IdOf(r.units, r.var) = x,
         Referred(r.units, x), Meaning(n) = <<"var", x>>
  PROVE  NamesInv'
<1>1. /\ units' = r.units /\ found' = <<"var", x>> /\ meant' = <<"var", x>>
      /\ caught' = (IF meant'[1] = "var" THEN Caught(meant'[2]) ELSE caught)
      /\ UNCHANGED <<class, moduleVars, status, env, ids>>
  BY DEF ReferToVar
<1>2. meant'[1] = "var" /\ meant'[2] = x
  BY <1>1
<1>3. caught' = Caught(x)
  BY <1>1, <1>2
<1> QED
  BY <1>1, <1>3, ReferredKeeps

LEMMA ReferToVariableKeeps ==
  ASSUME NamesInv, NEW n \in Name, ReferToVariable(n)
  PROVE  NamesInv'
<1>1. PICK space \in SpaceFollows : MayRefer /\ ReferToVar(VarFromLocalOrUpvalue(<<n>>, space), n)
  BY DEF ReferToVariable
<1> DEFINE r == VarFromLocalOrUpvalue(<<n>>, space)
<1>2. Compiling /\ r.var # Nothing
  BY <1>1 DEF MayRefer, ReferToVar
<1>3. <<n>> \in Plain
  BY DEF Plain
<1>4. InSight(<<n>>) # {} /\ IdOf(r.units, r.var) = Innermost(<<n>>) /\ Referred(r.units, Innermost(<<n>>))
  BY <1>2, <1>3, PlainMeans
<1>5. Meaning(n) = <<"var", Innermost(<<n>>)>>
  BY <1>4 DEF Meaning
<1> QED
  BY <1>1, <1>2, <1>4, <1>5, ReferToVarKeeps

\* A name that is no variable in sight.
LEMMA NoVariableMeans ==
  ASSUME NamesInv, Compiling, NEW n \in Name, NEW space, NoVariable(n, space)
  PROVE  InSight(<<n>>) = {}
<1>1. <<n>> \in Plain
  BY DEF Plain
<1> QED
  BY <1>1, PlainMeans DEF NoVariable

LEMMA ReferToFieldKeeps ==
  ASSUME NamesInv, NEW n \in Name, ReferToField(n)
  PROVE  NamesInv'
<1>1. PICK space \in SpaceFollows :
        /\ MayRefer /\ NoVariable(n, space) /\ InClass /\ n \in class.fields
        /\ IF class.inStatic THEN Fail
           ELSE Refer(n, <<"field", n>>) /\ UNCHANGED <<moduleVars, caught, wanted>>
  BY DEF ReferToField
<1>2. InSight(<<n>>) = {}
  BY <1>1, NoVariableMeans DEF MayRefer
<1>3. CASE class.inStatic
  BY <1>1, <1>3, FailKeeps
<1>4. CASE ~class.inStatic
  <2>1. /\ found' = <<"field", n>> /\ meant' = Meaning(n)
        /\ UNCHANGED <<units, class, moduleVars, status, env, ids, caught>>
    BY <1>1, <1>4 DEF Refer
  <2>2. Meaning(n) = <<"field", n>>
    BY <1>1, <1>2, <1>4 DEF Meaning
  <2>3. Values' /\ Defined' = Defined /\ (InClass' <=> InClass) /\ Compiling /\ Open
    BY <1>1, <2>1, SameTables, OpenFacts DEF MayRefer
  <2>4. Open'
    BY <2>1, <2>3 DEF Open
  <2> QED
    BY <2>1, <2>2, <2>3, <2>4 DEF NamesInv
<1> QED
  BY <1>3, <1>4

LEMMA ReferToStaticKeeps ==
  ASSUME NamesInv, NEW n \in Name, ReferToStatic(n)
  PROVE  NamesInv'
<1> DEFINE name == Cls(class.name, n)
           r == VarFromLocalOrUpvalue(name, FALSE)
           x == env[Max(Statics(name))].id
<1>1. PICK space \in SpaceFollows :
        MayRefer /\ NoVariable(n, space) /\ InClass /\ n \notin class.fields /\ ReferToVar(r, n)
  BY DEF ReferToStatic
<1>2. Compiling /\ r.var # Nothing
  BY <1>1 DEF MayRefer, ReferToVar
<1>3. InSight(<<n>>) = {}
  BY <1>1, <1>2, NoVariableMeans
<1>4. Statics(name) # {} /\ IdOf(r.units, r.var) = x /\ Referred(r.units, x)
  BY <1>1, <1>2, StaticMeans
<1>5. Meaning(n) = <<"var", x>>
  BY <1>1, <1>3, <1>4 DEF Meaning
<1> QED
  BY <1>1, <1>2, <1>4, <1>5, ReferToVarKeeps

LEMMA ElsewhereMeans ==
  ASSUME NamesInv, NEW n \in Name, Elsewhere(n)
  PROVE  /\ Compiling
         /\ Meaning(n) = IF InClass /\ n \in LowerCase THEN <<"method", n>> ELSE <<"module", n>>
<1>1. PICK space \in SpaceFollows :
        /\ MayRefer /\ NoVariable(n, space)
        /\ InClass => n \notin class.fields /\ VarFromLocalOrUpvalue(Cls(class.name, n), FALSE).var = Nothing
  BY DEF Elsewhere
<1>2. Compiling /\ InSight(<<n>>) = {}
  BY <1>1, NoVariableMeans DEF MayRefer
<1>3. InClass => Statics(Cls(class.name, n)) = {}
  BY <1>1, <1>2, StaticMeans
<1> QED
  BY <1>1, <1>2, <1>3 DEF Meaning

LEMMA ReferToMethodKeeps ==
  ASSUME NamesInv, NEW n \in Name, ReferToMethod(n)
  PROVE  NamesInv'
<1> DEFINE receiver == VarFromLocalOrUpvalue(this, FALSE)
           x == Innermost(this)
<1>1. /\ Elsewhere(n) /\ InClass /\ n \in LowerCase /\ receiver.var # Nothing
      /\ units' = receiver.units
      /\ found' = <<"method", n, IdOf(receiver.units, receiver.var)>>
      /\ meant' = Append(Meaning(n), x) /\ caught' = Caught(x)
      /\ UNCHANGED <<class, moduleVars, status, env, ids>>
  BY DEF ReferToMethod
<1>2. Compiling /\ Meaning(n) = <<"method", n>>
  BY <1>1, ElsewhereMeans
<1>3. this \in Plain
  BY DEF Plain
<1>4. IdOf(receiver.units, receiver.var) = x /\ Referred(receiver.units, x)
  BY <1>1, <1>2, <1>3, PlainMeans
<1> HIDE DEF receiver, x
<1>5. \A y : Append(<<"method", n>>, y) = <<"method", n, y>>
  <2> TAKE y
  <2> DEFINE s == <<"method", n>>
             t == <<"method", n, y>>
             S == {"method", n, y}
             a == Append(s, y)
  <2>1. s \in Seq(S) /\ Len(s) = 2 /\ s[1] = "method" /\ s[2] = n /\ y \in S
    OBVIOUS
  <2>2. t \in Seq(S) /\ Len(t) = 3 /\ t[1] = "method" /\ t[2] = n /\ t[3] = y
    OBVIOUS
  <2> HIDE DEF s, t, S
  <2>3. a \in Seq(S) /\ Len(a) = Len(s) + 1 /\ (\A i \in 1..Len(s) : a[i] = s[i]) /\ a[Len(s) + 1] = y
    <3>1. s \in Seq(S) /\ y \in S
      BY <2>1
    <3> QED
      BY ONLY <3>1, AppendProperties
  <2> HIDE DEF a
  <2>4. Len(a) = 3 /\ a[1] = "method" /\ a[2] = n /\ a[3] = y
    BY <2>1, <2>3
  <2>5. \A i \in 1..3 : i = 1 \/ i = 2 \/ i = 3
    OBVIOUS
  <2>6. a = t
    BY <2>2, <2>3, <2>4, <2>5, SeqEqual
  <2> QED
    BY <2>6 DEF a, s, t
<1>6. found' = meant'
  BY <1>1, <1>2, <1>4, <1>5
<1> QED
  BY <1>1, <1>2, <1>4, <1>6, ReferredKeeps

LEMMA ReferToModuleVarKeeps ==
  ASSUME NamesInv, NEW n \in Name, ReferToModuleVar(n)
  PROVE  NamesInv'
<1>1. /\ Elsewhere(n) /\ ~(InClass /\ n \in LowerCase) /\ found' = <<"module", n>> /\ meant' = Meaning(n)
      /\ UNCHANGED <<units, class, status, env, ids, caught>>
      /\ \/ moduleVars' = moduleVars
         \/ <<n>> \notin DOMAIN moduleVars /\ moduleVars' = WithValue(<<n>>, "line")
  BY DEF ReferToModuleVar, Refer
<1>2. Compiling /\ Meaning(n) = <<"module", n>>
  BY <1>1, ElsewhereMeans
<1>3. Open /\ Values
  BY <1>2, OpenFacts
<1>4. Values' /\ Defined' = Defined
  <2>1. CASE moduleVars' = moduleVars
    BY <1>1, <1>3, <2>1 DEF Values, Defined, IsDefined
  <2>2. CASE <<n>> \notin DOMAIN moduleVars /\ moduleVars' = WithValue(<<n>>, "line")
    <3>1. /\ DOMAIN moduleVars' = DOMAIN moduleVars \union {<<n>>} /\ moduleVars'[<<n>>] = "line"
          /\ \A m \in DOMAIN moduleVars : moduleVars'[m] = moduleVars[m]
      BY <2>2 DEF WithValue
    <3>2. \A m : IsDefined(m)' <=> IsDefined(m)
      <4>1. "line" # "defined"
        OBVIOUS
      <4> QED
        BY <2>2, <3>1, <4>1 DEF IsDefined
    <3>3. Defined' = Defined
      BY <3>2 DEF Defined
    <3>4. Values'
      BY <1>1, <1>3, <3>1 DEF Values
    <3> QED
      BY <3>3, <3>4
  <2> QED
    BY <1>1, <2>1, <2>2
<1>5. Open'
  BY <1>1, <1>3, <1>4 DEF Open, InClass
<1> QED
  BY <1>1, <1>2, <1>4, <1>5 DEF NamesInv

LEMMA NamesInvNext ==
  ASSUME ~ModuleLocals, NamesInv, [Next]_vars
  PROVE  NamesInv'
<1>1. ASSUME Declare PROVE NamesInv'
  <2>1. ASSUME NEW n \in Name,
               DeclareLocal(n) \/ DeclareModuleVar(<<n>>) \/ DeclareStatic(n) \/ DeclareField(n) \/ OpenFunction(n)
        PROVE  NamesInv'
    BY <2>1, DeclareLocalKeeps, DeclareModuleVarKeeps, DeclareStaticKeeps, DeclareFieldKeeps, OpenFunctionKeeps
  <2>2. ASSUME NEW c \in Class, OpenClass(c) PROVE NamesInv'
    BY <2>2, OpenClassKeeps
  <2>3. ASSUME NEW isStatic \in BOOLEAN, OpenMethod(isStatic) PROVE NamesInv'
    BY <2>3, OpenMethodKeeps
  <2>4. ASSUME EnterScope \/ LeaveScope \/ CloseClass \/ OpenBlock \/ CloseUnit \/ EndModule PROVE NamesInv'
    BY <2>4, EnterScopeKeeps, LeaveScopeKeeps, CloseClassKeeps, OpenBlockKeeps, CloseUnitKeeps, EndModuleKeeps
  <2> QED
    BY <1>1, <2>1, <2>2, <2>3, <2>4 DEF Declare
<1>2. ASSUME Reference PROVE NamesInv'
  <2>1. PICK n \in Name :
          \/ ReferToVariable(n) \/ ReferToField(n) \/ ReferToStatic(n) \/ ReferToMethod(n)
          \/ ReferToModuleVar(n) \/ CallFunction(n)
    BY <1>2 DEF Reference
  <2>2. CallFunction(n) => Fail
    BY DEF CallFunction
  <2> QED
    BY <2>1, <2>2, ReferToVariableKeeps, ReferToFieldKeeps, ReferToStaticKeeps, ReferToMethodKeeps,
       ReferToModuleVarKeeps, FailKeeps
<1>3. ASSUME UNCHANGED vars PROVE NamesInv'
  <2>1. UNCHANGED <<units, class, moduleVars, status, env, ids, caught, found, meant>>
    BY <1>3 DEF vars, said
  <2>2. Values' /\ Defined' = Defined /\ (InClass' <=> InClass) /\ (Compiling' <=> Compiling)
    BY <2>1, SameTables DEF Compiling
  <2>3. Open => Open'
    BY <2>1, <2>2 DEF Open
  <2> QED
    BY <2>1, <2>2, <2>3 DEF NamesInv
<1> QED
  BY <1>1, <1>2, <1>3 DEF Next

-----------------------------------------------------------------------------
(***************************************************************************)
(* The theorems.  Where ModuleLocals is a hypothesis, it stands for the    *)
(* programs the code mistreats: the variables of a block of the module     *)
(* itself stay in the table when the block ends.                           *)
(***************************************************************************)
LEMMA NamesInvAlways == ~ModuleLocals => (Spec => []NamesInv)
<1> SUFFICES ASSUME ~ModuleLocals PROVE Spec => []NamesInv
  OBVIOUS
<1>1. Init => NamesInv
  BY NamesInvInit
<1>2. NamesInv /\ [Next]_vars => NamesInv'
  BY NamesInvNext
<1> QED
  BY <1>1, <1>2, PTL DEF Spec

\* A reference is compiled to what the program means by the name: the innermost variable of
\* that name up to the method around, a field, a static field, a method or a module variable.
THEOREM NamesMeanTheInnermost == ~ModuleLocals => (Spec => []NamesAreLexical)
<1>1. NamesInv => NamesAreLexical
  BY DEF NamesInv, NamesAreLexical
<1> QED
  BY <1>1, NamesInvAlways, PTL

LEMMA TablesTyped == NamesInv => TypeOK
<1> SUFFICES ASSUME NamesInv PROVE TypeOK
  OBVIOUS
<1>1. Values /\ Chain(units, ids, caught)
  BY DEF NamesInv
<1>2. units \in Seq(UnitType) /\ Len(units) # 0 /\ DOMAIN units = 1..Len(units)
      /\ \A d \in 1..Len(units) : d \in Nat
  BY <1>1, ChainFacts, UnitFacts
<1>3. PICK T : Sound(units, T)
  BY <1>1 DEF Chain
<1>4. units # <<>>
  BY <1>3 DEF Sound
<1>5. ASSUME NEW d \in DOMAIN units
      PROVE  /\ (units[d].kind = "module") = (d = 1)
             /\ \A i \in DOMAIN units[d].localVars :
                  /\ units[d].localVars[i].id \in 1..ids
                  /\ d > 1 => units[d].localVars[i].scopeDepth <= units[d].scopeDepth
             /\ \A i \in DOMAIN units[d].upvalues :
                  units[d].upvalues[i].index <
                    Len(IF units[d].upvalues[i].isEnclosingLocalVar THEN units[d - 1].localVars ELSE units[d - 1].upvalues)
  <2>1. d \in 1..Len(units) /\ d \in Nat /\ (d = 1 \/ d >= 2)
    BY <1>2
  <2>2. DOMAIN units[d].localVars = 1..Len(units[d].localVars) /\ DOMAIN units[d].upvalues = 1..Len(units[d].upvalues)
    BY <1>2, <2>1, UnitFacts
  <2>3. (units[d].kind = "module") = (d = 1)
    BY <1>1, <2>1 DEF Chain, ShapeOK
  <2>4. ASSUME NEW i \in DOMAIN units[d].localVars
        PROVE  units[d].localVars[i].id \in 1..ids /\ (d > 1 => units[d].localVars[i].scopeDepth <= units[d].scopeDepth)
    <3>1. i \in 1..Len(units[d].localVars) /\ IsLocal(units, d, i)
      BY <2>1, <2>2 DEF IsLocal
    <3>2. units[d].localVars[i].id \in 1..ids
      BY <1>1, <3>1 DEF Chain, IdsOK
    <3>3. d > 1 => units[d].localVars[i].scopeDepth <= units[d].scopeDepth
      BY <1>1, <2>1, <3>1 DEF Chain, ShapeOK, InnerOK
    <3> QED
      BY <3>2, <3>3
  <2>5. ASSUME NEW i \in DOMAIN units[d].upvalues
        PROVE  units[d].upvalues[i].index <
                 Len(IF units[d].upvalues[i].isEnclosingLocalVar THEN units[d - 1].localVars ELSE units[d - 1].upvalues)
    <3>1. i \in 1..Len(units[d].upvalues)
      BY <2>2
    <3>2. d # 1
      <4> SUFFICES ASSUME d = 1 PROVE FALSE
        OBVIOUS
      <4>1. Len(units[1].upvalues) = 0
        BY <1>3 DEF Sound, UpvaluesInBounds
      <4> QED
        BY <3>1, <4>1
    <3>3. d \in 2..Len(units)
      BY <2>1, <3>2
    <3>4. units[d].upvalues[i].index <
            (IF units[d].upvalues[i].isEnclosingLocalVar THEN Len(units[d - 1].localVars) ELSE Len(units[d - 1].upvalues))
      BY <1>3, <3>1, <3>3 DEF Sound, UpvaluesInBounds
    <3> QED
      BY <3>4
  <2> QED
    BY <2>3, <2>4, <2>5
<1> QED
  BY <1>1, <1>4, <1>5 DEF Values, TypeOK

\* Each unit has one way to each variable it uses, whose mark makes the end of its block
\* close the upvalue; no index points outside a table.
THEOREM UpvalueTablesAreRight == ~ModuleLocals => (Spec => []UpvalueTablesOK)
<1>1. ASSUME NamesInv PROVE UpvaluesAreDistinct
  <2>1. Chain(units, ids, caught) /\ Depth = Len(units)
    BY <1>1 DEF NamesInv, Depth
  <2>2. PICK T : Sound(units, T)
    BY <2>1 DEF Chain
  <2>3. units \in Seq(UnitType) /\ Len(units) \in Nat
    BY <2>1, ChainFacts
  <2>4. ASSUME NEW d \in 2..Depth, NEW i \in DOMAIN units[d].upvalues, NEW j \in DOMAIN units[d].upvalues, i # j
        PROVE  Denotes(units, d, i - 1) # Denotes(units, d, j - 1)
    <3>1. d \in 0..Len(units) /\ d \in 1..Len(units)
      BY <2>1, <2>3
    <3>2. DOMAIN units[d].upvalues = 1..Len(units[d].upvalues) /\ Len(units[d].upvalues) \in Nat
      BY <2>3, <3>1, UnitFacts
    <3>3. T[d][i] # T[d][j]
      BY <2>2, <2>4, <3>1, <3>2 DEF Sound, Distinct
    <3>4. (i - 1) + 1 = i /\ (j - 1) + 1 = j
      BY <3>2
    <3>5. IsTable(T, units)
      BY <2>2 DEF Sound
    <3>6. \A m : Denotes(units, d, m) = T[d][m + 1]
      BY <2>3, <3>1, <3>5, DenotesIs
    <3> QED
      BY <3>3, <3>4, <3>6
  <2> QED
    BY <2>4 DEF UpvaluesAreDistinct
<1>2. ASSUME NamesInv PROVE CapturedAreMarked
  <2>1. Chain(units, ids, caught)
    BY <1>2 DEF NamesInv
  <2>2. \A d \in DOMAIN units : d \in 1..Len(units) /\ DOMAIN units[d].localVars = 1..Len(units[d].localVars)
    BY <2>1, ChainFacts, UnitFacts
  <2>3. \A d \in DOMAIN units : \A i \in DOMAIN units[d].localVars : IsLocal(units, d, i)
    BY <2>2 DEF IsLocal
  <2> QED
    BY <2>1, <2>3 DEF Chain, IdsOK, CapturedAreMarked
<1>3. NamesInv => UpvalueTablesOK
  BY <1>1, <1>2, TablesTyped DEF UpvalueTablesOK
<1> QED
  BY <1>3, NamesInvAlways, PTL

-----------------------------------------------------------------------------
(***************************************************************************)
(* The variables of the module.  A name that is used before its definition *)
(* is in the table with a line number, until it is defined.                *)
(***************************************************************************)
Waiting ==
  /\ \A m : IsDefined(m) <=> m \in declared
  /\ \A m \in DOMAIN moduleVars : IsDefined(m) \/ (moduleVars[m] = "line" /\ \E n \in wanted : m = <<n>>)
  /\ \A n \in wanted : <<n>> \in DOMAIN moduleVars \/ Fn(n) \in DOMAIN moduleVars

\* What has ended stays as it is.
ForwardInv ==
  /\ status \in {"compiling", "error", "undefined", "compiled"}
  /\ Waiting /\ ForwardReferencesAreDefined

LEMMA WaitingKept ==
  ASSUME ForwardInv, Compiling, UNCHANGED <<moduleVars, wanted, declared>>, status' \in {status, "error"}
  PROVE  ForwardInv'
<1>1. status' \in {"compiling", "error"}
  BY DEF Compiling
<1>2. status' # "undefined" /\ status' # "compiled"
  BY <1>1
<1>3. ForwardReferencesAreDefined'
  BY <1>2 DEF ForwardReferencesAreDefined
<1>4. Waiting'
  BY DEF ForwardInv, Waiting, IsDefined
<1> QED
  BY <1>1, <1>3, <1>4 DEF ForwardInv

\* A definition takes the place of a line number.
LEMMA WaitingDefined ==
  ASSUME ForwardInv, Compiling, NEW name, DefineModuleVar(name), wanted' = wanted
  PROVE  ForwardInv'
<1>1. CASE IsDefined(name)
  BY <1>1, WaitingKept DEF DefineModuleVar, IsDefined
<1>2. CASE ~IsDefined(name)
  <2>1. /\ status' = "compiling" /\ moduleVars' = WithValue(name, "defined") /\ declared' = declared \union {name}
    BY <1>2 DEF DefineModuleVar, IsDefined, Compiling
  <2>2. /\ DOMAIN moduleVars' = DOMAIN moduleVars \union {name} /\ moduleVars'[name] = "defined"
        /\ \A m \in DOMAIN moduleVars : m # name => moduleVars'[m] = moduleVars[m]
    BY <2>1 DEF WithValue
  <2>3. \A m : IsDefined(m)' <=> IsDefined(m) \/ m = name
    BY <1>2, <2>2 DEF IsDefined
  <2>4. Waiting
    BY DEF ForwardInv
  <2>5. \A m : IsDefined(m)' <=> m \in declared'
    BY <2>1, <2>3, <2>4 DEF Waiting
  <2>6. ASSUME NEW m \in DOMAIN moduleVars'
        PROVE  IsDefined(m)' \/ (moduleVars'[m] = "line" /\ \E n \in wanted' : m = <<n>>)
    <3>1. CASE m = name
      BY <2>3, <3>1
    <3>2. CASE m # name
      <4>1. m \in DOMAIN moduleVars /\ moduleVars'[m] = moduleVars[m]
        BY <2>2, <3>2
      <4>2. IsDefined(m) \/ (moduleVars[m] = "line" /\ \E n \in wanted : m = <<n>>)
        BY <2>4, <4>1 DEF Waiting
      <4> QED
        BY <2>3, <4>1, <4>2
    <3> QED
      BY <3>1, <3>2
  <2>7. \A n \in wanted' : <<n>> \in DOMAIN moduleVars' \/ Fn(n) \in DOMAIN moduleVars'
    BY <2>2, <2>4 DEF Waiting
  <2>8. Waiting'
    BY <2>5, <2>6, <2>7 DEF Waiting
  <2>9. ForwardReferencesAreDefined'
    <3>1. "compiling" # "compiled" /\ "compiling" # "undefined"
      OBVIOUS
    <3> QED
      BY <2>1, <3>1 DEF ForwardReferencesAreDefined
  <2> QED
    BY <2>1, <2>8, <2>9 DEF ForwardInv
<1> QED
  BY <1>1, <1>2

\* A name that is neither a variable nor a function yet gets a line number.
LEMMA WaitingReferred ==
  ASSUME ForwardInv, NEW n \in Name, ReferToModuleVar(n)
  PROVE  ForwardInv'
<1>1. /\ Compiling /\ status' = status /\ wanted' = wanted \union {n} /\ declared' = declared
      /\ moduleVars' = IF <<n>> \in DOMAIN moduleVars \/ Fn(n) \in DOMAIN moduleVars THEN moduleVars
                       ELSE WithValue(<<n>>, "line")
  BY DEF ReferToModuleVar, Elsewhere, MayRefer, Refer
<1>2. Waiting /\ status' = "compiling"
  BY <1>1 DEF ForwardInv, Compiling
<1>3. Waiting'
  <2>1. CASE <<n>> \in DOMAIN moduleVars \/ Fn(n) \in DOMAIN moduleVars
    BY <1>1, <1>2, <2>1 DEF Waiting, IsDefined
  <2>2. CASE ~(<<n>> \in DOMAIN moduleVars \/ Fn(n) \in DOMAIN moduleVars)
    <3>1. /\ DOMAIN moduleVars' = DOMAIN moduleVars \union {<<n>>} /\ moduleVars'[<<n>>] = "line"
          /\ \A m \in DOMAIN moduleVars : m # <<n>> => moduleVars'[m] = moduleVars[m]
      BY <1>1, <2>2 DEF WithValue
    <3>2. \A m : IsDefined(m)' <=> IsDefined(m)
      <4>1. "line" # "defined"
        OBVIOUS
      <4> QED
        BY <2>2, <3>1, <4>1 DEF IsDefined
    <3>3. ASSUME NEW m \in DOMAIN moduleVars'
          PROVE  IsDefined(m)' \/ (moduleVars'[m] = "line" /\ \E k \in wanted' : m = <<k>>)
      <4>1. CASE m = <<n>>
        BY <1>1, <3>1, <4>1
      <4>2. CASE m # <<n>>
        <5>1. m \in DOMAIN moduleVars /\ moduleVars'[m] = moduleVars[m]
          BY <3>1, <4>2
        <5>2. IsDefined(m) \/ (moduleVars[m] = "line" /\ \E k \in wanted : m = <<k>>)
          BY <1>2, <5>1 DEF Waiting
        <5> QED
          BY <1>1, <3>2, <5>1, <5>2
      <4> QED
        BY <4>1, <4>2
    <3> QED
      BY <1>1, <1>2, <3>1, <3>2, <3>3 DEF Waiting
  <2> QED
    BY <2>1, <2>2
<1>4. ForwardReferencesAreDefined'
  <2>1. "compiling" # "compiled" /\ "compiling" # "undefined"
    OBVIOUS
  <2> QED
    BY <1>2, <2>1 DEF ForwardReferencesAreDefined
<1> QED
  BY <1>2, <1>3, <1>4 DEF ForwardInv

\* The end of the module finds the line numbers that are left.
LEMMA WaitingEnded ==
  ASSUME ForwardInv, EndModule
  PROVE  ForwardInv'
<1>1. /\ UNCHANGED <<moduleVars, wanted, declared>>
      /\ status' = IF \E n \in DOMAIN moduleVars : moduleVars[n] = "line" THEN "undefined" ELSE "compiled"
  BY DEF EndModule, said
<1>2. Waiting /\ Waiting'
  BY <1>1 DEF ForwardInv, Waiting, IsDefined
<1>3. CASE \E n \in DOMAIN moduleVars : moduleVars[n] = "line"
  <2>1. PICK m \in DOMAIN moduleVars : moduleVars[m] = "line"
    BY <1>3
  <2>2. "line" # "defined" /\ "undefined" # "compiled"
    OBVIOUS
  <2>3. ~IsDefined(m)
    BY <2>1, <2>2 DEF IsDefined
  <2>4. PICK n \in wanted : m = <<n>>
    BY <1>2, <2>1, <2>3 DEF Waiting
  <2>5. <<n>> \notin declared
    BY <1>2, <2>3, <2>4 DEF Waiting
  <2>6. status' = "undefined"
    BY <1>1, <1>3
  <2>7. ForwardReferencesAreDefined'
    BY <1>1, <2>2, <2>5, <2>6 DEF ForwardReferencesAreDefined
  <2> QED
    BY <1>2, <2>6, <2>7 DEF ForwardInv
<1>4. CASE ~\E n \in DOMAIN moduleVars : moduleVars[n] = "line"
  <2>1. status' = "compiled" /\ "undefined" # "compiled"
    BY <1>1, <1>4
  <2>2. \A m \in DOMAIN moduleVars : m \in declared
    BY <1>2, <1>4 DEF Waiting
  <2>3. \A n \in wanted : {<<n>>, Fn(n)} \intersect declared # {}
    <3> TAKE n \in wanted
    <3>1. <<n>> \in declared \/ Fn(n) \in declared
      BY <1>2, <2>2 DEF Waiting
    <3> QED
      BY <3>1
  <2>4. ForwardReferencesAreDefined'
    BY <1>1, <2>1, <2>3 DEF ForwardReferencesAreDefined
  <2> QED
    BY <1>2, <2>1, <2>4 DEF ForwardInv
<1> QED
  BY <1>3, <1>4

LEMMA ForwardInvNext ==
  ASSUME ForwardInv, [Next]_vars
  PROVE  ForwardInv'
<1> DEFINE Stays == Compiling /\ UNCHANGED <<moduleVars, wanted, declared>> /\ status' \in {status, "error"}
<1>1. Compiling /\ Fail => Stays
  BY DEF Fail, said
<1>2. \A name : Compiling /\ AddLocal(name) => Stays
  BY <1>1 DEF AddLocal
<1>3. ASSUME Declare PROVE ForwardInv'
  <2>1. ASSUME NEW n \in Name, DeclareLocal(n) \/ DeclareStatic(n) \/ DeclareField(n) PROVE Stays
    <3>1. CASE DeclareLocal(n)
      BY <1>2, <3>1 DEF DeclareLocal
    <3>2. CASE DeclareStatic(n)
      BY <1>2, <3>2 DEF DeclareStatic
    <3>3. CASE DeclareField(n)
      BY <1>1, <3>3 DEF DeclareField, said
    <3> QED
      BY <2>1, <3>1, <3>2, <3>3
  <2>2. ASSUME NEW n \in Name, DeclareModuleVar(<<n>>) \/ OpenFunction(n) PROVE ForwardInv'
    BY <2>2, WaitingDefined DEF DeclareModuleVar, OpenFunction
  <2>3. ASSUME NEW c \in Class, OpenClass(c) PROVE ForwardInv'
    BY <2>3, WaitingDefined DEF OpenClass
  <2>4. ASSUME NEW isStatic \in BOOLEAN, OpenMethod(isStatic) PROVE Stays
    BY <2>4 DEF OpenMethod, OpenUnit
  <2>5. ASSUME EnterScope \/ LeaveScope \/ CloseClass \/ OpenBlock \/ CloseUnit PROVE Stays
    BY <2>5 DEF EnterScope, LeaveScope, CloseClass, OpenBlock, OpenUnit, CloseUnit
  <2>6. Stays => ForwardInv'
    BY WaitingKept
  <2> HIDE DEF Stays
  <2> QED
    BY <1>3, <2>1, <2>2, <2>3, <2>4, <2>5, <2>6, WaitingEnded DEF Declare
<1>4. ASSUME Reference PROVE ForwardInv'
  <2>1. PICK n \in Name :
          \/ ReferToVariable(n) \/ ReferToField(n) \/ ReferToStatic(n) \/ ReferToMethod(n)
          \/ ReferToModuleVar(n) \/ CallFunction(n)
    BY <1>4 DEF Reference
  <2>2. ReferToVariable(n) => Stays
    BY DEF ReferToVariable, ReferToVar, MayRefer
  <2>3. ReferToField(n) => Stays
    BY <1>1 DEF ReferToField, Refer, MayRefer
  <2>4. ReferToStatic(n) => Stays
    BY DEF ReferToStatic, ReferToVar, MayRefer
  <2>5. ReferToMethod(n) => Stays
    BY DEF ReferToMethod, Elsewhere, MayRefer
  <2>6. CallFunction(n) => Stays
    BY <1>1 DEF CallFunction
  <2>7. Stays => ForwardInv'
    BY WaitingKept
  <2> HIDE DEF Stays
  <2> QED
    BY <2>1, <2>2, <2>3, <2>4, <2>5, <2>6, <2>7, WaitingReferred
<1>5. ASSUME UNCHANGED vars PROVE ForwardInv'
  BY <1>5 DEF vars, said, ForwardInv, Waiting, IsDefined, ForwardReferencesAreDefined
<1> QED
  BY <1>3, <1>4, <1>5 DEF Next

\* A module that compiles declares each variable it uses, before the use or after it; one
\* that is refused at its end uses a variable it does not declare.
THEOREM UsesAreDeclared == Spec => []ForwardReferencesAreDefined
<1>1. Init => ForwardInv
  <2> SUFFICES ASSUME Init PROVE ForwardInv
    OBVIOUS
  <2>1. moduleVars = [n \in {} |-> ""] /\ status = "compiling" /\ wanted = {} /\ declared = {}
    BY DEF Init
  <2>2. DOMAIN moduleVars = {} /\ "compiling" # "compiled" /\ "compiling" # "undefined"
    BY <2>1
  <2> QED
    BY <2>1, <2>2 DEF ForwardInv, Waiting, IsDefined, ForwardReferencesAreDefined
<1>2. ForwardInv /\ [Next]_vars => ForwardInv'
  BY ForwardInvNext
<1>3. ForwardInv => ForwardReferencesAreDefined
  BY DEF ForwardInv
<1> QED
  BY <1>1, <1>2, <1>3, PTL DEF Spec

=============================================================================
