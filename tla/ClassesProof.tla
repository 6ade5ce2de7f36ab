---------------------------- MODULE ClassesProof ----------------------------
(***************************************************************************)
(* For any number of classes and members: calls, fields and definitions    *)
(* are those of the hierarchy the program writes down, although classes    *)
(* copy the tables of their base classes and share corrected code.         *)
(***************************************************************************)
EXTENDS Classes, Induction, SequenceTheorems, FiniteSetTheorems, TLAPS

-----------------------------------------------------------------------------
(***************************************************************************)
(* The hierarchy.  Each class up to K has a base class before it.          *)
(***************************************************************************)
Rooted(K) == \A c \in 1..K : said[c].superClass \in 0..(c - 1)

AncestorsBy(f, c) == f = [d \in 0..c |-> IF d = 0 THEN {} ELSE {d} \cup f[said[d].superClass]]

LEMMA AncestorsExist ==
  ASSUME NEW K \in Nat, Rooted(K)
  PROVE  \E f \in [0..K -> SUBSET (1..K)] : AncestorsBy(f, K)
<1> DEFINE S == {n \in 0..K : \E f \in [0..n -> SUBSET (1..K)] : AncestorsBy(f, n)}
<1>1. 0 \in S
  <2> DEFINE f == [d \in 0..0 |-> {}]
  <2>1. f \in [0..0 -> SUBSET (1..K)] /\ AncestorsBy(f, 0)
    BY DEF AncestorsBy
  <2> QED
    BY <2>1
<1>2. ASSUME NEW n \in 0..(K - 1), n \in S PROVE n + 1 \in S
  <2>1. PICK f \in [0..n -> SUBSET (1..K)] : AncestorsBy(f, n)
    BY <1>2
  <2> DEFINE s == said[n + 1].superClass
             g == [d \in 0..(n + 1) |-> IF d = n + 1 THEN {n + 1} \cup f[s] ELSE f[d]]
  <2>2. n + 1 \in 1..K /\ s \in 0..n /\ n \in Nat
    BY DEF Rooted
  <2>3. g \in [0..(n + 1) -> SUBSET (1..K)]
    BY <2>2
  <2>4. \A d \in 0..(n + 1) : g[d] = IF d = 0 THEN {} ELSE {d} \cup g[said[d].superClass]
    <3> SUFFICES ASSUME NEW d \in 0..(n + 1) PROVE g[d] = IF d = 0 THEN {} ELSE {d} \cup g[said[d].superClass]
      OBVIOUS
    <3>1. CASE d = n + 1
      <4>1. s \in 0..(n + 1) /\ s # n + 1 /\ g[s] = f[s]
        BY <2>2
      <4> QED
        BY <2>2, <3>1, <4>1
    <3>2. CASE d # n + 1
      <4>1. d \in 0..n /\ g[d] = f[d]
        BY <2>2, <3>2
      <4>2. f[d] = IF d = 0 THEN {} ELSE {d} \cup f[said[d].superClass]
        BY <2>1, <4>1 DEF AncestorsBy
      <4>3. d # 0 => said[d].superClass \in 0..n /\ g[said[d].superClass] = f[said[d].superClass]
        <5>1. d # 0 => d \in 1..K /\ said[d].superClass \in 0..(d - 1)
          BY <2>2, <4>1 DEF Rooted
        <5>2. \A x \in 0..n : x \in 0..(n + 1) /\ x # n + 1
          BY <2>2
        <5> QED
          BY <4>1, <5>1, <5>2
      <4> HIDE DEF g
      <4> QED
        BY <4>1, <4>2, <4>3
    <3> QED
      BY <3>1, <3>2
  <2> HIDE DEF g
  <2>5. AncestorsBy(g, n + 1)
    BY <2>3, <2>4 DEF AncestorsBy
  <2> QED
    BY <2>2, <2>3, <2>5
<1>3. 0..K \subseteq S
  <2> HIDE DEF S
  <2> QED
    BY <1>1, <1>2, InductionUpTo
<1> QED
  BY <1>3

\* Functions for more or fewer classes agree.
LEMMA AncestorsAgree ==
  ASSUME NEW K \in Nat, Rooted(K), NEW c \in 0..K, NEW b \in 0..c, NEW f, AncestorsBy(f, c), NEW g, AncestorsBy(g, b)
  PROVE  \A d \in 0..b : f[d] = g[d]
<1> DEFINE S == {n \in 0..b : \A d \in 0..n : f[d] = g[d]}
<1>a. /\ \A d \in 0..c : f[d] = IF d = 0 THEN {} ELSE {d} \cup f[said[d].superClass]
      /\ \A d \in 0..b : g[d] = IF d = 0 THEN {} ELSE {d} \cup g[said[d].superClass]
  BY DEF AncestorsBy
<1>1. 0 \in S
  <2>1. \A d \in 0..0 : d = 0
    OBVIOUS
  <2>2. 0 \in 0..b /\ 0 \in 0..c
    OBVIOUS
  <2>3. f[0] = {} /\ g[0] = {}
    BY <1>a, <2>2
  <2> QED
    BY <2>1, <2>2, <2>3
<1>2. ASSUME NEW n \in 0..(b - 1), n \in S PROVE n + 1 \in S
  <2>1. \A d \in 0..n : f[d] = g[d]
    BY <1>2
  <2>2. n + 1 \in 1..b /\ n + 1 \in 0..b /\ n + 1 \in 0..c /\ n + 1 # 0 /\ said[n + 1].superClass \in 0..n
    BY DEF Rooted
  <2>3. f[n + 1] = g[n + 1]
    BY <1>a, <2>1, <2>2
  <2>4. \A d \in 0..(n + 1) : d = n + 1 \/ d \in 0..n
    BY <1>2
  <2> QED
    BY <2>1, <2>2, <2>3, <2>4
<1>3. 0..b \subseteq S
  <2> HIDE DEF S
  <2> QED
    BY <1>1, <1>2, InductionUpTo
<1> QED
  BY <1>3
\* The base classes of a class are those of its base class, and itself.
LEMMA AncestorsAre ==
  ASSUME NEW K \in Nat, Rooted(K), NEW c \in 0..K
  PROVE  /\ Ancestors(c) \subseteq 1..c
         /\ Ancestors(0) = {}
         /\ c # 0 => Ancestors(c) = {c} \cup Ancestors(said[c].superClass)
<1>1. ASSUME NEW b \in 0..K
      PROVE  \E f \in [0..b -> SUBSET (1..b)] : AncestorsBy(f, b) /\ Ancestors(b) = f[b]
  <2> DEFINE Body(f) == [d \in 0..b |-> IF d = 0 THEN {} ELSE {d} \cup f[said[d].superClass]]
             anc == CHOOSE f : f = Body(f)
  <2>1. Rooted(b) /\ b \in Nat
    BY DEF Rooted
  <2>2. PICK g \in [0..b -> SUBSET (1..b)] : AncestorsBy(g, b)
    BY <2>1, AncestorsExist
  <2>3. g = Body(g)
    BY <2>2 DEF AncestorsBy
  <2>4. anc = Body(anc)
    BY <2>3
  <2>5. Ancestors(b) = anc[b]
    BY DEF Ancestors
  <2> HIDE DEF anc
  <2>6. AncestorsBy(anc, b)
    BY <2>4 DEF AncestorsBy
  <2>7. \A d \in 0..b : anc[d] = g[d]
    BY <2>1, <2>2, <2>6, AncestorsAgree
  <2>8. g[b] = anc[b]
    BY <2>1, <2>7
  <2> QED
    BY <2>2, <2>5, <2>8
<1>2. PICK f \in [0..c -> SUBSET (1..c)] : AncestorsBy(f, c) /\ Ancestors(c) = f[c]
  BY <1>1
<1>3. Ancestors(c) \subseteq 1..c
  BY <1>2
<1>4. Ancestors(0) = {}
  <2>1. 0 \in 0..K
    OBVIOUS
  <2>2. PICK g \in [0..0 -> SUBSET (1..0)] : AncestorsBy(g, 0) /\ Ancestors(0) = g[0]
    BY <1>1, <2>1
  <2> QED
    BY <2>2 DEF AncestorsBy
<1>5. ASSUME c # 0 PROVE Ancestors(c) = {c} \cup Ancestors(said[c].superClass)
  <2> DEFINE s == said[c].superClass
  <2>1. c \in 1..K /\ s \in 0..(c - 1) /\ s \in 0..K /\ s \in 0..c /\ c \in 0..c
    BY <1>5 DEF Rooted
  <2>2. PICK g \in [0..s -> SUBSET (1..s)] : AncestorsBy(g, s) /\ Ancestors(s) = g[s]
    BY <1>1, <2>1
  <2>3. f[s] = g[s]
    <3>1. \A d \in 0..s : f[d] = g[d]
      BY <1>2, <2>1, <2>2, AncestorsAgree
    <3> QED
      BY <2>1, <3>1
  <2>4. f[c] = {c} \cup f[s]
    BY <1>2, <1>5, <2>1 DEF AncestorsBy
  <2> QED
    BY <1>2, <2>2, <2>3, <2>4
<1> QED
  BY <1>3, <1>4, <1>5

OffsetBy(f, c) ==
  f = [d \in 0..c |-> IF d = 0 \/ said[d].superClass = 0 THEN 0
                      ELSE f[said[d].superClass] + said[said[d].superClass].fields]

LEMMA OffsetExists ==
  ASSUME NEW K \in Nat, Rooted(K), \A c \in 1..K : said[c].fields \in Nat
  PROVE  \E f \in [0..K -> Nat] : OffsetBy(f, K)
<1> DEFINE S == {n \in 0..K : \E f \in [0..n -> Nat] : OffsetBy(f, n)}
<1>1. 0 \in S
  <2> DEFINE f == [d \in 0..0 |-> 0]
  <2>1. f \in [0..0 -> Nat] /\ OffsetBy(f, 0)
    BY DEF OffsetBy
  <2> QED
    BY <2>1
<1>2. ASSUME NEW n \in 0..(K - 1), n \in S PROVE n + 1 \in S
  <2>1. PICK f \in [0..n -> Nat] : OffsetBy(f, n)
    BY <1>2
  <2> DEFINE s == said[n + 1].superClass
             o == IF s = 0 THEN 0 ELSE f[s] + said[s].fields
             g == [d \in 0..(n + 1) |-> IF d = n + 1 THEN o ELSE f[d]]
             Value(h, d) == IF d = 0 \/ said[d].superClass = 0 THEN 0
                            ELSE h[said[d].superClass] + said[said[d].superClass].fields
  <2>2. n + 1 \in 1..K /\ s \in 0..n /\ n \in Nat
    BY DEF Rooted
  <2>3. o \in Nat
    <3>1. s # 0 => s \in 1..K /\ f[s] \in Nat
      BY <2>2
    <3> QED
      BY <3>1
  <2>4. g \in [0..(n + 1) -> Nat] /\ (\A d \in 0..n : g[d] = f[d]) /\ g[n + 1] = o
    BY <2>2, <2>3
  <2> HIDE DEF g
  <2>5. \A d \in 0..(n + 1) : g[d] = Value(g, d)
    <3> SUFFICES ASSUME NEW d \in 0..(n + 1) PROVE g[d] = Value(g, d)
      OBVIOUS
    <3>1. CASE d = n + 1
      <4>1. g[s] = f[s]
        BY <2>2, <2>4
      <4> QED
        BY <2>2, <2>4, <3>1, <4>1
    <3>2. CASE d # n + 1
      <4>1. d \in 0..n /\ g[d] = f[d]
        BY <2>2, <2>4, <3>2
      <4>2. f[d] = Value(f, d)
        BY <2>1, <4>1 DEF OffsetBy
      <4>3. d # 0 => g[said[d].superClass] = f[said[d].superClass]
        <5>1. d # 0 => d \in 1..K /\ said[d].superClass \in 0..(d - 1)
          BY <2>2, <4>1 DEF Rooted
        <5>2. d # 0 => said[d].superClass \in 0..n
          BY <2>2, <4>1, <5>1
        <5> QED
          BY <2>4, <5>2
      <4> QED
        BY <4>1, <4>2, <4>3
    <3> QED
      BY <3>1, <3>2
  <2>6. OffsetBy(g, n + 1)
    BY <2>4, <2>5 DEF OffsetBy
  <2> QED
    BY <2>2, <2>4, <2>6
<1>3. 0..K \subseteq S
  <2> HIDE DEF S
  <2> QED
    BY <1>1, <1>2, InductionUpTo
<1> QED
  BY <1>3

LEMMA OffsetsAgree ==
  ASSUME NEW K \in Nat, Rooted(K), NEW c \in 0..K, NEW b \in 0..c, NEW f, OffsetBy(f, c), NEW g, OffsetBy(g, b)
  PROVE  \A d \in 0..b : f[d] = g[d]
<1> DEFINE S == {n \in 0..b : \A d \in 0..n : f[d] = g[d]}
           Value(h, d) == IF d = 0 \/ said[d].superClass = 0 THEN 0
                          ELSE h[said[d].superClass] + said[said[d].superClass].fields
<1>a. (\A d \in 0..c : f[d] = Value(f, d)) /\ (\A d \in 0..b : g[d] = Value(g, d))
  BY DEF OffsetBy
<1>1. 0 \in S
  <2>1. \A d \in 0..0 : d = 0
    OBVIOUS
  <2>2. 0 \in 0..b /\ 0 \in 0..c
    OBVIOUS
  <2>3. f[0] = 0 /\ g[0] = 0
    BY <1>a, <2>2
  <2> QED
    BY <2>1, <2>2, <2>3
<1>2. ASSUME NEW n \in 0..(b - 1), n \in S PROVE n + 1 \in S
  <2>1. \A d \in 0..n : f[d] = g[d]
    BY <1>2
  <2>2. n + 1 \in 1..b /\ n + 1 \in 0..b /\ n + 1 \in 0..c /\ n + 1 # 0 /\ said[n + 1].superClass \in 0..n
    BY DEF Rooted
  <2>3. f[n + 1] = g[n + 1]
    <3>1. f[n + 1] = Value(f, n + 1) /\ g[n + 1] = Value(g, n + 1)
      BY <1>a, <2>2
    <3>2. f[said[n + 1].superClass] = g[said[n + 1].superClass]
      BY <2>1, <2>2
    <3> QED
      BY <3>1, <3>2
  <2>4. \A d \in 0..(n + 1) : d = n + 1 \/ d \in 0..n
    BY <1>2
  <2> QED
    BY <2>1, <2>2, <2>3, <2>4
<1>3. 0..b \subseteq S
  <2> HIDE DEF S
  <2> QED
    BY <1>1, <1>2, InductionUpTo
<1> QED
  BY <1>3

\* The first field of a class comes after those of its base class.
LEMMA OffsetIs ==
  ASSUME NEW K \in Nat, Rooted(K), \A d \in 1..K : said[d].fields \in Nat, NEW c \in 1..K
  PROVE  Offset(c) = IF said[c].superClass = 0 THEN 0
                     ELSE Offset(said[c].superClass) + said[said[c].superClass].fields
<1>1. ASSUME NEW b \in 0..K
      PROVE  \E f \in [0..b -> Nat] : OffsetBy(f, b) /\ Offset(b) = f[b]
  <2> DEFINE Body(f) == [d \in 0..b |-> IF d = 0 \/ said[d].superClass = 0 THEN 0
                                        ELSE f[said[d].superClass] + said[said[d].superClass].fields]
             off == CHOOSE f : f = Body(f)
  <2>1. Rooted(b) /\ b \in Nat /\ \A d \in 1..b : said[d].fields \in Nat
    BY DEF Rooted
  <2>2. PICK g \in [0..b -> Nat] : OffsetBy(g, b)
    BY <2>1, OffsetExists
  <2>3. g = Body(g)
    BY <2>2 DEF OffsetBy
  <2>4. off = Body(off)
    BY <2>3
  <2>5. Offset(b) = off[b]
    BY DEF Offset
  <2> HIDE DEF off
  <2>6. OffsetBy(off, b)
    BY <2>4 DEF OffsetBy
  <2>7. \A d \in 0..b : off[d] = g[d]
    BY <2>1, <2>2, <2>6, OffsetsAgree
  <2>8. g[b] = off[b]
    BY <2>1, <2>7
  <2> QED
    BY <2>2, <2>5, <2>8
<1> DEFINE s == said[c].superClass
<1>2. c \in 0..K /\ c # 0 /\ s \in 0..(c - 1) /\ s \in 0..K /\ s \in 0..c /\ c \in 0..c
  BY DEF Rooted
<1>3. PICK f \in [0..c -> Nat] : OffsetBy(f, c) /\ Offset(c) = f[c]
  BY <1>1, <1>2
<1>4. PICK g \in [0..s -> Nat] : OffsetBy(g, s) /\ Offset(s) = g[s]
  BY <1>1, <1>2
<1>5. f[s] = g[s]
  <2> HIDE DEF s
  <2>a. c \in 0..K /\ s \in 0..c /\ OffsetBy(f, c) /\ OffsetBy(g, s)
    BY <1>2, <1>3, <1>4
  <2>1. \A d \in 0..s : f[d] = g[d]
    BY ONLY <2>a, K \in Nat, Rooted(K), OffsetsAgree
  <2> QED
    BY <1>2, <2>1
<1>6. f[c] = IF s = 0 THEN 0 ELSE f[s] + said[s].fields
  BY <1>2, <1>3 DEF OffsetBy
<1> QED
  BY <1>3, <1>4, <1>5, <1>6

-----------------------------------------------------------------------------
(***************************************************************************)
(* Functions, the tables of methods, and the names of methods.             *)
(***************************************************************************)
Fns == [class : Int, op : {"PUSH_NULL", "LOAD_THIS_FIELD", "SUPER", "CONSTRUCT"}, operand : Int, base : Int,
        inBlock : BOOLEAN, field : Int]
Entries == {MT_NONE, MT_PRIMITIVE} \cup {Script(fn) : fn \in Fns}

\* What a table holds at an index, be it too short.
Entry(table, index) == IF index < Len(table) THEN table[index + 1] ELSE MT_NONE

LEMMA EntriesApart ==
  /\ MT_NONE.type = "none" /\ MT_PRIMITIVE.type = "primitive" /\ MT_NONE # MT_PRIMITIVE
  /\ \A fn : Script(fn).type = "script" /\ Script(fn).fn = fn
  /\ \A m \in Entries : m.type = "script" => m.fn \in Fns /\ m = Script(m.fn)
  /\ NoFn \in Fns /\ NoFn.class = 0 /\ NoFn.op = "PUSH_NULL" /\ NoFn.operand = 0 /\ NoFn.base = NoBase
  /\ NoFn.field = 0 /\ NoFn.inBlock = FALSE
  /\ NoBase \in Int /\ classOfClass \in Int
<1>1. /\ MT_NONE.type = "none" /\ MT_PRIMITIVE.type = "primitive"
      /\ \A fn : Script(fn).type = "script" /\ Script(fn).fn = fn
  BY DEF MT_NONE, MT_PRIMITIVE, Script
<1>2. \A m \in Entries : m.type = "script" => m.fn \in Fns /\ m = Script(m.fn)
  BY <1>1 DEF Entries
<1>3. NoBase \in Int /\ classOfClass \in Int
  BY DEF NoBase, classOfClass
<1>4. NoFn \in Fns
  BY <1>3 DEF NoFn, Fns
<1>5. /\ NoFn.class = 0 /\ NoFn.op = "PUSH_NULL" /\ NoFn.operand = 0 /\ NoFn.base = NoBase
      /\ NoFn.field = 0 /\ NoFn.inBlock = FALSE
  BY DEF NoFn
<1>6. MT_NONE # MT_PRIMITIVE
  BY <1>1
<1> QED
  BY <1>1, <1>2, <1>3, <1>4, <1>5, <1>6

LEMMA BoundIs ==
  ASSUME NEW table \in Seq(Entries), NEW index \in Nat, NEW m \in Entries
  PROVE  /\ Bound(table, index, m) \in Seq(Entries)
         /\ Entry(Bound(table, index, m), index) = m
         /\ \A i \in Nat : i # index => Entry(Bound(table, index, m), i) = Entry(table, i)
         /\ \A i \in 1..Len(Bound(table, index, m)) :
              Bound(table, index, m)[i] \in {m, MT_NONE} \/ (i \in 1..Len(table) /\ Bound(table, index, m)[i] = table[i])
<1> DEFINE n == IF index + 1 - Len(table) > 0 THEN index + 1 - Len(table) ELSE 0
           pad == [i \in 1..index + 1 - Len(table) |-> MT_NONE]
           all == table \o pad
           b == [all EXCEPT ![index + 1] = m]
<1>1. Len(table) \in Nat /\ n \in Nat /\ 1..n = 1..index + 1 - Len(table)
  BY LenProperties
<1>2. pad \in Seq(Entries) /\ Len(pad) = n /\ \A i \in 1..n : pad[i] = MT_NONE
  <2>1. pad \in [1..n -> Entries]
    BY <1>1 DEF Entries
  <2>2. pad \in Seq(Entries)
    BY <1>1, <2>1, SeqDef
  <2>3. Len(pad) \in Nat /\ 1..Len(pad) = 1..n
    BY <1>1, <2>2, LenProperties
  <2>4. Len(pad) = n
    <3> HIDE DEF pad, n
    <3>1. n > 0 => n \in 1..Len(pad)
      BY <1>1, <2>3
    <3>2. Len(pad) > 0 => Len(pad) \in 1..n
      BY <1>1, <2>3
    <3> QED
      BY <1>1, <2>3, <3>1, <3>2
  <2> QED
    BY <1>1, <2>2, <2>4
<1>3. Bound(table, index, m) = b
  BY DEF Bound
<1> HIDE DEF pad
<1>4. /\ all \in Seq(Entries) /\ Len(all) = Len(table) + n
      /\ \A i \in 1..Len(all) : all[i] = IF i <= Len(table) THEN table[i] ELSE pad[i - Len(table)]
  BY <1>2, ConcatProperties
<1> HIDE DEF all
<1>5. \A i \in 1..Len(all) : all[i] = IF i <= Len(table) THEN table[i] ELSE MT_NONE
  <2>1. PICK l, a : l = Len(table) /\ a = Len(all)
    OBVIOUS
  <2>2. l \in Nat /\ n \in Nat /\ a = l + n
    BY <1>1, <1>4, <2>1
  <2>3. \A i \in 1..a : ~(i <= l) => i - l \in 1..n
    BY ONLY <2>2
  <2> QED
    BY <1>2, <1>4, <2>1, <2>3
<1>6. index + 1 \in 1..Len(all)
  BY <1>1, <1>4
<1>7. b \in Seq(Entries) /\ Len(b) = Len(all) /\ \A j \in 1..Len(all) : b[j] = IF j = index + 1 THEN m ELSE all[j]
  BY <1>4, <1>6, ExceptSeq
<1> HIDE DEF b
<1>8. Entry(b, index) = m
  BY <1>1, <1>4, <1>6, <1>7 DEF Entry
<1>9. ASSUME NEW i \in Nat, i # index PROVE Entry(b, i) = Entry(table, i)
  <2>1. CASE i < Len(all)
    <3>1. i + 1 \in 1..Len(all) /\ i + 1 # index + 1
      BY <1>1, <1>4, <1>9, <2>1
    <3>2. b[i + 1] = IF i + 1 <= Len(table) THEN table[i + 1] ELSE MT_NONE
      BY <1>5, <1>7, <3>1
    <3>3. i + 1 <= Len(table) <=> i < Len(table)
      BY <1>1
    <3> QED
      BY <1>7, <2>1, <3>2, <3>3 DEF Entry
  <2>2. CASE ~(i < Len(all))
    <3>1. ~(i < Len(table))
      BY <1>1, <1>4, <2>2
    <3> QED
      BY <1>7, <2>2, <3>1 DEF Entry
  <2> QED
    BY <2>1, <2>2
<1>10. \A i \in 1..Len(b) : b[i] \in {m, MT_NONE} \/ (i \in 1..Len(table) /\ b[i] = table[i])
  BY <1>1, <1>4, <1>5, <1>7
<1> QED
  BY <1>3, <1>7, <1>8, <1>9, <1>10

\* The names: those of the primitives first, none twice.
NamesOK(names) ==
  /\ names \in Seq(Sign \cup {New})
  /\ \A i, j \in 1..Len(names) : names[i] = names[j] => i = j
  /\ Cardinality(Primitive) <= Len(names)
  /\ \A i \in 1..Len(names) : names[i] \in Primitive <=> i <= Cardinality(Primitive)

Named(names, sign, i) == i \in Nat /\ i + 1 \in 1..Len(names) /\ names[i + 1] = sign

LEMMA NamesStart == NamesOK(SetToSeq(Primitive)) /\ Cardinality(Primitive) \in Nat
<1> DEFINE n == Cardinality(Primitive)
           s == SetToSeq(Primitive)
<1>1. n \in Nat /\ ExistsBijection(1..n, Primitive) /\ Primitive \subseteq Sign
  BY ClassesAssumption, FS_CardinalityType
<1>2. PICK g \in [1..n -> Primitive] : IsInjective(g)
  BY <1>1 DEF ExistsBijection, Bijection, Injection, IsInjective
<1>3. s = CHOOSE f \in [1..n -> Primitive] : IsInjective(f)
  BY DEF SetToSeq
<1> HIDE DEF s, n
<1>4. s \in [1..n -> Primitive] /\ IsInjective(s)
  BY <1>2, <1>3, Zenon
<1>5. n \in Nat /\ Primitive \subseteq Sign
  BY <1>1 DEF n
<1>6. s \in Seq(Primitive) /\ s \in Seq(Sign \cup {New})
  <2>1. s \in [1..n -> Sign \cup {New}]
    BY <1>4, <1>5
  <2> QED
    BY <1>4, <1>5, <2>1, SeqDef
<1>7. Len(s) = n /\ DOMAIN s = 1..n
  <2>1. Len(s) \in Nat /\ 1..Len(s) = 1..n
    BY <1>4, <1>6, LenProperties
  <2>2. n > 0 => n \in 1..Len(s)
    BY <1>5, <2>1
  <2>3. Len(s) > 0 => Len(s) \in 1..n
    <3>1. Len(s) > 0 => Len(s) \in 1..Len(s)
      BY <2>1
    <3> QED
      BY <2>1, <3>1
  <2> QED
    BY <1>4, <1>5, <2>1, <2>2, <2>3
<1>8. \A i, j \in 1..n : s[i] = s[j] => i = j
  BY <1>4, <1>7 DEF IsInjective
<1>9. \A i \in 1..n : s[i] \in Primitive
  BY <1>4
<1>10. NamesOK(s)
  BY <1>5, <1>6, <1>7, <1>8, <1>9 DEF NamesOK, n
<1> QED
  BY <1>5, <1>10 DEF n, s

LEMMA NamedOnce ==
  ASSUME NEW names, NamesOK(names)
  PROVE  /\ \A sign, i, j : Named(names, sign, i) /\ Named(names, sign, j) => i = j
         /\ \A s, t, i : Named(names, s, i) /\ Named(names, t, i) => s = t
         /\ \A sign \in Range(names) : Named(names, sign, IndexOf(names, sign))
         /\ \A sign, i : Named(names, sign, i) => sign \in Range(names) /\ IndexOf(names, sign) = i
<1>1. Len(names) \in Nat /\ DOMAIN names = 1..Len(names)
  BY LenProperties DEF NamesOK
<1>2. ASSUME NEW sign, NEW i, NEW j, Named(names, sign, i), Named(names, sign, j) PROVE i = j
  <2>1. i + 1 = j + 1
    BY <1>2 DEF NamesOK, Named
  <2> QED
    BY <1>2, <2>1 DEF Named
<1>3. ASSUME NEW sign \in Range(names) PROVE Named(names, sign, IndexOf(names, sign))
  <2>1. PICK k \in 1..Len(names) : names[k] = sign
    BY <1>1 DEF Range
  <2>2. k - 1 \in 0..Len(names) - 1 /\ names[(k - 1) + 1] = sign
    BY <1>1, <2>1
  <2>3. IndexOf(names, sign) \in 0..Len(names) - 1 /\ names[IndexOf(names, sign) + 1] = sign
    BY <2>2 DEF IndexOf
  <2> QED
    BY <1>1, <2>3 DEF Named
<1>4. ASSUME NEW sign, NEW i, Named(names, sign, i) PROVE sign \in Range(names) /\ IndexOf(names, sign) = i
  <2>1. sign \in Range(names)
    BY <1>1, <1>4 DEF Range, Named
  <2>2. Named(names, sign, IndexOf(names, sign))
    BY <1>3, <2>1
  <2> QED
    BY <1>2, <1>4, <2>1, <2>2
<1>5. \A s, t, i : Named(names, s, i) /\ Named(names, t, i) => s = t
  BY DEF Named
<1> QED
  BY <1>2, <1>3, <1>4, <1>5

\* A new name goes to the end: the others keep their index.
LEMMA EnsuredIs ==
  ASSUME NEW names, NamesOK(names), NEW sign \in Sign \cup {New}
  PROVE  LET more == EnsureSymbolExist(names, sign)
         IN  /\ NamesOK(more)
             /\ Named(more, sign, IndexOf(more, sign))
             /\ \A s, i : Named(names, s, i) => Named(more, s, i)
             /\ Len(names) <= Len(more)
             /\ IndexOf(more, sign) < Len(more)
<1> DEFINE more == EnsureSymbolExist(names, sign)
           n == Cardinality(Primitive)
<1>1. /\ Len(names) \in Nat /\ DOMAIN names = 1..Len(names) /\ names \in Seq(Sign \cup {New})
      /\ n <= Len(names) /\ n \in Nat
  BY LenProperties, NamesStart DEF NamesOK
<1>2. CASE sign \in Range(names)
  <2>1. more = names
    BY <1>2 DEF EnsureSymbolExist
  <2>2. Named(names, sign, IndexOf(names, sign))
    BY <1>2, NamedOnce
  <2> HIDE DEF more
  <2>3. IndexOf(names, sign) < Len(names)
    BY <1>1, <2>2 DEF Named
  <2>4. /\ NamesOK(more) /\ Named(more, sign, IndexOf(more, sign))
        /\ \A s, i : Named(names, s, i) => Named(more, s, i)
        /\ Len(names) <= Len(more) /\ IndexOf(more, sign) < Len(more)
    BY <1>1, <2>1, <2>2, <2>3
  <2> QED
    BY <2>4 DEF more
<1>3. CASE sign \notin Range(names)
  <2>1. more = Append(names, sign)
    BY <1>3 DEF EnsureSymbolExist
  <2> HIDE DEF more
  <2>2. /\ more \in Seq(Sign \cup {New}) /\ Len(more) = Len(names) + 1
        /\ \A i \in 1..Len(names) : more[i] = names[i]
        /\ more[Len(names) + 1] = sign
    BY <1>1, <2>1, AppendProperties
  <2>3. \A i \in 1..Len(more) : i \in 1..Len(names) \/ i = Len(names) + 1
    BY <1>1, <2>2
  <2>4. \A i \in 1..Len(names) : names[i] # sign
    BY <1>1, <1>3 DEF Range
  <2>5. sign \notin Primitive
    <3> SUFFICES ASSUME sign \in Primitive PROVE FALSE
      OBVIOUS
    <3>1. IsFiniteSet(Primitive) /\ Primitive \subseteq Sign
      BY ClassesAssumption
    <3> DEFINE f == [i \in 1..n |-> names[i]]
    <3>2. \A i \in 1..n : i \in 1..Len(names) /\ names[i] \in Primitive /\ names[i] # sign
      BY <1>1, <2>4 DEF NamesOK
    <3>3. f \in [1..n -> Primitive \ {sign}] /\ \A i, j \in 1..n : f[i] = f[j] => i = j
      BY <1>1, <3>2 DEF NamesOK
    <3> HIDE DEF f
    <3>4. f \in Injection(1..n, Primitive \ {sign})
      BY <3>3 DEF Injection, IsInjective
    <3>5. IsFiniteSet(Primitive \ {sign}) /\ Cardinality(Primitive \ {sign}) = n - 1
      BY <3>1, FS_RemoveElement
    <3>6. Cardinality(1..n) = n
      BY <1>1, FS_Interval
    <3>7. Cardinality(1..n) <= Cardinality(Primitive \ {sign})
      BY <3>4, <3>5, FS_Injection
    <3> QED
      BY <1>1, <3>5, <3>6, <3>7
  <2>6. NamesOK(more)
    <3>1. \A i, j \in 1..Len(more) : more[i] = more[j] => i = j
      BY <1>1, <2>2, <2>3, <2>4 DEF NamesOK
    <3>2. \A i \in 1..Len(more) : more[i] \in Primitive <=> i <= n
      BY <1>1, <2>2, <2>3, <2>5 DEF NamesOK
    <3> QED
      BY <1>1, <2>2, <3>1, <3>2 DEF NamesOK
  <2>7. \A s, i : Named(names, s, i) => Named(more, s, i)
    BY <1>1, <2>2 DEF Named
  <2>8. Named(more, sign, Len(names))
    BY <1>1, <2>2 DEF Named
  <2>9. IndexOf(more, sign) = Len(names)
    BY <2>6, <2>8, NamedOnce
  <2>10. /\ NamesOK(more) /\ Named(more, sign, IndexOf(more, sign))
         /\ \A s, i : Named(names, s, i) => Named(more, s, i)
         /\ Len(names) <= Len(more) /\ IndexOf(more, sign) < Len(more)
    BY <1>1, <2>2, <2>6, <2>7, <2>8, <2>9
  <2> QED
    BY <2>10 DEF more
<1> QED
  BY <1>2, <1>3

-----------------------------------------------------------------------------
(***************************************************************************)
(* What has been compiled.  cd is the code, names the table of names, sd   *)
(* what the program says, and b the class that is still open, or 0.        *)
(***************************************************************************)
Values == {Null} \cup {Initial(i) : i \in Nat} \cup {Class(c) : c \in Nat} \cup {ClassName(c) : c \in Nat}
SaidTypes == [superClass : Nat, fields : Nat, defined : SUBSET (Sign \cup {New}), static : SUBSET Sign, statics : Seq(Values)]
BookTypes == [class : Nat, fields : Nat, instantMethods : SUBSET (Sign \cup {New}), staticMethods : SUBSET Sign,
              statics : {<<>>}, createClass : Nat]

Creates == [op : {"CREATE_CLASS"}, class : Nat, superClass : Nat, operand : 0..BYTE - 1]
StaticFields == [op : {"STATIC_FIELD"}, index : Nat, initialized : BOOLEAN]
Binds == [op : {"METHOD"}, isStatic : BOOLEAN, class : Nat, index : Nat, fn : Fns]
Items == Creates \cup StaticFields \cup Binds

SaidOK(sd) ==
  /\ sd \in Seq(SaidTypes)
  /\ \A c \in 1..Len(sd) : sd[c].superClass \in 0..c /\ (ManyFields \/ sd[c].fields < BYTE)

\* The number of fields is filled in when the class has been read.
CreateOK(x, sd, b) ==
  /\ x \in Creates /\ x.class \in 1..Len(sd) /\ x.superClass = sd[x.class].superClass
  /\ x.class # b => x.operand = sd[x.class].fields % BYTE

FnOK(fn, names, fields) ==
  /\ fn.base = NoBase /\ fn.operand \in Nat
  /\ fn.op = "LOAD_THIS_FIELD" => fn.field \in 0..fields - 1 /\ fn.operand = fn.field % BYTE /\ (~BlockFields => fn.inBlock = FALSE)
  /\ fn.op # "LOAD_THIS_FIELD" => fn.operand <= Len(names)

\* A method was said; the one that creates instances calls the constructor.
MethodOK(x, names, sd) ==
  /\ x \in Binds /\ x.class \in 1..Len(sd) /\ x.fn.class = x.class /\ FnOK(x.fn, names, sd[x.class].fields)
  /\ ~x.isStatic => x.fn.op # "CONSTRUCT" /\ \E sign \in sd[x.class].defined : Named(names, sign, x.index)
  /\ x.isStatic /\ x.fn.op = "CONSTRUCT" => New \in sd[x.class].defined /\ Named(names, New, x.index) /\ x.fn.operand = x.index
  /\ x.isStatic /\ x.fn.op # "CONSTRUCT" =>
       x.fn.op # "LOAD_THIS_FIELD" /\ \E sign \in sd[x.class].static : Named(names, sign, x.index)

\* x comes before y: the methods of a class follow its creation and end before the next one.
InOrder(x, y) ==
  /\ y.op = "CREATE_CLASS" /\ x.op # "STATIC_FIELD" => x.class < y.class
  /\ x.op = "CREATE_CLASS" /\ y.op = "METHOD" => x.class <= y.class
  /\ x.op = "METHOD" /\ y.op = "METHOD" /\ x.class = y.class => x.isStatic # y.isStatic \/ x.index # y.index

CreatesClass(x, c) == x.op = "CREATE_CLASS" /\ x.class = c

ItemsFollow(cd, names, sd, b) ==
  /\ cd \in Seq(Items)
  /\ \A i \in 1..Len(cd) : CreateOK(cd[i], sd, b) \/ cd[i] \in StaticFields \/ MethodOK(cd[i], names, sd)
  /\ \A i, j \in 1..Len(cd) : i < j => InOrder(cd[i], cd[j])
  /\ \A j \in 1..Len(cd) : cd[j].op = "CREATE_CLASS" /\ cd[j].class > 1 =>
       \E i \in 1..(j - 1) : CreatesClass(cd[i], cd[j].class - 1)

CodeFollows(cd, names, sd, b) ==
  /\ ItemsFollow(cd, names, sd, b)
  /\ \A c \in 1..Len(sd) : \E i \in 1..Len(cd) : CreatesClass(cd[i], c)

\* What the program says is in the code.
CodeHas(cd, names, sd) ==
  \A c \in 1..Len(sd) :
    /\ \A sign \in sd[c].defined : \E i \in 1..Len(cd) :
         cd[i].op = "METHOD" /\ ~cd[i].isStatic /\ cd[i].class = c /\ Named(names, sign, cd[i].index)
    /\ New \in sd[c].defined => \E i \in 1..Len(cd) :
         cd[i].op = "METHOD" /\ cd[i].isStatic /\ cd[i].class = c /\ cd[i].fn.op = "CONSTRUCT"

\* What is said of the classes grows, and nothing that was said of one that is closed changes.
SaysMore(sd, ts, b) ==
  /\ Len(sd) <= Len(ts)
  /\ \A c \in 1..Len(sd) :
       /\ ts[c].superClass = sd[c].superClass /\ sd[c].fields <= ts[c].fields
       /\ sd[c].defined \subseteq ts[c].defined /\ sd[c].static \subseteq ts[c].static
       /\ c # b => ts[c].fields = sd[c].fields

NamesMore(names, more) ==
  /\ Len(names) <= Len(more)
  /\ \A s, i : Named(names, s, i) => Named(more, s, i)

LEMMA ItemFacts ==
  /\ \A x \in Creates : x.op = "CREATE_CLASS" /\ x.class \in Nat /\ x.superClass \in Nat /\ x.operand \in 0..BYTE - 1
  /\ \A x \in StaticFields : x.op = "STATIC_FIELD" /\ x.index \in Nat /\ x.initialized \in BOOLEAN
  /\ \A x \in Binds : x.op = "METHOD" /\ x.isStatic \in BOOLEAN /\ x.class \in Nat /\ x.index \in Nat /\ x.fn \in Fns
  /\ \A x \in Items : x.op = "CREATE_CLASS" => x \in Creates
  /\ \A x \in Items : x.op = "STATIC_FIELD" => x \in StaticFields
  /\ \A x \in Items : x.op = "METHOD" => x \in Binds
  /\ \A x \in Items : x.op \in {"CREATE_CLASS", "STATIC_FIELD", "METHOD"}
<1>1. /\ \A x \in Creates : x.op = "CREATE_CLASS" /\ x.class \in Nat /\ x.superClass \in Nat /\ x.operand \in 0..BYTE - 1
      /\ \A x \in StaticFields : x.op = "STATIC_FIELD" /\ x.index \in Nat /\ x.initialized \in BOOLEAN
      /\ \A x \in Binds : x.op = "METHOD" /\ x.isStatic \in BOOLEAN /\ x.class \in Nat /\ x.index \in Nat /\ x.fn \in Fns
  BY DEF Creates, StaticFields, Binds
<1> QED
  BY <1>1 DEF Items

LEMMA SaidFacts ==
  ASSUME NEW sd, SaidOK(sd)
  PROVE  /\ Len(sd) \in Nat /\ DOMAIN sd = 1..Len(sd)
         /\ \A c \in 1..Len(sd) :
              /\ sd[c] \in SaidTypes /\ sd[c].superClass \in 0..c /\ sd[c].fields \in Nat
              /\ sd[c].defined \subseteq Sign \cup {New} /\ sd[c].static \subseteq Sign /\ sd[c].statics \in Seq(Values)
<1>1. Len(sd) \in Nat /\ DOMAIN sd = 1..Len(sd) /\ \A c \in 1..Len(sd) : sd[c] \in SaidTypes
  BY LenProperties, ElementOfSeq DEF SaidOK
<1> QED
  BY <1>1 DEF SaidOK, SaidTypes

\* The code fits what is said later.
LEMMA FollowsMore ==
  ASSUME NEW cd, NEW names, NEW sd, NEW b, ItemsFollow(cd, names, sd, b), SaidOK(sd),
         NEW more, NEW ts, NamesMore(names, more), SaysMore(sd, ts, b), SaidOK(ts),
         Len(names) \in Nat, Len(more) \in Nat
  PROVE  ItemsFollow(cd, more, ts, b)
<1>1. ASSUME NEW i \in 1..Len(cd), CreateOK(cd[i], sd, b) PROVE CreateOK(cd[i], ts, b)
  <2>1. Len(sd) \in Nat /\ Len(ts) \in Nat /\ Len(sd) <= Len(ts)
    BY SaidFacts DEF SaysMore
  <2> QED
    BY <1>1, <2>1 DEF CreateOK, SaysMore
<1>2. ASSUME NEW i \in 1..Len(cd), MethodOK(cd[i], names, sd) PROVE MethodOK(cd[i], more, ts)
  <2> DEFINE x == cd[i]
             c == x.class
  <2>1. /\ c \in 1..Len(sd) /\ c \in 1..Len(ts) /\ x \in Binds /\ x.fn.class = c
        /\ FnOK(x.fn, names, sd[c].fields)
    <3>1. Len(sd) \in Nat /\ Len(ts) \in Nat /\ Len(sd) <= Len(ts)
      BY SaidFacts DEF SaysMore
    <3> QED
      BY <1>2, <3>1 DEF MethodOK
  <2>2. /\ sd[c].fields <= ts[c].fields /\ sd[c].defined \subseteq ts[c].defined /\ sd[c].static \subseteq ts[c].static
        /\ sd[c].fields \in Nat /\ ts[c].fields \in Nat
    BY <2>1, SaidFacts DEF SaysMore
  <2>3. FnOK(x.fn, more, ts[c].fields)
    <3>1. \A f : f \in 0..sd[c].fields - 1 => f \in 0..ts[c].fields - 1
      BY <2>2
    <3>2. \A n \in Nat : n <= Len(names) => n <= Len(more)
      BY DEF NamesMore
    <3> QED
      BY <2>1, <3>1, <3>2 DEF FnOK
  <2>4. \A s : Named(names, s, x.index) => Named(more, s, x.index)
    BY DEF NamesMore
  <2> HIDE DEF x, c
  <2>5. MethodOK(x, names, sd) /\ c = x.class
    BY <1>2 DEF x, c
  <2>6. MethodOK(x, more, ts)
    BY <2>1, <2>2, <2>3, <2>4, <2>5 DEF MethodOK
  <2> QED
    BY <2>6 DEF x
<1> QED
  BY <1>1, <1>2 DEF ItemsFollow

\* One more instruction.
LEMMA FollowsAppended ==
  ASSUME NEW cd, NEW names, NEW sd, NEW b, ItemsFollow(cd, names, sd, b),
         NEW x \in Items, CreateOK(x, sd, b) \/ x \in StaticFields \/ MethodOK(x, names, sd),
         \A i \in 1..Len(cd) : InOrder(cd[i], x),
         x.op = "CREATE_CLASS" /\ x.class > 1 => \E i \in 1..Len(cd) : CreatesClass(cd[i], x.class - 1)
  PROVE  LET new == Append(cd, x)
         IN  /\ ItemsFollow(new, names, sd, b)
             /\ Len(new) = Len(cd) + 1 /\ new[Len(cd) + 1] = x
             /\ \A i \in 1..Len(cd) : i \in 1..Len(new) /\ new[i] = cd[i]
<1> DEFINE new == Append(cd, x)
           n == Len(cd)
<1>1. cd \in Seq(Items) /\ n \in Nat
  BY LenProperties DEF ItemsFollow
<1>2. new \in Seq(Items) /\ Len(new) = n + 1 /\ (\A i \in 1..n : new[i] = cd[i]) /\ new[n + 1] = x
  BY <1>1, AppendProperties
<1> HIDE DEF new, n
<1>3. \A i \in 1..Len(new) : i \in 1..n \/ i = n + 1
  BY <1>1, <1>2
<1>4. \A i \in 1..n : i \in 1..Len(new) /\ new[i] = cd[i]
  BY <1>1, <1>2
<1>5. \A i \in 1..Len(new) : CreateOK(new[i], sd, b) \/ new[i] \in StaticFields \/ MethodOK(new[i], names, sd)
  BY <1>2, <1>3 DEF ItemsFollow, n
<1>6. ASSUME NEW i \in 1..Len(new), NEW j \in 1..Len(new), i < j PROVE InOrder(new[i], new[j])
  <2>1. i \in 1..n
    BY <1>1, <1>2, <1>6
  <2>2. CASE j \in 1..n
    BY <1>4, <1>6, <2>1, <2>2 DEF ItemsFollow, n
  <2>3. CASE j = n + 1
    BY <1>2, <1>4, <2>1, <2>3 DEF n
  <2> QED
    BY <1>3, <2>2, <2>3
<1>7. ASSUME NEW j \in 1..Len(new), new[j].op = "CREATE_CLASS", new[j].class > 1
      PROVE  \E i \in 1..(j - 1) : CreatesClass(new[i], new[j].class - 1)
  <2>1. CASE j \in 1..n
    <3>1. PICK i \in 1..(j - 1) : CreatesClass(cd[i], cd[j].class - 1)
      BY <1>4, <1>7, <2>1 DEF ItemsFollow, n
    <3>2. i \in 1..n
      BY <1>1, <2>1
    <3> QED
      BY <1>4, <2>1, <3>1, <3>2
  <2>2. CASE j = n + 1
    <3>1. PICK i \in 1..n : CreatesClass(cd[i], x.class - 1)
      BY <1>2, <1>7, <2>2 DEF n
    <3>2. i \in 1..(j - 1)
      BY <1>1, <2>2
    <3> QED
      BY <1>2, <1>4, <2>2, <3>1, <3>2
  <2> QED
    BY <1>3, <2>1, <2>2
<1>8. ItemsFollow(new, names, sd, b)
  BY <1>2, <1>5, <1>6, <1>7 DEF ItemsFollow
<1> QED
  BY <1>2, <1>4, <1>8 DEF new, n

\* What is in the code stays there.
LEMMA HasAppended ==
  ASSUME NEW cd, NEW names, NEW sd, CodeHas(cd, names, sd), NEW new, NEW more,
         \A i \in 1..Len(cd) : i \in 1..Len(new) /\ new[i] = cd[i], NamesMore(names, more)
  PROVE  CodeHas(new, more, sd)
<1>1. ASSUME NEW c \in 1..Len(sd), NEW sign \in sd[c].defined
      PROVE  \E i \in 1..Len(new) : new[i].op = "METHOD" /\ ~new[i].isStatic /\ new[i].class = c /\ Named(more, sign, new[i].index)
  <2>1. PICK i \in 1..Len(cd) : cd[i].op = "METHOD" /\ ~cd[i].isStatic /\ cd[i].class = c /\ Named(names, sign, cd[i].index)
    BY <1>1 DEF CodeHas
  <2> QED
    BY <2>1 DEF NamesMore
<1>2. ASSUME NEW c \in 1..Len(sd), New \in sd[c].defined
      PROVE  \E i \in 1..Len(new) : new[i].op = "METHOD" /\ new[i].isStatic /\ new[i].class = c /\ new[i].fn.op = "CONSTRUCT"
  BY <1>2 DEF CodeHas
<1> QED
  BY <1>1, <1>2 DEF CodeHas

-----------------------------------------------------------------------------
(***************************************************************************)
(* The compiler's invariant.  Bound to it are the variables of the run,    *)
(* which have their initial values until the module runs.                  *)
(***************************************************************************)
BookOK ==
  /\ book \in BookTypes
  /\ book.class # 0 =>
       /\ book.class = Len(said) /\ book.fields = said[book.class].fields
       /\ book.instantMethods = said[book.class].defined /\ book.staticMethods = said[book.class].static
       /\ book.createClass \in 1..Len(code) /\ CreatesClass(code[book.createClass], book.class)
  /\ phase = "class" => book.class # 0
  /\ phase \in {"module", "running", "done", "crashed"} => book.class = 0

Compiled ==
  /\ NamesOK(allMethodNames) /\ SaidOK(said) /\ Len(said) <= MaxClasses
  /\ CodeFollows(code, allMethodNames, said, book.class) /\ CodeHas(code, allMethodNames, said)
  /\ BookOK
  /\ members \in 0..MaxMembers
  /\ phase \in {"module", "class", "running", "done", "error", "crashed"}

Untouched ==
  /\ pc = 1 /\ stack = <<>> /\ classes = [c \in {0} |-> Object]
  /\ moduleVars = [c \in 0..MaxClasses |-> IF c = 0 THEN Class(0) ELSE Null]

Fresh == phase \in {"module", "class"} => Untouched

LEMMA CompiledInit == Init => Compiled /\ Fresh
<1> SUFFICES ASSUME Init PROVE Compiled /\ Fresh
  OBVIOUS
<1>1. /\ allMethodNames = SetToSeq(Primitive) /\ book = NoBook /\ code = <<>> /\ said = <<>> /\ members = 0
      /\ phase = "module" /\ Untouched
  BY DEF Init, Untouched
<1>2. Len(said) = 0 /\ said \in Seq(SaidTypes) /\ Len(code) = 0 /\ code \in Seq(Items)
  BY <1>1, EmptySeq
<1>3. \A i \in 1..0 : FALSE
  OBVIOUS
<1>4. NamesOK(allMethodNames)
  BY <1>1, NamesStart
<1>5. book \in BookTypes /\ book.class = 0
  BY <1>1 DEF NoBook, BookTypes
<1>6. BookOK
  BY <1>1, <1>5 DEF BookOK
<1>7. SaidOK(said) /\ CodeFollows(code, allMethodNames, said, book.class) /\ CodeHas(code, allMethodNames, said)
  BY <1>2, <1>3 DEF SaidOK, CodeFollows, ItemsFollow, CodeHas
<1> QED
  BY <1>1, <1>2, <1>4, <1>6, <1>7, ClassesAssumption DEF Compiled, Fresh

LEMMA CompiledFacts ==
  ASSUME Compiled
  PROVE  /\ Len(code) \in Nat /\ DOMAIN code = 1..Len(code) /\ code \in Seq(Items)
         /\ Len(allMethodNames) \in Nat /\ allMethodNames \in Seq(Sign \cup {New})
         /\ Len(said) \in Nat /\ DOMAIN said = 1..Len(said)
         /\ BYTE \in Nat /\ BYTE > 0 /\ MAX_FIELD_NUM \in Nat /\ MAX_FIELD_NUM < BYTE
         /\ \A i \in 1..Len(code) :
              /\ code[i] \in Items
              /\ code[i].op = "CREATE_CLASS" => CreateOK(code[i], said, book.class) /\ code[i].class \in 1..Len(said)
              /\ code[i].op = "METHOD" => MethodOK(code[i], allMethodNames, said) /\ code[i].class \in 1..Len(said)
              /\ code[i].op = "STATIC_FIELD" => code[i] \in StaticFields
<1>1. /\ Len(code) \in Nat /\ DOMAIN code = 1..Len(code) /\ code \in Seq(Items) /\ \A i \in 1..Len(code) : code[i] \in Items
  BY LenProperties, ElementOfSeq DEF Compiled, CodeFollows, ItemsFollow
<1>2. Len(allMethodNames) \in Nat /\ allMethodNames \in Seq(Sign \cup {New})
  BY LenProperties DEF Compiled, NamesOK
<1>3. Len(said) \in Nat /\ DOMAIN said = 1..Len(said)
  BY SaidFacts DEF Compiled
<1>4. BYTE \in Nat /\ BYTE > 0 /\ MAX_FIELD_NUM \in Nat /\ MAX_FIELD_NUM < BYTE
  BY ClassesAssumption
<1>5. ASSUME NEW i \in 1..Len(code)
      PROVE  /\ code[i].op = "CREATE_CLASS" => CreateOK(code[i], said, book.class) /\ code[i].class \in 1..Len(said)
             /\ code[i].op = "METHOD" => MethodOK(code[i], allMethodNames, said) /\ code[i].class \in 1..Len(said)
             /\ code[i].op = "STATIC_FIELD" => code[i] \in StaticFields
  <2>1. CreateOK(code[i], said, book.class) \/ code[i] \in StaticFields \/ MethodOK(code[i], allMethodNames, said)
    BY DEF Compiled, CodeFollows, ItemsFollow
  <2>2. /\ CreateOK(code[i], said, book.class) => code[i] \in Creates /\ code[i].class \in 1..Len(said)
        /\ MethodOK(code[i], allMethodNames, said) => code[i] \in Binds /\ code[i].class \in 1..Len(said)
    BY DEF CreateOK, MethodOK
  <2> QED
    BY <2>1, <2>2, ItemFacts
<1> QED
  BY <1>1, <1>2, <1>3, <1>4, <1>5

LEMMA NamesSame == ASSUME NEW names, NamesOK(names) PROVE NamesMore(names, names)
<1>1. Len(names) \in Nat
  BY LenProperties DEF NamesOK
<1> QED
  BY <1>1 DEF NamesMore

LEMMA OpenClassCompiles ==
  ASSUME Compiled, Fresh, NEW super, OpenClass(super)
  PROVE  Compiled' /\ Fresh'
<1> DEFINE c == Len(said) + 1
           create == [op |-> "CREATE_CLASS", class |-> c, superClass |-> super, operand |-> BYTE - 1]
           first == [superClass |-> super, fields |-> 0, defined |-> {}, static |-> {}, statics |-> <<>>]
           new == Append(code, create)
           ts == Append(said, first)
           names == allMethodNames
<1>1. /\ phase = "module" /\ c <= MaxClasses /\ super \in 0..c /\ phase' = "class"
      /\ code' = new /\ said' = ts
      /\ book' = [NoBook EXCEPT !.class = c, !.createClass = Len(code) + 1]
      /\ UNCHANGED <<allMethodNames, members, pc, stack, moduleVars, classes>>
  BY DEF OpenClass, run
<1>2. /\ Len(said) \in Nat /\ c \in Nat /\ c \in 1..c /\ Len(code) \in Nat /\ super \in Nat
      /\ BYTE \in Nat /\ BYTE > 0 /\ Len(names) \in Nat
  BY <1>1, CompiledFacts
<1>3. book.class = 0 /\ NamesOK(names) /\ SaidOK(said) /\ ItemsFollow(code, names, said, 0) /\ CodeHas(code, names, said)
  BY <1>1 DEF Compiled, BookOK, CodeFollows
<1>4. first \in SaidTypes /\ first.superClass = super /\ first.fields = 0 /\ first.defined = {}
      /\ first.static = {}
  BY <1>2, EmptySeq DEF SaidTypes
<1>5. create \in Items /\ create \in Creates /\ create.op = "CREATE_CLASS" /\ create.class = c /\ create.superClass = super
  BY <1>2 DEF Creates, Items
<1> HIDE DEF create, first, c
<1>6. ts \in Seq(SaidTypes) /\ Len(ts) = c /\ (\A d \in 1..Len(said) : ts[d] = said[d]) /\ ts[c] = first
  BY <1>2, <1>3, <1>4, AppendProperties DEF SaidOK, c
<1> HIDE DEF ts
<1>7. \A d \in 1..c : d \in 1..Len(said) \/ d = c
  BY <1>2 DEF c
<1>8. SaidOK(ts)
  <2>1. 0 < BYTE
    BY <1>2
  <2> QED
    BY <1>1, <1>3, <1>4, <1>6, <1>7, <2>1 DEF SaidOK
<1>9. SaysMore(said, ts, 0)
  BY <1>2, <1>3, <1>6, SaidFacts DEF SaysMore, c
<1>10. ItemsFollow(code, names, ts, 0)
  BY <1>2, <1>3, <1>8, <1>9, NamesSame, FollowsMore
<1>11. ItemsFollow(code, names, ts, c)
  <2>1. \A i \in 1..Len(code) : CreateOK(code[i], ts, 0) => CreateOK(code[i], ts, c)
    BY <1>2, <1>6 DEF CreateOK
  <2> QED
    BY <1>10, <2>1 DEF ItemsFollow
<1>12. CreateOK(create, ts, c)
  BY <1>2, <1>4, <1>5, <1>6 DEF CreateOK
<1>13. \A i \in 1..Len(code) : InOrder(code[i], create)
  <2> SUFFICES ASSUME NEW i \in 1..Len(code) PROVE InOrder(code[i], create)
    OBVIOUS
  <2>1. code[i].op # "STATIC_FIELD" => code[i].class \in 1..Len(said)
    BY CompiledFacts, ItemFacts
  <2>2. code[i].op # "STATIC_FIELD" => code[i].class < c
    BY <1>2, <2>1 DEF c
  <2> QED
    BY <1>5, <2>2 DEF InOrder
<1>14. create.class > 1 => \E i \in 1..Len(code) : CreatesClass(code[i], create.class - 1)
  <2>1. c > 1 => c - 1 \in 1..Len(said)
    BY <1>2 DEF c
  <2> QED
    BY <1>5, <2>1 DEF Compiled, CodeFollows
<1>15. /\ ItemsFollow(new, names, ts, c) /\ Len(new) = Len(code) + 1 /\ new[Len(code) + 1] = create
       /\ \A i \in 1..Len(code) : i \in 1..Len(new) /\ new[i] = code[i]
  BY <1>5, <1>11, <1>12, <1>13, <1>14, FollowsAppended
<1> HIDE DEF new
<1>16. CodeFollows(new, names, ts, c)
  <2> SUFFICES ASSUME NEW d \in 1..c PROVE \E i \in 1..Len(new) : CreatesClass(new[i], d)
    BY <1>6, <1>15 DEF CodeFollows
  <2>1. CASE d \in 1..Len(said)
    <3>1. PICK i \in 1..Len(code) : CreatesClass(code[i], d)
      BY <2>1 DEF Compiled, CodeFollows
    <3> QED
      BY <1>15, <3>1
  <2>2. CASE d = c
    BY <1>2, <1>5, <1>15, <2>2 DEF CreatesClass
  <2> QED
    BY <1>7, <2>1, <2>2
<1>17. CodeHas(new, names, ts)
  <2>1. CodeHas(new, names, said)
    BY <1>3, <1>15, NamesSame, HasAppended
  <2> QED
    BY <1>4, <1>6, <1>7, <2>1 DEF CodeHas
<1>18. /\ book' \in BookTypes /\ book'.class = c /\ book'.fields = 0 /\ book'.instantMethods = {}
       /\ book'.staticMethods = {} /\ book'.createClass = Len(code) + 1
  <2>1. book' = [class |-> c, fields |-> 0, instantMethods |-> {}, staticMethods |-> {}, statics |-> <<>>,
                 createClass |-> Len(code) + 1]
    BY <1>1 DEF NoBook
  <2>2. Len(code) + 1 \in Nat
    BY <1>2
  <2> QED
    BY <1>2, <2>1, <2>2 DEF BookTypes
<1>19. BookOK'
  <2>1. CreatesClass(code'[Len(code) + 1], c) /\ Len(code) + 1 \in 1..Len(new)
    BY <1>1, <1>2, <1>5, <1>15 DEF CreatesClass
  <2>2. c # 0
    BY <1>2 DEF c
  <2> QED
    BY <1>1, <1>4, <1>6, <1>18, <2>1, <2>2 DEF BookOK
<1>20. Compiled'
  BY <1>1, <1>3, <1>6, <1>8, <1>16, <1>17, <1>18, <1>19 DEF Compiled
<1> QED
  BY <1>1, <1>20 DEF Fresh, Untouched

LEMMA CloseClassCompiles ==
  ASSUME Compiled, Fresh, CloseClass
  PROVE  Compiled' /\ Fresh'
<1> DEFINE b == book.class
           k == book.createClass
           y == [code[k] EXCEPT !.operand = book.fields % BYTE]
           new == [code EXCEPT ![k] = y]
           names == allMethodNames
<1>1. /\ phase = "class" /\ phase' = "module"
      /\ code' = [code EXCEPT ![k].operand = book.fields % BYTE] /\ book' = NoBook
      /\ UNCHANGED <<allMethodNames, members, said, pc, stack, moduleVars, classes>>
  BY DEF CloseClass, run
<1>2. /\ Len(said) \in Nat /\ Len(code) \in Nat /\ code \in Seq(Items) /\ BYTE \in Nat /\ BYTE > 0
      /\ \A i \in 1..Len(code) : code[i] \in Items
  BY CompiledFacts
<1>3. /\ b # 0 /\ b = Len(said) /\ b \in 1..Len(said) /\ book.fields = said[b].fields /\ said[b].fields \in Nat
      /\ k \in 1..Len(code) /\ code[k].op = "CREATE_CLASS" /\ code[k].class = b
  <2>1. b # 0 /\ b = Len(said) /\ book.fields = said[b].fields /\ k \in 1..Len(code) /\ CreatesClass(code[k], b)
    BY <1>1 DEF Compiled, BookOK
  <2>2. b \in 1..Len(said)
    BY <1>2, <2>1
  <2> QED
    BY <2>1, <2>2, SaidFacts DEF CreatesClass, Compiled
<1>4. code[k] \in Creates /\ book.fields % BYTE \in 0..BYTE - 1
  BY <1>2, <1>3, ItemFacts
<1>5. y \in Creates /\ y \in Items /\ y.op = "CREATE_CLASS" /\ y.class = b /\ y.superClass = code[k].superClass
      /\ y.operand = said[b].fields % BYTE
  BY <1>3, <1>4 DEF Creates, Items
<1>6. code' = new
  BY <1>1
<1> HIDE DEF y
<1>7. /\ new \in Seq(Items) /\ Len(new) = Len(code)
      /\ \A i \in 1..Len(code) : new[i] = IF i = k THEN y ELSE code[i]
  BY <1>2, <1>3, <1>5, ExceptSeq
<1> HIDE DEF new, b, k
<1>8. \A i \in 1..Len(code) : new[i].op = code[i].op /\ (code[i].op # "STATIC_FIELD" => new[i].class = code[i].class)
  BY <1>3, <1>5, <1>7
<1>9. ASSUME NEW i \in 1..Len(code)
      PROVE  CreateOK(new[i], said, 0) \/ new[i] \in StaticFields \/ MethodOK(new[i], names, said)
  <2>1. CASE i = k
    <3>1. CreateOK(code[k], said, b)
      BY <1>3, CompiledFacts DEF b
    <3> QED
      BY <1>3, <1>5, <1>7, <2>1, <3>1 DEF CreateOK
  <2>2. CASE i # k
    <3>1. new[i] = code[i]
      BY <1>7, <2>2
    <3>2. code[i].op = "CREATE_CLASS" => code[i].class # b
      <4> SUFFICES ASSUME code[i].op = "CREATE_CLASS", code[i].class = b PROVE FALSE
        OBVIOUS
      <4>1. i < k \/ k < i
        BY <1>2, <1>3, <2>2
      <4>2. i < k => InOrder(code[i], code[k])
        BY <1>3 DEF Compiled, CodeFollows, ItemsFollow
      <4>3. k < i => InOrder(code[k], code[i])
        BY <1>3 DEF Compiled, CodeFollows, ItemsFollow
      <4>4. b < b
        BY <1>3, <4>1, <4>2, <4>3 DEF InOrder
      <4> QED
        BY <1>2, <1>3, <4>4
    <3>3. CreateOK(code[i], said, b) \/ code[i] \in StaticFields \/ MethodOK(code[i], names, said)
      BY DEF b, Compiled, CodeFollows, ItemsFollow
    <3>4. CreateOK(code[i], said, b) => CreateOK(code[i], said, 0)
      BY <3>2, ItemFacts DEF CreateOK
    <3> QED
      BY <3>1, <3>3, <3>4
  <2> QED
    BY <2>1, <2>2
<1>10. ASSUME NEW i \in 1..Len(code), NEW j \in 1..Len(code), i < j PROVE InOrder(new[i], new[j])
  <2>1. InOrder(code[i], code[j])
    BY <1>10 DEF Compiled, CodeFollows, ItemsFollow
  <2>2. (new[i].op = "METHOD" => new[i] = code[i]) /\ (new[j].op = "METHOD" => new[j] = code[j])
    BY <1>3, <1>5, <1>7
  <2> QED
    BY <1>8, <2>1, <2>2 DEF InOrder
<1>11. \A i \in 1..Len(code) : \A c : CreatesClass(code[i], c) => CreatesClass(new[i], c)
  BY <1>8 DEF CreatesClass
<1>12. ASSUME NEW j \in 1..Len(code), new[j].op = "CREATE_CLASS", new[j].class > 1
       PROVE  \E i \in 1..(j - 1) : CreatesClass(new[i], new[j].class - 1)
  <2>1. code[j].op = "CREATE_CLASS" /\ code[j].class = new[j].class
    BY <1>8, <1>12
  <2>2. PICK i \in 1..(j - 1) : CreatesClass(code[i], code[j].class - 1)
    BY <1>12, <2>1 DEF Compiled, CodeFollows, ItemsFollow
  <2>3. i \in 1..Len(code)
    BY <1>2
  <2> QED
    BY <1>11, <2>1, <2>2, <2>3
<1>13. CodeFollows(new, names, said, 0)
  <2>1. \A c \in 1..Len(said) : \E i \in 1..Len(new) : CreatesClass(new[i], c)
    BY <1>7, <1>11 DEF Compiled, CodeFollows
  <2> QED
    BY <1>7, <1>9, <1>10, <1>12, <2>1 DEF CodeFollows, ItemsFollow
<1>14. CodeHas(new, names, said)
  <2>1. \A i \in 1..Len(code) : code[i].op = "METHOD" => new[i] = code[i]
    BY <1>3, <1>7
  <2> QED
    BY <1>7, <2>1 DEF CodeHas, Compiled
<1>15. book' \in BookTypes /\ book'.class = 0
  BY <1>1 DEF NoBook, BookTypes
<1>16. Compiled'
  BY <1>1, <1>6, <1>13, <1>14, <1>15 DEF Compiled, BookOK
<1> QED
  BY <1>1, <1>16 DEF Fresh, Untouched

\* The class that is being read.
LEMMA OpenFacts ==
  ASSUME Compiled, phase = "class"
  PROVE  /\ book \in BookTypes /\ book.class # 0 /\ book.class = Len(said) /\ book.class \in 1..Len(said)
         /\ book.fields = said[book.class].fields /\ book.fields \in Nat
         /\ book.instantMethods = said[book.class].defined /\ book.staticMethods = said[book.class].static
         /\ book.createClass \in 1..Len(code) /\ CreatesClass(code[book.createClass], book.class)
         /\ book.class \in Nat /\ book.instantMethods \subseteq Sign \cup {New} /\ book.staticMethods \subseteq Sign
         /\ book.createClass \in Nat
<1>1. /\ book \in BookTypes /\ book.class # 0 /\ book.class = Len(said) /\ book.fields = said[book.class].fields
      /\ book.instantMethods = said[book.class].defined /\ book.staticMethods = said[book.class].static
      /\ book.createClass \in 1..Len(code) /\ CreatesClass(code[book.createClass], book.class)
  BY DEF Compiled, BookOK
<1>2. book.class \in 1..Len(said)
  BY <1>1, CompiledFacts
<1>3. /\ book.class \in Nat /\ book.fields \in Nat /\ book.instantMethods \subseteq Sign \cup {New}
      /\ book.staticMethods \subseteq Sign /\ book.createClass \in Nat
  BY <1>1 DEF BookTypes
<1> QED
  BY <1>1, <1>2, <1>3

\* What is said of the open class changes.
LEMMA SaidChanged ==
  ASSUME NEW sd, SaidOK(sd), NEW b \in 1..Len(sd), NEW t \in SaidTypes,
         t.superClass = sd[b].superClass, sd[b].fields <= t.fields, ManyFields \/ t.fields < BYTE,
         sd[b].defined \subseteq t.defined, sd[b].static \subseteq t.static
  PROVE  LET ts == [sd EXCEPT ![b] = t]
         IN  /\ SaidOK(ts) /\ Len(ts) = Len(sd) /\ SaysMore(sd, ts, b)
             /\ ts[b] = t /\ \A c \in 1..Len(sd) : c # b => ts[c] = sd[c]
<1> DEFINE ts == [sd EXCEPT ![b] = t]
<1>1. ts \in Seq(SaidTypes) /\ Len(ts) = Len(sd) /\ \A c \in 1..Len(sd) : ts[c] = IF c = b THEN t ELSE sd[c]
  BY ExceptSeq DEF SaidOK
<1> HIDE DEF ts
<1>2. SaidOK(ts)
  BY <1>1, SaidFacts DEF SaidOK
<1>3. SaysMore(sd, ts, b)
  BY <1>1, SaidFacts DEF SaysMore
<1> QED
  BY <1>1, <1>2, <1>3 DEF ts

LEMMA FieldCompiles ==
  ASSUME Compiled, Fresh, Field
  PROVE  Compiled' /\ Fresh'
<1> DEFINE b == book.class
           t == [said[b] EXCEPT !.fields = @ + 1]
           ts == [said EXCEPT ![b] = t]
           names == allMethodNames
<1>1. /\ phase = "class" /\ members < MaxMembers /\ (ManyFields \/ book.fields < BYTE - 1)
      /\ book' = [book EXCEPT !.fields = @ + 1]
      /\ said' = [said EXCEPT ![b].fields = @ + 1]
      /\ members' = members + 1
      /\ UNCHANGED <<allMethodNames, code, phase, pc, stack, moduleVars, classes>>
  BY DEF Field, Writable, run
<1>2. said' = ts
  BY <1>1
<1>3. /\ b \in 1..Len(said) /\ SaidOK(said) /\ said[b] \in SaidTypes /\ book.fields = said[b].fields
      /\ said[b].fields \in Nat /\ Len(names) \in Nat /\ NamesOK(names) /\ BYTE \in Nat
  BY <1>1, CompiledFacts, OpenFacts, SaidFacts DEF Compiled
<1>4. /\ t \in SaidTypes /\ t.superClass = said[b].superClass /\ t.fields = said[b].fields + 1
      /\ t.defined = said[b].defined /\ t.static = said[b].static
  <2>1. PICK r, u, f : r = said[b] /\ u = t /\ f = r.fields + 1
    OBVIOUS
  <2>2. u = [r EXCEPT !.fields = f] /\ r \in SaidTypes /\ f \in Nat
    BY <1>3, <2>1
  <2>3. /\ u \in SaidTypes /\ u.superClass = r.superClass /\ u.fields = f
        /\ u.defined = r.defined /\ u.static = r.static
    BY ONLY <2>2 DEF SaidTypes
  <2> QED
    BY <2>1, <2>3
<1>5. said[b].fields <= t.fields /\ (ManyFields \/ t.fields < BYTE)
  BY <1>1, <1>3, <1>4
<1> HIDE DEF t
<1>6. /\ SaidOK(ts) /\ Len(ts) = Len(said) /\ SaysMore(said, ts, b)
      /\ ts[b] = t /\ \A c \in 1..Len(said) : c # b => ts[c] = said[c]
  BY <1>3, <1>4, <1>5, SaidChanged
<1> HIDE DEF ts
<1>7. ItemsFollow(code, names, ts, b)
  BY <1>3, <1>6, NamesSame, FollowsMore DEF Compiled, CodeFollows
<1>8. CodeFollows(code, names, ts, b)
  BY <1>6, <1>7 DEF Compiled, CodeFollows
<1>9. CodeHas(code, names, ts)
  <2>1. \A c \in 1..Len(said) : ts[c].defined = said[c].defined
    BY <1>4, <1>6
  <2> QED
    BY <1>6, <2>1 DEF Compiled, CodeHas
<1>10. book' \in BookTypes /\ book'.class = b /\ book'.fields = t.fields /\ book'.instantMethods = t.defined
       /\ book'.staticMethods = t.static /\ book'.createClass = book.createClass
  <2>1. /\ book \in BookTypes /\ book.fields \in Nat /\ book.instantMethods = said[b].defined
        /\ book.staticMethods = said[b].static
    BY <1>1, OpenFacts
  <2>2. /\ book' \in BookTypes /\ book'.class = b /\ book'.fields = book.fields + 1
        /\ book'.instantMethods = book.instantMethods /\ book'.staticMethods = book.staticMethods
        /\ book'.createClass = book.createClass
    BY <1>1, <2>1 DEF BookTypes
  <2> QED
    BY <1>3, <1>4, <2>1, <2>2
<1>11. BookOK'
  BY <1>1, <1>2, <1>6, <1>10, OpenFacts DEF BookOK
<1>12. members' \in 0..MaxMembers
  BY <1>1, ClassesAssumption DEF Compiled
<1>13. Compiled'
  BY <1>1, <1>2, <1>6, <1>8, <1>9, <1>10, <1>11, <1>12 DEF Compiled
<1> QED
  BY <1>1, <1>13 DEF Fresh, Untouched

LEMMA StaticFieldCompiles ==
  ASSUME Compiled, Fresh, NEW initialized \in BOOLEAN, StaticField(initialized), localVarNum \in Nat
  PROVE  Compiled' /\ Fresh'
<1> DEFINE b == book.class
           index == localVarNum
           value == IF initialized THEN Initial(index) ELSE Null
           t == [said[b] EXCEPT !.statics = Append(@, value)]
           ts == [said EXCEPT ![b] = t]
           x == [op |-> "STATIC_FIELD", index |-> index, initialized |-> initialized]
           new == Append(code, x)
           names == allMethodNames
<1>1. /\ phase = "class" /\ members < MaxMembers
      /\ code' = new
      /\ said' = [said EXCEPT ![b].statics = Append(@, IF initialized THEN Initial(index) ELSE Null)]
      /\ members' = members + 1
      /\ UNCHANGED <<allMethodNames, book, phase, pc, stack, moduleVars, classes>>
  BY DEF StaticField, Writable, run
<1>2. said' = ts
  BY <1>1
<1>3. /\ b \in 1..Len(said) /\ SaidOK(said) /\ said[b] \in SaidTypes /\ said[b].statics \in Seq(Values)
      /\ said[b].fields \in Nat /\ Len(names) \in Nat /\ NamesOK(names) /\ BYTE \in Nat
  BY <1>1, CompiledFacts, OpenFacts, SaidFacts DEF Compiled
<1>4. value \in Values /\ Append(said[b].statics, value) \in Seq(Values)
  <2>1. value \in Values
    BY DEF Values
  <2> HIDE DEF value
  <2> QED
    BY <1>3, <2>1, AppendProperties
<1> HIDE DEF value
<1>5. /\ t \in SaidTypes /\ t.superClass = said[b].superClass /\ t.fields = said[b].fields
      /\ t.defined = said[b].defined /\ t.static = said[b].static
  BY <1>3, <1>4 DEF SaidTypes
<1>6. said[b].fields <= t.fields /\ (ManyFields \/ t.fields < BYTE)
  BY <1>3, <1>5 DEF SaidOK
<1>7. x \in StaticFields /\ x \in Items /\ x.op = "STATIC_FIELD"
  BY DEF StaticFields, Items
<1> HIDE DEF t, x, index
<1>8. /\ SaidOK(ts) /\ Len(ts) = Len(said) /\ SaysMore(said, ts, b)
      /\ ts[b] = t /\ \A c \in 1..Len(said) : c # b => ts[c] = said[c]
  BY <1>3, <1>5, <1>6, SaidChanged
<1> HIDE DEF ts
<1>9. ItemsFollow(code, names, ts, b)
  BY <1>3, <1>8, NamesSame, FollowsMore DEF Compiled, CodeFollows
<1>10. /\ ItemsFollow(new, names, ts, b) /\ Len(new) = Len(code) + 1
       /\ \A i \in 1..Len(code) : i \in 1..Len(new) /\ new[i] = code[i]
  <2>1. \A i \in 1..Len(code) : InOrder(code[i], x)
    BY <1>7 DEF InOrder
  <2> QED
    BY <1>7, <1>9, <2>1, FollowsAppended
<1> HIDE DEF new
<1>11. CodeFollows(new, names, ts, b)
  <2> SUFFICES ASSUME NEW c \in 1..Len(said) PROVE \E i \in 1..Len(new) : CreatesClass(new[i], c)
    BY <1>8, <1>10 DEF CodeFollows
  <2>1. PICK i \in 1..Len(code) : CreatesClass(code[i], c)
    BY DEF Compiled, CodeFollows
  <2> QED
    BY <1>10, <2>1
<1>12. CodeHas(new, names, ts)
  <2>1. \A c \in 1..Len(said) : ts[c].defined = said[c].defined
    BY <1>5, <1>8
  <2>2. CodeHas(new, names, said)
    BY <1>3, <1>10, NamesSame, HasAppended DEF Compiled
  <2> QED
    BY <1>8, <2>1, <2>2 DEF CodeHas
<1>13. BookOK'
  <2>1. book.createClass \in 1..Len(new) /\ CreatesClass(new[book.createClass], b)
    BY <1>1, <1>10, OpenFacts
  <2> QED
    BY <1>1, <1>2, <1>5, <1>8, <2>1, OpenFacts DEF BookOK
<1>14. members' \in 0..MaxMembers
  BY <1>1, ClassesAssumption DEF Compiled
<1>15. Compiled'
  BY <1>1, <1>2, <1>8, <1>11, <1>12, <1>13, <1>14 DEF Compiled
<1> QED
  BY <1>1, <1>15 DEF Fresh, Untouched

\* A body is one of those compileMethod() can write.
LEMMA BodiesAre ==
  ASSUME Compiled, phase = "class", NEW names, NEW index \in Nat, index <= Len(names), Len(names) \in Nat,
         NEW isStatic \in BOOLEAN, NEW body \in Bodies(index, isStatic)
  PROVE  /\ body \in Fns /\ body.class = book.class /\ FnOK(body, names, book.fields)
         /\ body.op # "CONSTRUCT" /\ (isStatic => body.op # "LOAD_THIS_FIELD")
<1>1. /\ book.class \in Int /\ book.fields \in Nat /\ BYTE \in Nat /\ BYTE > 0 /\ BlockFields \in BOOLEAN /\ NoBase \in Int
      /\ index \in Int
  BY OpenFacts, CompiledFacts, ClassesAssumption, EntriesApart
<1>2. Plain = [class |-> book.class, op |-> "PUSH_NULL", operand |-> 0, base |-> NoBase, inBlock |-> FALSE, field |-> 0]
  <2>1. PICK p : p = Plain
    OBVIOUS
  <2>2. p = [class |-> book.class, op |-> "PUSH_NULL", operand |-> 0, base |-> NoBase, inBlock |-> FALSE, field |-> 0]
    BY <2>1 DEF Plain, NoFn
  <2> QED
    BY <2>1, <2>2
<1>3. CASE body = Plain
  <2>1. body = [class |-> book.class, op |-> "PUSH_NULL", operand |-> 0, base |-> NoBase, inBlock |-> FALSE, field |-> 0]
    BY <1>2, <1>3
  <2>2. /\ body \in Fns /\ body.class = book.class /\ body.op = "PUSH_NULL" /\ body.operand = 0 /\ body.base = NoBase
    BY <1>1, <2>1 DEF Fns
  <2> QED
    BY <2>2 DEF FnOK
<1>4. ASSUME NEW i \in 0..book.fields - 1, NEW c \in Places(BlockFields), ~isStatic, body = UseOfField(i, c)
      PROVE  /\ body \in Fns /\ body.class = book.class /\ FnOK(body, names, book.fields)
             /\ body.op = "LOAD_THIS_FIELD"
  <2>1. i \in Int /\ i % BYTE \in Nat /\ c \in BOOLEAN /\ (~BlockFields => c = FALSE)
    <3>1. i \in Nat /\ i % BYTE \in Nat
      BY <1>1
    <3>2. c = FALSE \/ c = BlockFields
      BY DEF Places
    <3>3. c \in BOOLEAN
      BY <1>1, <3>2
    <3>4. ~BlockFields => c = FALSE
      BY <1>1, <3>2
    <3> QED
      BY <3>1, <3>3, <3>4
  <2>2. body = [class |-> book.class, op |-> "LOAD_THIS_FIELD", operand |-> i % BYTE, base |-> NoBase, inBlock |-> c,
                field |-> i]
    BY <1>2, <1>4 DEF UseOfField
  <2>3. /\ body \in Fns /\ body.class = book.class /\ body.op = "LOAD_THIS_FIELD" /\ body.field = i
        /\ body.operand = i % BYTE /\ body.inBlock = c /\ body.base = NoBase
    <3>1. i % BYTE \in Int
      BY <2>1
    <3> QED
      BY <1>1, <2>1, <2>2, <3>1 DEF Fns
  <2> QED
    BY <2>1, <2>3 DEF FnOK
<1>5. ASSUME NEW c \in Places(~isStatic), body = SuperCall(index, c)
      PROVE  body \in Fns /\ body.class = book.class /\ FnOK(body, names, book.fields) /\ body.op = "SUPER"
  <2>1. c \in BOOLEAN
    <3>1. c = FALSE \/ c = ~isStatic
      BY DEF Places
    <3> QED
      BY <3>1
  <2>2. body = [class |-> book.class, op |-> "SUPER", operand |-> index, base |-> NoBase, inBlock |-> c, field |-> 0]
    BY <1>2, <1>5 DEF SuperCall
  <2>3. /\ body \in Fns /\ body.class = book.class /\ body.op = "SUPER" /\ body.operand = index /\ body.base = NoBase
    BY <1>1, <2>1, <2>2 DEF Fns
  <2> QED
    BY <2>3 DEF FnOK
<1>6. \/ body = Plain
      \/ \E i \in 0..book.fields - 1, c \in Places(BlockFields) : ~isStatic /\ body = UseOfField(i, c)
      \/ \E c \in Places(~isStatic) : body = SuperCall(index, c)
  <2> DEFINE A == {SuperCall(index, c) : c \in Places(~isStatic)}
             B == {UseOfField(i, c) : i \in 0..book.fields - 1, c \in Places(BlockFields)}
  <2>1. body \in {Plain} \cup A \cup IF isStatic THEN {} ELSE B
    BY DEF Bodies
  <2>2. body \in A => \E c \in Places(~isStatic) : body = SuperCall(index, c)
    OBVIOUS
  <2>3. body \in B => \E i \in 0..book.fields - 1, c \in Places(BlockFields) : body = UseOfField(i, c)
    OBVIOUS
  <2> HIDE DEF A, B
  <2>4. body = Plain \/ body \in A \/ (~isStatic /\ body \in B)
    BY <2>1
  <2> QED
    BY <2>2, <2>3, <2>4
<1>7. Plain.op = "PUSH_NULL"
  BY <1>2
<1> QED
  BY <1>3, <1>4, <1>5, <1>6, <1>7
LEMMA LocalsAreCounted == ASSUME Compiled PROVE localVarNum \in Nat
<1> DEFINE S == {i \in DOMAIN code : code[i].op = "STATIC_FIELD"}
<1>1. Len(code) \in Nat /\ DOMAIN code = 1..Len(code)
  BY CompiledFacts
<1>2. IsFiniteSet(1..Len(code)) /\ S \subseteq 1..Len(code)
  BY <1>1, FS_Interval
<1>3. IsFiniteSet(S)
  BY <1>2, FS_Subset
<1>4. Cardinality(S) \in Nat
  BY <1>3, FS_CardinalityType
<1> QED
  BY <1>4 DEF localVarNum

\* A signature that was not said of the open class has an index of its own there.
LEMMA IndexIsFree ==
  ASSUME Compiled, phase = "class", NEW more, NamesMore(allMethodNames, more), NamesOK(more), NEW i \in 1..Len(code),
         code[i].op = "METHOD", code[i].class = book.class, NEW sign \in Sign \cup {New}, NEW k, Named(more, sign, k)
  PROVE  /\ ~code[i].isStatic /\ sign \notin said[book.class].defined => code[i].index # k
         /\ code[i].isStatic /\ sign \in Sign /\ sign \notin said[book.class].static => code[i].index # k
         /\ code[i].isStatic /\ sign = New /\ New \notin said[book.class].defined => code[i].index # k
<1> DEFINE x == code[i]
           b == book.class
<1>1. MethodOK(x, allMethodNames, said) /\ x.class = b
  BY CompiledFacts
<1>2. said[b].static \subseteq Sign /\ New \notin Sign
  BY OpenFacts, ClassesAssumption
<1>3. \A s : Named(allMethodNames, s, x.index) /\ x.index = k => s = sign
  BY NamedOnce DEF NamesMore
<1> HIDE DEF x, b
<1>4. ~x.isStatic => \E s \in said[b].defined : Named(allMethodNames, s, x.index)
  BY <1>1 DEF MethodOK
<1>5. x.isStatic => \/ New \in said[b].defined /\ Named(allMethodNames, New, x.index)
                    \/ \E s \in said[b].static : Named(allMethodNames, s, x.index)
  BY <1>1 DEF MethodOK
<1>6. ~x.isStatic /\ sign \notin said[b].defined => x.index # k
  BY <1>3, <1>4
<1>7. x.isStatic /\ sign \in Sign /\ sign \notin said[b].static => x.index # k
  BY <1>2, <1>3, <1>5
<1>8. x.isStatic /\ sign = New /\ New \notin said[b].defined => x.index # k
  BY <1>2, <1>3, <1>5
<1> QED
  BY <1>6, <1>7, <1>8 DEF x, b

\* A method is bound after all that is there.
LEMMA BindAppended ==
  ASSUME NEW cd, NEW names, NEW sd, SaidOK(sd), NEW b, b = Len(sd), ItemsFollow(cd, names, sd, b),
         NEW x, MethodOK(x, names, sd), x.class = b,
         \A i \in 1..Len(cd) : cd[i].op = "METHOD" /\ cd[i].class = b => cd[i].isStatic # x.isStatic \/ cd[i].index # x.index
  PROVE  LET new == Append(cd, x)
         IN  /\ ItemsFollow(new, names, sd, b)
             /\ Len(new) = Len(cd) + 1 /\ new[Len(cd) + 1] = x
             /\ \A i \in 1..Len(cd) : i \in 1..Len(new) /\ new[i] = cd[i]
<1>1. x \in Binds /\ x.op = "METHOD" /\ x \in Items
  BY ItemFacts DEF MethodOK, Items
<1>2. Len(sd) \in Nat
  BY SaidFacts
<1>3. ASSUME NEW i \in 1..Len(cd) PROVE InOrder(cd[i], x)
  <2>1. cd[i].op = "CREATE_CLASS" => cd[i].class \in 1..Len(sd)
    <3>1. CreateOK(cd[i], sd, b) \/ cd[i] \in StaticFields \/ cd[i] \in Binds
      BY DEF ItemsFollow, MethodOK
    <3> QED
      BY <3>1, ItemFacts DEF CreateOK
  <2>2. cd[i].op = "CREATE_CLASS" => cd[i].class <= x.class
    BY <1>2, <2>1
  <2> QED
    BY <1>1, <2>2 DEF InOrder
<1> QED
  BY <1>1, <1>3, FollowsAppended

LEMMA MethodCompiles ==
  ASSUME Compiled, Fresh, NEW sign \in Sign, NEW isStatic \in BOOLEAN, Method(sign, isStatic)
  PROVE  Compiled' /\ Fresh'
<1> DEFINE b == book.class
           names == EnsureSymbolExist(allMethodNames, sign)
           index == IndexOf(names, sign)
           t == IF isStatic THEN [said[b] EXCEPT !.static = @ \cup {sign}]
                ELSE [said[b] EXCEPT !.defined = @ \cup {sign}]
           ts == [said EXCEPT ![b] = t]
<1>1. /\ phase = "class" /\ members < MaxMembers /\ ~Repeated(sign, isStatic)
      /\ allMethodNames' = names
      /\ book' = IF isStatic THEN [book EXCEPT !.staticMethods = @ \cup {sign}]
                 ELSE [book EXCEPT !.instantMethods = @ \cup {sign}]
      /\ \E body \in Bodies(index, isStatic) : code' = Append(code, Bind(isStatic, index, body))
      /\ said' = IF isStatic THEN [said EXCEPT ![b].static = @ \cup {sign}]
                 ELSE [said EXCEPT ![b].defined = @ \cup {sign}]
      /\ members' = members + 1
      /\ UNCHANGED <<phase, pc, stack, moduleVars, classes>>
  BY DEF Method, Writable, run
<1>2. said' = ts
  BY <1>1
<1>3. PICK body \in Bodies(index, isStatic) : code' = Append(code, Bind(isStatic, index, body))
  BY <1>1
<1>4. /\ b \in 1..Len(said) /\ b = Len(said) /\ SaidOK(said) /\ said[b] \in SaidTypes /\ said[b].fields \in Nat
      /\ NamesOK(allMethodNames)
      /\ book.fields = said[b].fields /\ New \notin Sign
  BY <1>1, CompiledFacts, OpenFacts, SaidFacts, ClassesAssumption DEF Compiled
<1>5. NamesMore(allMethodNames, names) /\ NamesOK(names) /\ Named(names, sign, index) /\ index < Len(names)
  BY <1>4, EnsuredIs DEF NamesMore
<1> HIDE DEF index, names
<1>6. Len(names) \in Nat /\ index \in Nat /\ Len(allMethodNames) \in Nat
  BY <1>5, CompiledFacts, LenProperties DEF NamesOK, Named
<1>7. /\ body \in Fns /\ body.class = b /\ FnOK(body, names, said[b].fields)
      /\ body.op # "CONSTRUCT" /\ (isStatic => body.op # "LOAD_THIS_FIELD")
  <2>1. phase = "class" /\ index <= Len(names) /\ book.class = b /\ book.fields = said[b].fields
    BY <1>1, <1>4, <1>5, <1>6
  <2> HIDE DEF b
  <2>2. /\ body \in Fns /\ body.class = book.class /\ FnOK(body, names, book.fields)
        /\ body.op # "CONSTRUCT" /\ (isStatic => body.op # "LOAD_THIS_FIELD")
    BY <1>3, <1>6, <2>1, BodiesAre
  <2> QED
    BY <2>1, <2>2
<1>8. /\ t \in SaidTypes /\ t.superClass = said[b].superClass /\ t.fields = said[b].fields
      /\ t.defined = IF isStatic THEN said[b].defined ELSE said[b].defined \cup {sign}
      /\ t.static = IF isStatic THEN said[b].static \cup {sign} ELSE said[b].static
  BY <1>4 DEF SaidTypes
<1> HIDE DEF t
<1>9. /\ SaidOK(ts) /\ Len(ts) = Len(said) /\ SaysMore(said, ts, b)
      /\ ts[b] = t /\ \A c \in 1..Len(said) : c # b => ts[c] = said[c]
  <2>1. said[b].fields <= t.fields /\ (ManyFields \/ t.fields < BYTE)
    BY <1>4, <1>8 DEF SaidOK
  <2>2. said[b].defined \subseteq t.defined /\ said[b].static \subseteq t.static
    BY <1>8
  <2> QED
    BY <1>4, <1>8, <2>1, <2>2, SaidChanged
<1> HIDE DEF ts
<1>10. PICK x : x = Bind(isStatic, index, body)
  OBVIOUS
<1>11. /\ x.op = "METHOD" /\ x.isStatic = isStatic /\ x.class = b /\ x.index = index /\ x.fn = body /\ x \in Binds
  <2>1. b \in Nat
    BY <1>1, OpenFacts
  <2>2. x = [op |-> "METHOD", isStatic |-> isStatic, class |-> b, index |-> index, fn |-> body]
    BY <1>10 DEF Bind
  <2> QED
    BY <1>6, <1>7, <2>1, <2>2 DEF Binds
<1>12. MethodOK(x, names, ts)
  <2>1. isStatic => sign \in ts[b].static
    BY <1>8, <1>9
  <2>2. ~isStatic => sign \in ts[b].defined
    BY <1>8, <1>9
  <2> QED
    BY <1>4, <1>5, <1>7, <1>8, <1>9, <1>11, <2>1, <2>2 DEF MethodOK
<1>13. \A i \in 1..Len(code) : code[i].op = "METHOD" /\ code[i].class = b =>
         code[i].isStatic # x.isStatic \/ code[i].index # x.index
  <2> SUFFICES ASSUME NEW i \in 1..Len(code), code[i].op = "METHOD", code[i].class = b, code[i].isStatic = isStatic
               PROVE  code[i].index # index
    BY <1>11
  <2>1. isStatic => sign \notin said[b].static
    BY <1>1, OpenFacts DEF Repeated
  <2>2. ~isStatic => sign \notin said[b].defined
    BY <1>1, OpenFacts DEF Repeated
  <2> QED
    BY <1>1, <1>5, <2>1, <2>2, IndexIsFree
<1>14. ItemsFollow(code, names, ts, b)
  BY <1>4, <1>5, <1>6, <1>9, FollowsMore DEF Compiled, CodeFollows
<1>15. PICK new : new = Append(code, x)
  OBVIOUS
<1>16. /\ ItemsFollow(new, names, ts, b) /\ Len(new) = Len(code) + 1 /\ new[Len(code) + 1] = x
       /\ \A i \in 1..Len(code) : i \in 1..Len(new) /\ new[i] = code[i]
  BY <1>4, <1>9, <1>11, <1>12, <1>13, <1>14, <1>15, BindAppended
<1>17. code' = new
  BY <1>3, <1>10, <1>15
<1>18. CodeFollows(new, names, ts, b)
  <2> SUFFICES ASSUME NEW c \in 1..Len(said) PROVE \E i \in 1..Len(new) : CreatesClass(new[i], c)
    BY <1>9, <1>16 DEF CodeFollows
  <2>1. PICK i \in 1..Len(code) : CreatesClass(code[i], c)
    BY DEF Compiled, CodeFollows
  <2> QED
    BY <1>16, <2>1
<1>19. CodeHas(new, names, ts)
  <2>1. CodeHas(new, names, said)
    BY <1>5, <1>16, HasAppended DEF Compiled
  <2>2. ASSUME NEW c \in 1..Len(ts), NEW s \in ts[c].defined
        PROVE  \E i \in 1..Len(new) : new[i].op = "METHOD" /\ ~new[i].isStatic /\ new[i].class = c /\ Named(names, s, new[i].index)
    <3>1. c \in 1..Len(said)
      BY <1>9
    <3>2. CASE s \in said[c].defined
      BY <2>1, <3>1, <3>2 DEF CodeHas
    <3>3. CASE s \notin said[c].defined
      <4>1. c = b /\ ~isStatic /\ s = sign
        BY <1>8, <1>9, <2>2, <3>1, <3>3
      <4>2. Len(code) + 1 \in 1..Len(new)
        BY <1>16, CompiledFacts
      <4> QED
        BY <1>5, <1>11, <1>16, <4>1, <4>2
    <3> QED
      BY <3>2, <3>3
  <2>3. \A c \in 1..Len(ts) : New \in ts[c].defined => c \in 1..Len(said) /\ New \in said[c].defined
    BY <1>4, <1>8, <1>9
  <2> QED
    BY <2>1, <2>2, <2>3 DEF CodeHas
<1>20. /\ book' \in BookTypes /\ book'.class = b /\ book'.fields = book.fields /\ book'.createClass = book.createClass
       /\ book'.instantMethods = t.defined /\ book'.staticMethods = t.static
  <2>1. /\ book \in BookTypes /\ book.instantMethods = said[b].defined /\ book.staticMethods = said[b].static
    BY <1>1, OpenFacts
  <2>2. CASE isStatic
    <3>1. book' = [book EXCEPT !.staticMethods = @ \cup {sign}]
      BY <1>1, <2>2
    <3> QED
      BY <1>8, <2>1, <2>2, <3>1 DEF BookTypes
  <2>3. CASE ~isStatic
    <3>1. book' = [book EXCEPT !.instantMethods = @ \cup {sign}]
      BY <1>1, <2>3
    <3> QED
      BY <1>8, <2>1, <2>3, <3>1 DEF BookTypes
  <2> QED
    BY <2>2, <2>3
<1>21. BookOK'
  <2>1. book.createClass \in 1..Len(new) /\ CreatesClass(new[book.createClass], b)
    BY <1>1, <1>16, OpenFacts
  <2> QED
    BY <1>1, <1>2, <1>4, <1>8, <1>9, <1>17, <1>20, <2>1, OpenFacts DEF BookOK
<1>22. members' \in 0..MaxMembers
  BY <1>1, ClassesAssumption DEF Compiled
<1>23. Compiled'
  BY <1>1, <1>2, <1>5, <1>9, <1>17, <1>18, <1>19, <1>20, <1>21, <1>22 DEF Compiled
<1> QED
  BY <1>1, <1>23 DEF Fresh, Untouched

LEMMA TwoAppended ==
  ASSUME NEW S, NEW s \in Seq(S), NEW x \in S, NEW y \in S
  PROVE  s \o <<x, y>> = Append(Append(s, x), y)
<1> DEFINE u == <<x, y>>
           l == s \o u
           r == Append(Append(s, x), y)
<1>1. u \in Seq(S) /\ Len(u) = 2 /\ u[1] = x /\ u[2] = y /\ Len(s) \in Nat
  BY LenProperties
<1> HIDE DEF u
<1>2. l \in Seq(S) /\ Len(l) = Len(s) + 2 /\ \A i \in 1..Len(l) : l[i] = IF i <= Len(s) THEN s[i] ELSE u[i - Len(s)]
  <2>1. s \in Seq(S) /\ u \in Seq(S)
    BY <1>1
  <2>2. /\ s \o u \in Seq(S) /\ Len(s \o u) = Len(s) + Len(u)
        /\ \A i \in 1..Len(s) + Len(u) : (s \o u)[i] = IF i <= Len(s) THEN s[i] ELSE u[i - Len(s)]
    BY ONLY <2>1, ConcatProperties
  <2> QED
    BY <1>1, <2>2
<1>3. /\ Append(s, x) \in Seq(S) /\ Len(Append(s, x)) = Len(s) + 1
      /\ (\A i \in 1..Len(s) : Append(s, x)[i] = s[i]) /\ Append(s, x)[Len(s) + 1] = x
  BY AppendProperties
<1>4. /\ r \in Seq(S) /\ Len(r) = Len(s) + 2 /\ (\A i \in 1..Len(s) : r[i] = s[i])
      /\ r[Len(s) + 1] = x /\ r[Len(s) + 2] = y
  <2>1. r \in Seq(S) /\ Len(r) = Len(s) + 1 + 1 /\ (\A i \in 1..Len(s) + 1 : r[i] = Append(s, x)[i]) /\ r[Len(s) + 1 + 1] = y
    BY <1>3, AppendProperties
  <2>2. \A i \in 1..Len(s) : i \in 1..Len(s) + 1
    BY <1>1
  <2>3. Len(s) + 1 \in 1..Len(s) + 1 /\ Len(s) + 1 + 1 = Len(s) + 2
    BY <1>1
  <2> HIDE DEF r
  <2> QED
    BY <1>3, <2>1, <2>2, <2>3
<1> HIDE DEF l, r
<1>5. ASSUME NEW i \in 1..Len(l) PROVE l[i] = r[i]
  <2>1. i \in 1..Len(s) \/ i = Len(s) + 1 \/ i = Len(s) + 2
    BY <1>1, <1>2
  <2>2. CASE i \in 1..Len(s)
    BY <1>1, <1>2, <1>4, <2>2
  <2>3. CASE i = Len(s) + 1
    <3>1. ~(i <= Len(s)) /\ i - Len(s) = 1
      BY <1>1, <2>3
    <3> QED
      BY <1>1, <1>2, <1>4, <2>3, <3>1
  <2>4. CASE i = Len(s) + 2
    <3>1. ~(i <= Len(s)) /\ i - Len(s) = 2
      BY <1>1, <2>4
    <3> QED
      BY <1>1, <1>2, <1>4, <2>4, <3>1
  <2> QED
    BY <2>1, <2>2, <2>3, <2>4
<1>6. l = r
  BY <1>2, <1>4, <1>5, SeqEqual
<1> QED
  BY <1>6 DEF l, r, u

LEMMA ConstructorCompiles ==
  ASSUME Compiled, Fresh, Constructor
  PROVE  Compiled' /\ Fresh'
<1> DEFINE b == book.class
           names == EnsureSymbolExist(allMethodNames, New)
           index == IndexOf(names, New)
           creator == [NoFn EXCEPT !.class = b, !.op = "CONSTRUCT", !.operand = index]
           t == [said[b] EXCEPT !.defined = @ \cup {New}]
           ts == [said EXCEPT ![b] = t]
<1>1. /\ phase = "class" /\ members < MaxMembers /\ ~Repeated(New, FALSE)
      /\ allMethodNames' = names
      /\ book' = [book EXCEPT !.instantMethods = @ \cup {New}]
      /\ \E body \in Bodies(index, FALSE) :
           code' = code \o <<Bind(FALSE, index, body), Bind(TRUE, index, creator)>>
      /\ said' = [said EXCEPT ![b].defined = @ \cup {New}]
      /\ members' = members + 1
      /\ UNCHANGED <<phase, pc, stack, moduleVars, classes>>
  BY DEF Constructor, Writable, run
<1>2. said' = ts
  BY <1>1
<1>3. PICK body \in Bodies(index, FALSE) : code' = code \o <<Bind(FALSE, index, body), Bind(TRUE, index, creator)>>
  BY <1>1
<1>4. /\ b \in 1..Len(said) /\ b = Len(said) /\ SaidOK(said) /\ said[b] \in SaidTypes /\ said[b].fields \in Nat
      /\ NamesOK(allMethodNames) /\ New \in Sign \cup {New}
      /\ book.fields = said[b].fields /\ New \notin Sign /\ b \in Nat /\ code \in Seq(Items)
  BY <1>1, CompiledFacts, OpenFacts, SaidFacts, ClassesAssumption DEF Compiled
<1>5. NamesMore(allMethodNames, names) /\ NamesOK(names) /\ Named(names, New, index) /\ index < Len(names)
  BY <1>4, EnsuredIs DEF NamesMore
<1> HIDE DEF index, names
<1>6. Len(names) \in Nat /\ index \in Nat /\ Len(allMethodNames) \in Nat /\ index <= Len(names)
  <2>1. Len(names) \in Nat /\ index \in Nat /\ Len(allMethodNames) \in Nat
    BY <1>5, CompiledFacts, LenProperties DEF NamesOK, Named
  <2> QED
    BY <1>5, <2>1
<1>7. body \in Fns /\ body.class = b /\ FnOK(body, names, said[b].fields) /\ body.op # "CONSTRUCT"
  <2>1. phase = "class" /\ book.class = b /\ book.fields = said[b].fields /\ FALSE \in BOOLEAN
    BY <1>1, <1>4
  <2> HIDE DEF b
  <2>2. body \in Fns /\ body.class = book.class /\ FnOK(body, names, book.fields) /\ body.op # "CONSTRUCT"
    BY <1>3, <1>6, <2>1, BodiesAre
  <2> QED
    BY <2>1, <2>2
<1>8. PICK fn : fn = creator
  OBVIOUS
<1>9. fn \in Fns /\ fn.class = b /\ FnOK(fn, names, said[b].fields) /\ fn.op = "CONSTRUCT" /\ fn.operand = index
  <2>1. fn = [class |-> b, op |-> "CONSTRUCT", operand |-> index, base |-> NoBase, inBlock |-> FALSE, field |-> 0]
    BY <1>8 DEF NoFn
  <2>2. fn \in Fns /\ fn.class = b /\ fn.op = "CONSTRUCT" /\ fn.operand = index /\ fn.base = NoBase
    BY <1>4, <1>6, <2>1, EntriesApart DEF Fns
  <2> QED
    BY <1>6, <2>2 DEF FnOK
<1> HIDE DEF creator
<1>10. /\ t \in SaidTypes /\ t.superClass = said[b].superClass /\ t.fields = said[b].fields
       /\ t.defined = said[b].defined \cup {New} /\ t.static = said[b].static
  BY <1>4 DEF SaidTypes
<1> HIDE DEF t
<1>11. /\ SaidOK(ts) /\ Len(ts) = Len(said) /\ SaysMore(said, ts, b)
       /\ ts[b] = t /\ \A c \in 1..Len(said) : c # b => ts[c] = said[c]
  <2>1. said[b].fields <= t.fields /\ (ManyFields \/ t.fields < BYTE)
    BY <1>4, <1>10 DEF SaidOK
  <2>2. said[b].defined \subseteq t.defined /\ said[b].static \subseteq t.static
    BY <1>10
  <2> QED
    BY <1>4, <1>10, <2>1, <2>2, SaidChanged
<1> HIDE DEF ts
<1>12. PICK x : x = Bind(FALSE, index, body)
  OBVIOUS
<1>13. PICK y : y = Bind(TRUE, index, fn)
  OBVIOUS
<1>14. x.op = "METHOD" /\ x.isStatic = FALSE /\ x.class = b /\ x.index = index /\ x.fn = body /\ x \in Binds
  <2>1. x = [op |-> "METHOD", isStatic |-> FALSE, class |-> b, index |-> index, fn |-> body]
    BY <1>12 DEF Bind
  <2> QED
    BY <1>4, <1>6, <1>7, <2>1 DEF Binds
<1>15. y.op = "METHOD" /\ y.isStatic = TRUE /\ y.class = b /\ y.index = index /\ y.fn = fn /\ y \in Binds
  <2>1. y = [op |-> "METHOD", isStatic |-> TRUE, class |-> b, index |-> index, fn |-> fn]
    BY <1>13 DEF Bind
  <2> QED
    BY <1>4, <1>6, <1>9, <2>1 DEF Binds
<1>16. MethodOK(x, names, ts) /\ MethodOK(y, names, ts)
  <2>1. New \in ts[b].defined /\ ts[b].fields = said[b].fields /\ b \in 1..Len(ts)
    BY <1>4, <1>10, <1>11
  <2>2. MethodOK(x, names, ts)
    BY <1>5, <1>7, <1>14, <2>1 DEF MethodOK
  <2>3. MethodOK(y, names, ts)
    BY <1>5, <1>9, <1>15, <2>1 DEF MethodOK
  <2> QED
    BY <2>2, <2>3
<1>17. \A i \in 1..Len(code) : code[i].op = "METHOD" /\ code[i].class = b => code[i].index # index
  <2> SUFFICES ASSUME NEW i \in 1..Len(code), code[i].op = "METHOD", code[i].class = b
               PROVE  code[i].index # index
    OBVIOUS
  <2>1. New \notin said[b].defined
    BY <1>1, OpenFacts DEF Repeated
  <2>2. code[i].isStatic \in BOOLEAN
    BY CompiledFacts, ItemFacts
  <2> QED
    BY <1>1, <1>4, <1>5, <2>1, <2>2, IndexIsFree
<1>18. ItemsFollow(code, names, ts, b)
  BY <1>4, <1>5, <1>6, <1>11, FollowsMore DEF Compiled, CodeFollows
<1>19. PICK mid : mid = Append(code, x)
  OBVIOUS
<1>20. /\ ItemsFollow(mid, names, ts, b) /\ Len(mid) = Len(code) + 1 /\ mid[Len(code) + 1] = x
       /\ \A i \in 1..Len(code) : i \in 1..Len(mid) /\ mid[i] = code[i]
  BY <1>4, <1>11, <1>14, <1>16, <1>17, <1>18, <1>19, BindAppended
<1>21. Len(code) \in Nat
  BY CompiledFacts
<1>22. \A i \in 1..Len(mid) : mid[i].op = "METHOD" /\ mid[i].class = b => mid[i].isStatic # y.isStatic \/ mid[i].index # y.index
  <2> SUFFICES ASSUME NEW i \in 1..Len(mid), mid[i].op = "METHOD", mid[i].class = b
               PROVE  mid[i].isStatic # y.isStatic \/ mid[i].index # y.index
    OBVIOUS
  <2>1. CASE i \in 1..Len(code)
    BY <1>15, <1>17, <1>20, <2>1
  <2>2. CASE i = Len(code) + 1
    BY <1>14, <1>15, <1>20, <2>2
  <2>3. i \in 1..Len(code) \/ i = Len(code) + 1
    BY <1>20, <1>21
  <2> QED
    BY <2>1, <2>2, <2>3
<1>23. PICK new : new = Append(mid, y)
  OBVIOUS
<1>24. /\ ItemsFollow(new, names, ts, b) /\ Len(new) = Len(mid) + 1 /\ new[Len(mid) + 1] = y
       /\ \A i \in 1..Len(mid) : i \in 1..Len(new) /\ new[i] = mid[i]
  BY <1>4, <1>11, <1>15, <1>16, <1>20, <1>22, <1>23, BindAppended
<1>25. code' = new
  <2>1. code' = code \o <<x, y>>
    BY <1>3, <1>8, <1>12, <1>13
  <2>2. x \in Items /\ y \in Items
    BY <1>14, <1>15 DEF Items
  <2> QED
    BY <1>4, <1>19, <1>23, <2>1, <2>2, TwoAppended
<1>26. /\ \A i \in 1..Len(code) : i \in 1..Len(new) /\ new[i] = code[i]
       /\ Len(code) + 1 \in 1..Len(new) /\ new[Len(code) + 1] = x
       /\ Len(code) + 2 \in 1..Len(new) /\ new[Len(code) + 2] = y
  <2>1. Len(code) + 1 \in 1..Len(mid) /\ Len(mid) + 1 = Len(code) + 2 /\ Len(code) + 2 \in 1..Len(new)
    BY <1>20, <1>21, <1>24
  <2> QED
    BY <1>20, <1>24, <2>1
<1>27. CodeFollows(new, names, ts, b)
  <2> SUFFICES ASSUME NEW c \in 1..Len(said) PROVE \E i \in 1..Len(new) : CreatesClass(new[i], c)
    BY <1>11, <1>24 DEF CodeFollows
  <2>1. PICK i \in 1..Len(code) : CreatesClass(code[i], c)
    BY DEF Compiled, CodeFollows
  <2> QED
    BY <1>26, <2>1
<1>28. CodeHas(new, names, ts)
  <2>1. CodeHas(new, names, said)
    BY <1>5, <1>26, HasAppended DEF Compiled
  <2>2. ASSUME NEW c \in 1..Len(ts), NEW s \in ts[c].defined
        PROVE  \E i \in 1..Len(new) : new[i].op = "METHOD" /\ ~new[i].isStatic /\ new[i].class = c /\ Named(names, s, new[i].index)
    <3>1. c \in 1..Len(said)
      BY <1>11
    <3>2. CASE s \in said[c].defined
      BY <2>1, <3>1, <3>2 DEF CodeHas
    <3>3. CASE s \notin said[c].defined
      <4>1. c = b /\ s = New
        BY <1>10, <1>11, <2>2, <3>1, <3>3
      <4> QED
        BY <1>5, <1>14, <1>26, <4>1
    <3> QED
      BY <3>2, <3>3
  <2>3. ASSUME NEW c \in 1..Len(ts), New \in ts[c].defined
        PROVE  \E i \in 1..Len(new) : new[i].op = "METHOD" /\ new[i].isStatic /\ new[i].class = c /\ new[i].fn.op = "CONSTRUCT"
    <3>1. c \in 1..Len(said)
      BY <1>11
    <3>2. CASE c = b
      BY <1>9, <1>15, <1>26, <3>2
    <3>3. CASE c # b
      <4>1. New \in said[c].defined
        BY <1>11, <2>3, <3>1, <3>3
      <4> QED
        BY <2>1, <3>1, <4>1 DEF CodeHas
    <3> QED
      BY <3>2, <3>3
  <2> QED
    BY <2>2, <2>3 DEF CodeHas
<1>29. /\ book' \in BookTypes /\ book'.class = b /\ book'.fields = book.fields /\ book'.createClass = book.createClass
       /\ book'.instantMethods = t.defined /\ book'.staticMethods = t.static
  <2>1. /\ book \in BookTypes /\ book.instantMethods = said[b].defined /\ book.staticMethods = said[b].static
    BY <1>1, OpenFacts
  <2> QED
    BY <1>1, <1>10, <2>1 DEF BookTypes
<1>30. BookOK'
  <2>1. book.createClass \in 1..Len(new) /\ CreatesClass(new[book.createClass], b)
    BY <1>1, <1>26, OpenFacts
  <2> QED
    BY <1>1, <1>2, <1>4, <1>10, <1>11, <1>25, <1>29, <2>1, OpenFacts DEF BookOK
<1>31. members' \in 0..MaxMembers
  BY <1>1, ClassesAssumption DEF Compiled
<1>32. Compiled'
  BY <1>1, <1>2, <1>5, <1>11, <1>25, <1>27, <1>28, <1>29, <1>30, <1>31 DEF Compiled
<1> QED
  BY <1>1, <1>32 DEF Fresh, Untouched

-----------------------------------------------------------------------------
(***************************************************************************)
(* Running: the classes that exist, sd being what the program says and     *)
(* names the table of names.                                               *)
(***************************************************************************)
ClassTypes == [superClass : Nat, fieldNum : Nat, methods : Seq(Entries), meta : Seq(Entries)]

\* The classes up to K exist; each counts its fields after those of its base class.
HierarchyOK(cs, K, sd) ==
  /\ K \in 0..Len(sd) /\ DOMAIN cs = 0..K
  /\ \A c \in 0..K : cs[c] \in ClassTypes /\ cs[c].fieldNum <= MAX_FIELD_NUM
  /\ cs[0] = Object
  /\ \A c \in 1..K :
       /\ sd[c].superClass \in 0..(c - 1) /\ cs[c].superClass = sd[c].superClass
       /\ cs[c].fieldNum = (sd[c].fields % BYTE) + cs[sd[c].superClass].fieldNum

\* A method on the instances of c was written in a class with no more fields, whose operands
\* have been corrected once.
InstanceFn(cs, c, fn, sd, names) ==
  /\ fn.class \in DOMAIN cs \ {0} /\ cs[fn.class].fieldNum <= cs[c].fieldNum /\ fn.op # "CONSTRUCT"
  /\ fn.op = "LOAD_THIS_FIELD" =>
       /\ fn.field \in 0..sd[fn.class].fields - 1 /\ (~BlockFields => fn.inBlock = FALSE)
       /\ fn.operand = ((fn.field % BYTE) + cs[sd[fn.class].superClass].fieldNum) % BYTE
  /\ fn.op # "LOAD_THIS_FIELD" => fn.operand \in 0..Len(names)
  /\ fn.op = "SUPER" => fn.base = sd[fn.class].superClass

\* A static method of c was written in c; the one that creates instances calls the constructor.
MetaFn(c, fn, sd, names) ==
  /\ fn.class = c /\ fn.op # "LOAD_THIS_FIELD" /\ fn.operand \in 0..Len(names)
  /\ fn.op = "SUPER" => fn.base = classOfClass
  /\ fn.op = "CONSTRUCT" => New \in sd[c].defined /\ Named(names, New, fn.operand)

TableOf(cs, c, sd, names) ==
  /\ \A i \in 1..Len(cs[c].methods) :
       cs[c].methods[i].type = "script" => InstanceFn(cs, c, cs[c].methods[i].fn, sd, names)
  /\ \A i \in 1..Len(cs[c].meta) : cs[c].meta[i].type = "script" => MetaFn(c, cs[c].meta[i].fn, sd, names)
TablesOK(cs, sd, names) == \A c \in DOMAIN cs : TableOf(cs, c, sd, names)

VariablesOK(mv, cs) ==
  /\ DOMAIN mv = 0..MaxClasses /\ mv[0] = Class(0)
  /\ \A c \in 1..MaxClasses : mv[c] \in {Null, ClassName(c)} \/ (mv[c] = Class(c) /\ c \in DOMAIN cs)

\* The classes that exist are those whose creation has been executed.
CreatedOK(cs, cd, n, sd) ==
  \A c \in 1..Len(sd) : c \in DOMAIN cs <=> \E i \in 1..(n - 1) : CreatesClass(cd[i], c)

RunOK ==
  /\ pc \in 1..Len(code) + 1 /\ stack \in Seq(Values)
  /\ \E K : HierarchyOK(classes, K, said)
  /\ TablesOK(classes, said, allMethodNames)
  /\ VariablesOK(moduleVars, classes)
  /\ CreatedOK(classes, code, pc, said)

LEMMA PrimitivesAre ==
  /\ PrimitiveTable \in Seq(Entries) /\ Len(PrimitiveTable) = Cardinality(Primitive) /\ Cardinality(Primitive) \in Nat
  /\ \A i \in 1..Len(PrimitiveTable) : PrimitiveTable[i] = MT_PRIMITIVE
  /\ Object \in ClassTypes /\ Object.superClass = 0 /\ Object.fieldNum = 0
  /\ Object.methods = PrimitiveTable /\ Object.meta = PrimitiveTable
<1> DEFINE n == Cardinality(Primitive)
<1>1. n \in Nat
  BY NamesStart
<1> HIDE DEF n
<1>2. PICK t : t = [i \in 1..n |-> MT_PRIMITIVE]
  OBVIOUS
<1>3. t = PrimitiveTable
  BY <1>2 DEF PrimitiveTable, n
<1>4. t \in [1..n -> Entries]
  BY <1>2 DEF Entries
<1>5. t \in Seq(Entries)
  BY <1>1, <1>4, SeqDef
<1>6. Len(t) = n
  <2>1. Len(t) \in Nat /\ 1..Len(t) = 1..n
    BY <1>4, <1>5, LenProperties
  <2>2. n > 0 => n \in 1..Len(t)
    BY <1>1, <2>1
  <2>3. Len(t) > 0 => Len(t) \in 1..Len(t)
    BY <2>1
  <2>4. Len(t) > 0 => Len(t) \in 1..n
    BY <2>1, <2>3
  <2> QED
    BY <1>1, <2>1, <2>2, <2>4
<1>7. \A i \in 1..n : t[i] = MT_PRIMITIVE
  BY <1>2
<1>8. PICK o : o = [superClass |-> 0, fieldNum |-> 0, methods |-> t, meta |-> t]
  OBVIOUS
<1>9. o = Object
  BY <1>3, <1>8 DEF Object
<1>10. o \in ClassTypes /\ o.superClass = 0 /\ o.fieldNum = 0 /\ o.methods = t /\ o.meta = t
  BY <1>5, <1>8 DEF ClassTypes
<1> QED
  BY <1>1, <1>3, <1>5, <1>6, <1>7, <1>9, <1>10 DEF n

LEMMA UntouchedRuns ==
  ASSUME Compiled, Untouched
  PROVE  RunOK
<1>1. Len(said) \in Nat /\ Len(code) \in Nat /\ MAX_FIELD_NUM \in Nat /\ MaxClasses \in Nat
  BY CompiledFacts, ClassesAssumption
<1>2. DOMAIN classes = {0} /\ classes[0] = Object /\ pc = 1 /\ stack = <<>>
  BY DEF Untouched
<1>3. \A c : c \in 0..0 <=> c = 0
  OBVIOUS
<1>4. HierarchyOK(classes, 0, said)
  <2>1. DOMAIN classes = 0..0 /\ 0 \in 0..Len(said)
    BY <1>1, <1>2
  <2>2. \A c \in 0..0 : classes[c] \in ClassTypes /\ classes[c].fieldNum <= MAX_FIELD_NUM
    BY <1>1, <1>2, <1>3, PrimitivesAre
  <2>3. \A c \in 1..0 : FALSE
    OBVIOUS
  <2> QED
    BY <1>2, <2>1, <2>2, <2>3 DEF HierarchyOK
<1>5. TablesOK(classes, said, allMethodNames)
  <2>1. \A i \in 1..Len(PrimitiveTable) : PrimitiveTable[i].type # "script"
    BY PrimitivesAre, EntriesApart
  <2> QED
    BY <1>2, <2>1, PrimitivesAre DEF TablesOK, TableOf
<1>6. VariablesOK(moduleVars, classes)
  <2>1. 0 \in 0..MaxClasses /\ \A c \in 1..MaxClasses : c \in 0..MaxClasses /\ c # 0
    BY <1>1
  <2> QED
    BY <2>1 DEF VariablesOK, Untouched
<1>7. CreatedOK(classes, code, pc, said)
  <2>1. \A i \in 1..(pc - 1) : FALSE
    BY <1>2
  <2>2. \A c \in 1..Len(said) : c # 0
    OBVIOUS
  <2> QED
    BY <1>2, <2>1, <2>2 DEF CreatedOK
<1>8. stack \in Seq(Values) /\ pc \in 1..Len(code) + 1
  BY <1>1, <1>2, EmptySeq
<1> QED
  BY <1>4, <1>5, <1>6, <1>7, <1>8 DEF RunOK

\* A variable that holds a class holds its own.
LEMMA VariableIs ==
  ASSUME NEW mv, NEW cs, VariablesOK(mv, cs), NEW c \in 0..MaxClasses, 0 \in DOMAIN cs, IsClass(mv[c])
  PROVE  mv[c] = Class(c) /\ mv[c][2] = c /\ c \in DOMAIN cs
<1>1. ~IsClass(Null) /\ ~IsClass(ClassName(c))
  BY DEF IsClass, Null, ClassName
<1>2. c = 0 \/ c \in 1..MaxClasses
  BY ClassesAssumption
<1>3. mv[c] = Class(c) /\ c \in DOMAIN cs
  BY <1>1, <1>2 DEF VariablesOK
<1> QED
  BY <1>3 DEF Class

\* The code does not change when it runs.
LEMMA CompiledRuns ==
  ASSUME Compiled, phase = "running", UNCHANGED compiled, phase' \in {"running", "done", "error", "crashed"}
  PROVE  Compiled'
<1>1. UNCHANGED <<allMethodNames, book, code, members, said>>
  BY DEF compiled
<1>2. BookOK'
  BY <1>1 DEF Compiled, BookOK
<1> QED
  BY <1>1, <1>2 DEF Compiled

\* What is known of the next instruction.
LEMMA NextFacts ==
  ASSUME Compiled, RunOK, phase = "running", pc <= Len(code)
  PROVE  /\ pc \in 1..Len(code) /\ instr \in Items /\ book.class = 0 /\ pc \in Nat /\ pc + 1 \in 1..Len(code) + 1
         /\ (pc + 1) - 1 = pc /\ \A i \in 1..pc : i \in 1..(pc - 1) \/ i = pc
         /\ \A i \in 1..(pc - 1) : i \in 1..pc /\ i \in 1..Len(code) /\ i < pc /\ InOrder(code[i], instr)
         /\ instr.op = "CREATE_CLASS" =>
              /\ instr.class \in 1..Len(said) /\ instr.operand = said[instr.class].fields % BYTE
              /\ instr.superClass = said[instr.class].superClass /\ instr.superClass \in 0..instr.class
         /\ instr.op = "METHOD" => MethodOK(instr, allMethodNames, said) /\ instr.class \in 1..Len(said)
         /\ instr.op = "STATIC_FIELD" => instr \in StaticFields
         /\ \A c \in 1..Len(said) : c \in 1..MaxClasses /\ c \in 0..MaxClasses
<1>1. Len(code) \in Nat /\ Len(said) \in Nat /\ Len(said) <= MaxClasses /\ MaxClasses \in Nat
  BY CompiledFacts, ClassesAssumption DEF Compiled
<1>2. pc \in 1..Len(code) /\ pc \in Nat /\ pc + 1 \in 1..Len(code) + 1 /\ (pc + 1) - 1 = pc
  BY <1>1 DEF RunOK
<1>3. book.class = 0
  BY DEF Compiled, BookOK
<1>4. \A i \in 1..(pc - 1) : i \in 1..pc /\ i \in 1..Len(code) /\ i < pc
  BY <1>1, <1>2
<1>5. \A i \in 1..(pc - 1) : InOrder(code[i], instr)
  BY <1>2, <1>4 DEF Compiled, CodeFollows, ItemsFollow, instr
<1>6. \A i \in 1..pc : i \in 1..(pc - 1) \/ i = pc
  BY <1>2
<1>7. /\ instr \in Items
      /\ instr.op = "CREATE_CLASS" => CreateOK(instr, said, 0) /\ instr.class \in 1..Len(said)
      /\ instr.op = "METHOD" => MethodOK(instr, allMethodNames, said) /\ instr.class \in 1..Len(said)
      /\ instr.op = "STATIC_FIELD" => instr \in StaticFields
  BY <1>2, <1>3, CompiledFacts DEF instr
<1>8. \A c \in 1..Len(said) : c # 0 /\ c \in 1..MaxClasses /\ c \in 0..MaxClasses
  BY <1>1
<1>9. instr.op = "CREATE_CLASS" =>
        /\ instr.operand = said[instr.class].fields % BYTE
        /\ instr.superClass = said[instr.class].superClass /\ instr.superClass \in 0..instr.class
  BY <1>7, <1>8 DEF CreateOK, Compiled, SaidOK
<1> QED
  BY <1>2, <1>3, <1>4, <1>5, <1>6, <1>7, <1>8, <1>9

\* The instruction that creates class c comes after those of all classes before it.
LEMMA CreatesNext ==
  ASSUME Compiled, RunOK, phase = "running", pc <= Len(code), instr.op = "CREATE_CLASS",
         NEW K, HierarchyOK(classes, K, said)
  PROVE  instr.class = K + 1
<1> DEFINE c == instr.class
<1>1. /\ c \in 1..Len(said) /\ pc \in 1..Len(code) /\ Len(said) \in Nat /\ Len(code) \in Nat
      /\ \A i \in 1..(pc - 1) : InOrder(code[i], instr)
  BY NextFacts, CompiledFacts
<1>2. K \in Nat /\ DOMAIN classes = 0..K
  BY <1>1 DEF HierarchyOK
<1>3. c \notin 0..K
  <2> SUFFICES ASSUME c \in 0..K PROVE FALSE
    OBVIOUS
  <2>1. PICK i \in 1..(pc - 1) : CreatesClass(code[i], c)
    BY <1>1, <1>2 DEF RunOK, CreatedOK
  <2>2. c < c
    BY <1>1, <2>1 DEF InOrder, CreatesClass
  <2> QED
    BY <1>1, <2>2
<1>4. c > 1 => c - 1 \in 0..K
  <2> SUFFICES ASSUME c > 1 PROVE c - 1 \in 0..K
    OBVIOUS
  <2>1. \E i \in 1..(pc - 1) : CreatesClass(code[i], c - 1)
    BY <1>1 DEF Compiled, CodeFollows, ItemsFollow, instr
  <2>2. c - 1 \in 1..Len(said)
    BY <1>1
  <2> QED
    BY <1>2, <2>1, <2>2 DEF RunOK, CreatedOK
<1> HIDE DEF c
<1>5. c = K + 1
  BY <1>1, <1>2, <1>3, <1>4
<1> QED
  BY <1>5 DEF c

\* Executing an instruction that creates no class creates none.
LEMMA CreatedSame ==
  ASSUME Compiled, RunOK, phase = "running", pc <= Len(code), instr.op # "CREATE_CLASS",
         NEW cs, DOMAIN cs = DOMAIN classes
  PROVE  CreatedOK(cs, code, pc + 1, said)
<1> SUFFICES ASSUME NEW c \in 1..Len(said)
             PROVE  c \in DOMAIN cs <=> \E i \in 1..((pc + 1) - 1) : CreatesClass(code[i], c)
  BY DEF CreatedOK
<1>1. c \in DOMAIN cs <=> \E i \in 1..(pc - 1) : CreatesClass(code[i], c)
  BY DEF RunOK, CreatedOK
<1>2. (\E i \in 1..((pc + 1) - 1) : CreatesClass(code[i], c)) <=> \E i \in 1..(pc - 1) : CreatesClass(code[i], c)
  BY NextFacts DEF CreatesClass, instr
<1> QED
  BY <1>1, <1>2

LEMMA HierarchyFacts ==
  ASSUME NEW cs, NEW K, NEW sd, HierarchyOK(cs, K, sd), SaidOK(sd)
  PROVE  /\ K \in Nat /\ DOMAIN cs = 0..K /\ 0 \in 0..K /\ cs[0] = Object
         /\ \A c \in 0..K : /\ cs[c].superClass \in Nat /\ cs[c].fieldNum \in 0..MAX_FIELD_NUM
                            /\ cs[c].methods \in Seq(Entries) /\ cs[c].meta \in Seq(Entries)
                            /\ Len(cs[c].methods) \in Nat /\ Len(cs[c].meta) \in Nat
                            /\ DOMAIN cs[c].methods = 1..Len(cs[c].methods) /\ DOMAIN cs[c].meta = 1..Len(cs[c].meta)
                            /\ cs[c].superClass \in 0..K
                            /\ \A i \in 1..Len(cs[c].methods) : cs[c].methods[i] \in Entries
                            /\ \A i \in 1..Len(cs[c].meta) : cs[c].meta[i] \in Entries
         /\ \A c \in 1..K : /\ c \in 0..K /\ c \in 1..Len(sd) /\ sd[c].superClass \in 0..K /\ sd[c].superClass \in 0..(c - 1)
                            /\ cs[c].superClass = sd[c].superClass
<1>1. Len(sd) \in Nat /\ MAX_FIELD_NUM \in Nat
  BY SaidFacts, ClassesAssumption
<1>2. K \in Nat /\ DOMAIN cs = 0..K /\ 0 \in 0..K /\ cs[0] = Object /\ K <= Len(sd)
  BY <1>1 DEF HierarchyOK
<1>3. \A c \in 1..K : /\ c \in 0..K /\ c \in 1..Len(sd) /\ sd[c].superClass \in 0..K /\ sd[c].superClass \in 0..(c - 1)
                      /\ cs[c].superClass = sd[c].superClass
  BY <1>1, <1>2 DEF HierarchyOK
<1>4. ASSUME NEW c \in 0..K
      PROVE  /\ cs[c].superClass \in Nat /\ cs[c].fieldNum \in 0..MAX_FIELD_NUM
             /\ cs[c].methods \in Seq(Entries) /\ cs[c].meta \in Seq(Entries)
             /\ Len(cs[c].methods) \in Nat /\ Len(cs[c].meta) \in Nat
             /\ DOMAIN cs[c].methods = 1..Len(cs[c].methods) /\ DOMAIN cs[c].meta = 1..Len(cs[c].meta)
             /\ cs[c].superClass \in 0..K
             /\ \A i \in 1..Len(cs[c].methods) : cs[c].methods[i] \in Entries
             /\ \A i \in 1..Len(cs[c].meta) : cs[c].meta[i] \in Entries
  <2>1. cs[c] \in ClassTypes /\ cs[c].fieldNum <= MAX_FIELD_NUM
    BY DEF HierarchyOK
  <2>2. /\ cs[c].superClass \in Nat /\ cs[c].fieldNum \in Nat
        /\ cs[c].methods \in Seq(Entries) /\ cs[c].meta \in Seq(Entries)
    BY <2>1 DEF ClassTypes
  <2>3. cs[c].superClass \in 0..K
    <3>1. CASE c = 0
      BY <1>2, <3>1, PrimitivesAre
    <3>2. CASE c # 0
      <4>1. c \in 1..K
        BY <1>2, <3>2
      <4> QED
        BY <1>3, <4>1
    <3> QED
      BY <3>1, <3>2
  <2> QED
    BY <1>1, <2>1, <2>2, <2>3, LenProperties, ElementOfSeq
<1> QED
  BY <1>2, <1>3, <1>4

\* What CREATE_CLASS does.
LEMMA CreateClassIs ==
  ASSUME Compiled, RunOK, CreateClass
  PROVE  LET c == instr.class
             s == said[c].superClass
         IN  /\ phase = "running" /\ pc <= Len(code) /\ instr.op = "CREATE_CLASS"
             /\ HierarchyOK(classes, c - 1, said) /\ c \in 1..Len(said) /\ c \in 1..MaxClasses
             /\ s \in 0..(c - 1) /\ classes[s].fieldNum + instr.operand <= MAX_FIELD_NUM
             /\ DOMAIN classes' = 0..c /\ \A d \in 0..(c - 1) : d \in 0..c /\ classes'[d] = classes[d]
             /\ classes'[c] = [superClass |-> s, fieldNum |-> instr.operand + classes[s].fieldNum,
                               methods |-> classes[s].methods, meta |-> PrimitiveTable]
             /\ moduleVars' = [moduleVars EXCEPT ![c] = IF stack = <<>> THEN Class(c) ELSE ClassName(c)]
             /\ stack' \in Seq(Values) /\ (stack = <<>> => stack' = <<>>)
             /\ pc' = pc + 1 /\ UNCHANGED <<compiled, phase>>
<1> DEFINE c == instr.class
           s == said[c].superClass
           super == moduleVars[instr.superClass]
           slots == Append(stack, ClassName(c))
           created == Placed(slots, c)
           n == NewClass(super[2], instr.operand)
<1>1. /\ phase = "running" /\ pc <= Len(code) /\ instr.op = "CREATE_CLASS"
      /\ ValidSuperClass(super, instr.operand)
      /\ classes' = WithClass(c, n)
      /\ moduleVars' = [moduleVars EXCEPT ![c] = Last(created)]
      /\ stack' = Front(created)
      /\ pc' = pc + 1 /\ UNCHANGED <<compiled, phase>>
  BY DEF CreateClass, Running
<1>2. /\ c \in 1..Len(said) /\ c \in 1..MaxClasses /\ c \in Nat /\ instr.superClass = s /\ s \in 0..c /\ s \in 0..MaxClasses
  <2>1. /\ c \in 1..Len(said) /\ c \in 1..MaxClasses /\ instr.superClass = s /\ s \in 0..c /\ MaxClasses \in Nat
    BY <1>1, NextFacts, ClassesAssumption
  <2> HIDE DEF c, s
  <2> QED
    BY <2>1
<1>3. PICK K : HierarchyOK(classes, K, said)
  BY DEF RunOK
<1>4. c = K + 1 /\ K \in Nat /\ K = c - 1 /\ DOMAIN classes = 0..K /\ 0 \in 0..K
  <2>1. c = K + 1
    BY <1>1, <1>3, CreatesNext
  <2>2. K \in Nat /\ DOMAIN classes = 0..K /\ 0 \in 0..K
    BY <1>3, HierarchyFacts DEF Compiled
  <2> HIDE DEF c
  <2> QED
    BY <2>1, <2>2
<1>5. super[2] = s /\ s \in 0..(c - 1)
  <2>1. IsClass(super) /\ super = moduleVars[s]
    BY <1>1, <1>2 DEF ValidSuperClass
  <2>2. super[2] = s /\ s \in DOMAIN classes
    BY <1>2, <1>4, <2>1, VariableIs DEF RunOK
  <2> QED
    BY <1>4, <2>2
<1>6. classes[s].fieldNum + instr.operand <= MAX_FIELD_NUM
  BY <1>1, <1>5 DEF ValidSuperClass
<1>7. PICK new : new = NewClass(s, instr.operand)
  OBVIOUS
<1>8. new = [superClass |-> s, fieldNum |-> instr.operand + classes[s].fieldNum,
             methods |-> classes[s].methods, meta |-> PrimitiveTable]
  BY <1>7 DEF NewClass
<1>9. /\ DOMAIN classes' = 0..c /\ classes'[c] = new /\ \A d \in 0..(c - 1) : d \in 0..c /\ classes'[d] = classes[d]
  <2>1. classes' = WithClass(c, new)
    BY <1>1, <1>5, <1>7
  <2> HIDE DEF c, s, super, n
  <2>2. DOMAIN classes \cup {c} = 0..c
    BY <1>2, <1>4
  <2>3. classes' = [d \in 0..c |-> IF d = c THEN new ELSE classes[d]]
    BY <2>1, <2>2 DEF WithClass
  <2>4. c \in 0..c /\ \A d \in 0..(c - 1) : d \in 0..c /\ d # c
    BY <1>2
  <2> QED
    BY <2>3, <2>4
<1>10. /\ stack \in Seq(Values) /\ ClassName(c) \in Values /\ Class(c) \in Values /\ Len(stack) \in Nat
  <2>1. ClassName(c) \in Values /\ Class(c) \in Values
    BY <1>2 DEF Values
  <2> QED
    BY <2>1, LenProperties DEF RunOK
<1>11. /\ slots \in Seq(Values) /\ Len(slots) = Len(stack) + 1 /\ slots[Len(stack) + 1] = ClassName(c)
       /\ 1 \in 1..Len(slots) /\ Len(slots) \in 1..Len(slots) /\ Len(slots) \in Nat
  <2>1. slots \in Seq(Values) /\ Len(slots) = Len(stack) + 1 /\ slots[Len(stack) + 1] = ClassName(c)
    BY <1>10, AppendProperties
  <2> HIDE DEF slots
  <2> QED
    BY <1>10, <2>1
<1> HIDE DEF slots
<1>12. /\ created \in Seq(Values) /\ Len(created) = Len(slots)
       /\ \A i \in 1..Len(slots) : created[i] = IF i = 1 THEN Class(c) ELSE slots[i]
  <2>1. created = [slots EXCEPT ![1] = Class(c)]
    BY DEF Placed
  <2> QED
    BY <1>10, <1>11, <2>1, ExceptSeq
<1> HIDE DEF created
<1>13. stack = <<>> <=> Len(stack) = 0
  BY <1>10, EmptySeq
<1>14. Last(created) = IF stack = <<>> THEN Class(c) ELSE ClassName(c)
  <2>1. Last(created) = created[Len(slots)]
    BY <1>12 DEF Last
  <2>2. Len(slots) = 1 <=> stack = <<>>
    BY <1>10, <1>11, <1>13
  <2> QED
    BY <1>11, <1>12, <2>1, <2>2
<1>15. Front(created) \in Seq(Values) /\ (stack = <<>> => Front(created) = <<>>)
  <2>1. Front(created) = SubSeq(created, 1, Len(slots) - 1)
    BY <1>12 DEF Front
  <2>2. Len(slots) - 1 \in 0..Len(created)
    BY <1>11, <1>12
  <2>3. \A i \in 1..Len(slots) - 1 : i \in 1..Len(created)
    BY <1>11, <1>12
  <2>4. Front(created) \in Seq(Values)
    BY <1>11, <1>12, <2>1, <2>2, <2>3, SubSeqProperties
  <2>5. ASSUME stack = <<>> PROVE Front(created) = <<>>
    <3>1. Len(slots) - 1 = 0
      BY <1>11, <1>13, <2>5
    <3> QED
      BY <1>11, <1>12, <2>1, <3>1, SubSeqEmpty
  <2> QED
    BY <2>4, <2>5
<1>16. /\ phase = "running" /\ pc <= Len(code) /\ instr.op = "CREATE_CLASS"
       /\ HierarchyOK(classes, c - 1, said)
       /\ moduleVars' = [moduleVars EXCEPT ![c] = IF stack = <<>> THEN Class(c) ELSE ClassName(c)]
       /\ stack' \in Seq(Values) /\ (stack = <<>> => stack' = <<>>)
       /\ pc' = pc + 1 /\ UNCHANGED <<compiled, phase>>
  BY <1>1, <1>3, <1>4, <1>14, <1>15
<1> HIDE DEF super, n
<1> QED
  BY <1>2, <1>5, <1>6, <1>8, <1>9, <1>16

LEMMA CreateClassRuns ==
  ASSUME Compiled, RunOK, CreateClass
  PROVE  Compiled' /\ RunOK'
<1>1. PICK c, s, K, cs, mv : /\ c = instr.class /\ s = said[c].superClass /\ K = c - 1 /\ cs = classes' /\ mv = moduleVars'
  OBVIOUS
<1>2. /\ phase = "running" /\ pc <= Len(code) /\ instr.op = "CREATE_CLASS"
      /\ HierarchyOK(classes, K, said) /\ c \in 1..Len(said) /\ c \in 1..MaxClasses
      /\ s \in 0..K /\ classes[s].fieldNum + instr.operand <= MAX_FIELD_NUM
      /\ DOMAIN cs = 0..c /\ \A d \in 0..K : d \in 0..c /\ cs[d] = classes[d]
      /\ mv = [moduleVars EXCEPT ![c] = IF stack = <<>> THEN Class(c) ELSE ClassName(c)]
      /\ stack' \in Seq(Values)
      /\ pc' = pc + 1 /\ UNCHANGED <<compiled, phase>>
  BY <1>1, CreateClassIs
<1>3. cs[c] = [superClass |-> s, fieldNum |-> instr.operand + classes[s].fieldNum,
               methods |-> classes[s].methods, meta |-> PrimitiveTable]
  BY <1>1, CreateClassIs
<1>4. /\ Len(said) \in Nat /\ Len(code) \in Nat /\ c \in Nat /\ K \in Nat /\ K + 1 = c /\ DOMAIN classes = 0..K
      /\ BYTE \in Nat /\ BYTE > 0 /\ MAX_FIELD_NUM \in Nat /\ SaidOK(said) /\ s \in Nat
  <2>1. /\ Len(said) \in Nat /\ Len(code) \in Nat /\ BYTE \in Nat /\ BYTE > 0 /\ MAX_FIELD_NUM \in Nat /\ SaidOK(said)
        /\ K \in Nat /\ DOMAIN classes = 0..K
    BY <1>2, CompiledFacts, HierarchyFacts DEF Compiled
  <2> QED
    BY <1>1, <1>2, <2>1
<1>5. instr.operand = said[c].fields % BYTE /\ said[c].fields % BYTE \in Nat
  <2>1. instr.operand = said[c].fields % BYTE
    BY <1>1, <1>2, NextFacts
  <2>2. PICK n : n = said[c].fields
    OBVIOUS
  <2>3. n \in Nat
    BY <1>2, <1>4, <2>2, SaidFacts
  <2>4. n % BYTE \in Nat
    BY <1>4, <2>3
  <2> QED
    BY <2>1, <2>2, <2>4
<1>6. /\ classes[s].fieldNum \in Nat /\ classes[s].methods \in Seq(Entries) /\ s \in DOMAIN classes
      /\ \A d \in 0..K : cs[d].fieldNum = classes[d].fieldNum
  BY <1>2, <1>4, HierarchyFacts
<1>7. /\ cs[c].superClass = s /\ cs[c].fieldNum = (said[c].fields % BYTE) + classes[s].fieldNum
      /\ cs[c].methods = classes[s].methods /\ cs[c].meta = PrimitiveTable
      /\ cs[c] \in ClassTypes /\ cs[c].fieldNum <= MAX_FIELD_NUM
  <2>1. instr.operand + classes[s].fieldNum \in Nat /\ instr.operand + classes[s].fieldNum <= MAX_FIELD_NUM
    BY <1>2, <1>4, <1>5, <1>6
  <2>2. cs[c] \in ClassTypes
    BY <1>3, <1>4, <1>6, <2>1, PrimitivesAre DEF ClassTypes
  <2> QED
    BY <1>3, <1>5, <2>1, <2>2
<1>8. \A d \in 0..c : d \in 0..K \/ d = c
  BY <1>4
<1>9. HierarchyOK(cs, c, said)
  <2>1. c \in 0..Len(said) /\ 0 \in 0..K
    BY <1>2, <1>4
  <2>2. \A d \in 0..c : cs[d] \in ClassTypes /\ cs[d].fieldNum <= MAX_FIELD_NUM
    BY <1>2, <1>7, <1>8 DEF HierarchyOK
  <2>3. cs[0] = Object
    BY <1>2, <2>1 DEF HierarchyOK
  <2>4. ASSUME NEW d \in 1..c
        PROVE  /\ said[d].superClass \in 0..(d - 1) /\ cs[d].superClass = said[d].superClass
               /\ cs[d].fieldNum = (said[d].fields % BYTE) + cs[said[d].superClass].fieldNum
    <3>1. CASE d = c
      BY <1>1, <1>2, <1>6, <1>7, <3>1
    <3>2. CASE d # c
      <4>1. d \in 1..K /\ d \in 0..K
        BY <1>4, <3>2
      <4>2. /\ said[d].superClass \in 0..(d - 1) /\ classes[d].superClass = said[d].superClass
            /\ classes[d].fieldNum = (said[d].fields % BYTE) + classes[said[d].superClass].fieldNum
        BY <1>2, <4>1 DEF HierarchyOK
      <4>3. said[d].superClass \in 0..K
        BY <1>4, <4>1, <4>2
      <4> QED
        BY <1>2, <4>1, <4>2, <4>3
    <3> QED
      BY <3>1, <3>2
  <2> QED
    BY <1>2, <2>1, <2>2, <2>3, <2>4 DEF HierarchyOK
<1>10. ASSUME NEW d \in 0..K, NEW e \in 0..c, cs[d].fieldNum <= cs[e].fieldNum, NEW fn,
              InstanceFn(classes, d, fn, said, allMethodNames)
       PROVE  InstanceFn(cs, e, fn, said, allMethodNames)
  <2>1. fn.class \in 1..K /\ fn.class \in 0..K /\ fn.class \in DOMAIN cs \ {0}
    BY <1>2, <1>4, <1>10 DEF InstanceFn
  <2>2. said[fn.class].superClass \in 0..K
    BY <1>2, <1>4, <2>1, HierarchyFacts
  <2>3. cs[fn.class] = classes[fn.class] /\ cs[said[fn.class].superClass] = classes[said[fn.class].superClass] /\ cs[d] = classes[d]
    BY <1>2, <2>1, <2>2
  <2>4. cs[fn.class].fieldNum <= cs[e].fieldNum
    <3>1. /\ cs[fn.class].fieldNum \in 0..MAX_FIELD_NUM /\ cs[d].fieldNum \in 0..MAX_FIELD_NUM
          /\ cs[e].fieldNum \in 0..MAX_FIELD_NUM
      BY <1>2, <1>4, <1>9, <2>1, HierarchyFacts
    <3>2. cs[fn.class].fieldNum <= cs[d].fieldNum
      BY <1>10, <2>3 DEF InstanceFn
    <3> QED
      BY <1>4, <1>10, <3>1, <3>2
  <2> QED
    BY <1>10, <2>1, <2>3, <2>4 DEF InstanceFn
<1>11. TablesOK(cs, said, allMethodNames)
  <2> SUFFICES ASSUME NEW d \in 0..c PROVE TableOf(cs, d, said, allMethodNames)
    BY <1>2 DEF TablesOK
  <2>1. CASE d \in 0..K
    <3>1. TableOf(classes, d, said, allMethodNames) /\ cs[d] = classes[d] /\ cs[d].fieldNum <= cs[d].fieldNum
      <4>1. TableOf(classes, d, said, allMethodNames)
        BY <1>4, <2>1 DEF RunOK, TablesOK
      <4>2. cs[d] = classes[d]
        BY <1>2, <2>1
      <4>3. classes[d].fieldNum \in 0..MAX_FIELD_NUM
        BY <1>2, <1>4, <2>1, HierarchyFacts
      <4>4. classes[d].fieldNum <= classes[d].fieldNum
        BY <1>4, <4>3
      <4> QED
        BY <4>1, <4>2, <4>4
    <3> QED
      BY <1>10, <2>1, <3>1 DEF TableOf
  <2>2. CASE d = c
    <3>1. TableOf(classes, s, said, allMethodNames)
      BY <1>6 DEF RunOK, TablesOK
    <3>2. cs[s].fieldNum <= cs[c].fieldNum
      BY <1>2, <1>5, <1>6, <1>7
    <3>3. \A i \in 1..Len(PrimitiveTable) : PrimitiveTable[i].type # "script"
      BY PrimitivesAre, EntriesApart
    <3> QED
      BY <1>2, <1>7, <1>10, <2>2, <3>1, <3>2, <3>3 DEF TableOf
  <2> QED
    BY <1>8, <2>1, <2>2
<1>12. VariablesOK(mv, cs)
  <2>1. VariablesOK(moduleVars, classes)
    BY DEF RunOK
  <2>2. c \in 0..c /\ c # 0 /\ c \in 0..MaxClasses
    BY <1>2, <1>4, ClassesAssumption
  <2>3. \A d \in DOMAIN classes : d \in DOMAIN cs
    BY <1>2, <1>4
  <2> QED
    BY <1>2, <1>4, <2>1, <2>2, <2>3 DEF VariablesOK
<1>13. CreatedOK(cs, code, pc + 1, said)
  <2> SUFFICES ASSUME NEW d \in 1..Len(said)
               PROVE  d \in 0..c <=> \E i \in 1..((pc + 1) - 1) : CreatesClass(code[i], d)
    BY <1>2 DEF CreatedOK
  <2>1. d \in 0..K <=> \E i \in 1..(pc - 1) : CreatesClass(code[i], d)
    BY <1>4 DEF RunOK, CreatedOK
  <2>2. CreatesClass(code[pc], d) <=> d = c
    BY <1>1, <1>2 DEF CreatesClass, instr
  <2>3. d \in 0..c <=> d \in 0..K \/ d = c
    BY <1>4
  <2>4. (\E i \in 1..((pc + 1) - 1) : CreatesClass(code[i], d)) <=>
          (\E i \in 1..(pc - 1) : CreatesClass(code[i], d)) \/ CreatesClass(code[pc], d)
    <3>1. pc \in 1..pc /\ (pc + 1) - 1 = pc /\ pc \in Nat
      BY <1>2, NextFacts
    <3> QED
      BY <1>2, <3>1, NextFacts
  <2> QED
    BY <2>1, <2>2, <2>3, <2>4
<1>14. Compiled'
  BY <1>2, CompiledRuns
<1>15. pc + 1 \in 1..Len(code) + 1
  BY <1>2, NextFacts
<1>16. UNCHANGED <<allMethodNames, code, said>>
  BY <1>2 DEF compiled
<1> QED
  BY <1>1, <1>2, <1>9, <1>11, <1>12, <1>13, <1>14, <1>15, <1>16 DEF RunOK

LEMMA PatchedIs ==
  ASSUME NEW fn \in Fns, NEW super \in Int, NEW inherited \in Nat, fn.operand \in Nat
  PROVE  LET p == Patched(fn, super, inherited)
         IN  /\ p \in Fns /\ p.class = fn.class /\ p.op = fn.op /\ p.field = fn.field /\ p.inBlock = fn.inBlock
             /\ p.operand = IF fn.op = "LOAD_THIS_FIELD" THEN (fn.operand + inherited) % BYTE ELSE fn.operand
             /\ fn.op = "SUPER" => p.base = super
<1>1. PICK p : p = Patched(fn, super, inherited)
  OBVIOUS
<1>2. BYTE \in Nat /\ BYTE > 0
  BY ClassesAssumption
<1>3. CASE fn.op = "LOAD_THIS_FIELD"
  <2>1. p = [fn EXCEPT !.operand = (@ + inherited) % BYTE]
    BY <1>1, <1>3 DEF Patched
  <2>2. (fn.operand + inherited) % BYTE \in Int
    BY <1>2
  <2>3. /\ p \in Fns /\ p.class = fn.class /\ p.op = fn.op /\ p.field = fn.field /\ p.inBlock = fn.inBlock
        /\ p.operand = (fn.operand + inherited) % BYTE
    BY <2>1, <2>2 DEF Fns
  <2> QED
    BY <1>1, <1>3, <2>3
<1>4. CASE fn.op = "SUPER"
  <2>1. p = [fn EXCEPT !.base = super]
    BY <1>1, <1>4 DEF Patched
  <2>2. /\ p \in Fns /\ p.class = fn.class /\ p.op = fn.op /\ p.field = fn.field /\ p.inBlock = fn.inBlock
        /\ p.operand = fn.operand /\ p.base = super
    BY <2>1 DEF Fns
  <2> QED
    BY <1>1, <1>4, <2>2
<1>5. CASE fn.op # "LOAD_THIS_FIELD" /\ fn.op # "SUPER"
  <2>1. p = fn
    BY <1>1, <1>5 DEF Patched
  <2> QED
    BY <1>1, <1>5, <2>1
<1> QED
  BY <1>3, <1>4, <1>5

\* What is bound to class c: the function, corrected.
BoundFn(x, cs, sd) ==
  IF x.isStatic THEN Patched(x.fn, classOfClass, 0)
  ELSE Patched(x.fn, sd[x.class].superClass, cs[sd[x.class].superClass].fieldNum)

LEMMA BindMethodIs ==
  ASSUME Compiled, RunOK, BindMethod
  PROVE  LET c == instr.class
             m == Script(BoundFn(instr, classes, said))
         IN  /\ phase = "running" /\ pc <= Len(code) /\ instr.op = "METHOD" /\ c \in 1..Len(said)
             /\ instr.isStatic \in BOOLEAN
             /\ pc' = pc + 1 /\ UNCHANGED <<compiled, stack, moduleVars>>
             /\ ~IsClass(moduleVars[c]) => classes' = classes /\ phase' = "crashed"
             /\ IsClass(moduleVars[c]) =>
                  /\ phase' = phase /\ c \in DOMAIN classes /\ DOMAIN classes' = DOMAIN classes
                  /\ \A d \in DOMAIN classes : d # c => classes'[d] = classes[d]
                  /\ m.fn \in Fns /\ m \in Entries /\ m.fn = BoundFn(instr, classes, said)
                  /\ classes'[c] \in ClassTypes /\ classes'[c].superClass = classes[c].superClass
                  /\ classes'[c].fieldNum = classes[c].fieldNum
                  /\ instr.isStatic => /\ classes'[c].methods = classes[c].methods
                                       /\ classes'[c].meta = Bound(classes[c].meta, instr.index, m)
                  /\ ~instr.isStatic => /\ classes'[c].meta = classes[c].meta
                                        /\ classes'[c].methods = Bound(classes[c].methods, instr.index, m)
<1>1. PICK c, m : c = instr.class /\ m = Script(BoundFn(instr, classes, said))
  OBVIOUS
<1> DEFINE value == moduleVars[c]
           super == classes[value[2]].superClass
<1>2. /\ phase = "running" /\ pc <= Len(code) /\ instr.op = "METHOD"
      /\ pc' = pc + 1 /\ UNCHANGED <<compiled, stack, moduleVars>>
      /\ ~IsClass(value) => classes' = classes /\ phase' = "crashed"
      /\ IsClass(value) /\ instr.isStatic => phase' = phase /\
           classes' = [classes EXCEPT ![value[2]].meta = Bound(@, instr.index, Script(Patched(instr.fn, classOfClass, 0)))]
      /\ IsClass(value) /\ ~instr.isStatic => phase' = phase /\
           classes' = [classes EXCEPT ![value[2]].methods =
                         Bound(@, instr.index, Script(Patched(instr.fn, super, classes[super].fieldNum)))]
  BY <1>1 DEF BindMethod, Running
<1>3. /\ c \in 1..Len(said) /\ c \in 1..MaxClasses /\ c \in 0..MaxClasses /\ MethodOK(instr, allMethodNames, said)
  BY <1>1, <1>2, NextFacts
<1>4. /\ instr.isStatic \in BOOLEAN /\ instr.index \in Nat /\ instr.fn \in Fns /\ instr.fn.operand \in Nat
  BY <1>3, ItemFacts DEF MethodOK, FnOK
<1>5. PICK K : HierarchyOK(classes, K, said)
  BY DEF RunOK
<1>6. ASSUME IsClass(value)
      PROVE  /\ phase' = phase /\ c \in DOMAIN classes /\ DOMAIN classes' = DOMAIN classes
             /\ \A d \in DOMAIN classes : d # c => classes'[d] = classes[d]
             /\ m.fn \in Fns /\ m \in Entries /\ m.fn = BoundFn(instr, classes, said)
             /\ classes'[c] \in ClassTypes /\ classes'[c].superClass = classes[c].superClass
             /\ classes'[c].fieldNum = classes[c].fieldNum
             /\ instr.isStatic => /\ classes'[c].methods = classes[c].methods
                                  /\ classes'[c].meta = Bound(classes[c].meta, instr.index, m)
             /\ ~instr.isStatic => /\ classes'[c].meta = classes[c].meta
                                   /\ classes'[c].methods = Bound(classes[c].methods, instr.index, m)
  <2>1. value[2] = c /\ c \in DOMAIN classes
    <3>1. 0 \in DOMAIN classes
      BY <1>5, HierarchyFacts DEF Compiled
    <3> QED
      BY <1>3, <1>6, <3>1, VariableIs DEF RunOK
  <2>2. /\ c \in 1..K /\ c \in 0..K /\ classes[c] \in ClassTypes /\ super = said[c].superClass /\ super \in 0..K
        /\ classes[super].fieldNum \in Nat /\ super \in Int /\ classes[c].methods \in Seq(Entries) /\ classes[c].meta \in Seq(Entries)
    <3>1. DOMAIN classes = 0..K /\ K \in Nat
      BY <1>5, HierarchyFacts DEF Compiled
    <3>2. c \in 1..K /\ c \in 0..K
      BY <1>3, <2>1, <3>1
    <3>3. super = classes[c].superClass
      BY <2>1
    <3> HIDE DEF super, value
    <3>4. super = said[c].superClass /\ super \in 0..K
      BY <1>5, <3>2, <3>3, HierarchyFacts DEF Compiled
    <3>5. /\ classes[super].fieldNum \in 0..MAX_FIELD_NUM /\ classes[c].methods \in Seq(Entries)
          /\ classes[c].meta \in Seq(Entries)
      BY <1>5, <3>2, <3>4, HierarchyFacts DEF Compiled
    <3>6. classes[c] \in ClassTypes
      BY <1>5, <3>2 DEF HierarchyOK
    <3>7. classes[super].fieldNum \in Nat
      BY <3>5, ClassesAssumption
    <3>8. super \in Int
      BY <3>4
    <3> QED
      BY <3>2, <3>4, <3>5, <3>6, <3>7, <3>8
  <2>3. m.fn = BoundFn(instr, classes, said) /\ BoundFn(instr, classes, said) \in Fns
    <3>1. m.fn = BoundFn(instr, classes, said)
      BY <1>1, EntriesApart
    <3>2. Patched(instr.fn, classOfClass, 0) \in Fns
      BY <1>4, PatchedIs, EntriesApart
    <3>3. Patched(instr.fn, super, classes[super].fieldNum) \in Fns
      BY <1>4, <2>2, PatchedIs
    <3> QED
      BY <1>1, <2>2, <3>1, <3>2, <3>3 DEF BoundFn
  <2>4. m \in Entries
    BY <1>1, <2>3 DEF Entries
  <2>5. CASE instr.isStatic
    <3>1. PICK table : table = Bound(classes[c].meta, instr.index, m)
      OBVIOUS
    <3>2. table \in Seq(Entries)
      BY <1>4, <2>2, <2>4, <3>1, BoundIs
    <3>3. classes' = [classes EXCEPT ![c].meta = table]
      BY <1>1, <1>2, <1>6, <2>1, <2>5, <3>1 DEF BoundFn
    <3>4. /\ classes'[c] \in ClassTypes /\ classes'[c].superClass = classes[c].superClass
          /\ classes'[c].fieldNum = classes[c].fieldNum
          /\ classes'[c].methods = classes[c].methods /\ classes'[c].meta = table
      BY <2>1, <2>2, <3>2, <3>3 DEF ClassTypes
    <3>5. DOMAIN classes' = DOMAIN classes /\ \A d \in DOMAIN classes : d # c => classes'[d] = classes[d]
      BY <3>3
    <3> QED
      BY <1>2, <1>6, <2>1, <2>3, <2>4, <2>5, <3>1, <3>4, <3>5
  <2>6. CASE ~instr.isStatic
    <3>1. PICK table : table = Bound(classes[c].methods, instr.index, m)
      OBVIOUS
    <3>2. table \in Seq(Entries)
      BY <1>4, <2>2, <2>4, <3>1, BoundIs
    <3>3. classes' = [classes EXCEPT ![c].methods = table]
      <4>1. classes' = [classes EXCEPT ![c].methods =
                         Bound(@, instr.index, Script(Patched(instr.fn, super, classes[super].fieldNum)))]
        BY <1>2, <1>6, <2>1, <2>6
      <4>2. m = Script(Patched(instr.fn, super, classes[super].fieldNum))
        BY <1>1, <2>2, <2>6 DEF BoundFn
      <4> HIDE DEF super, value
      <4> QED
        BY <3>1, <4>1, <4>2
    <3>4. /\ classes'[c] \in ClassTypes /\ classes'[c].superClass = classes[c].superClass
          /\ classes'[c].fieldNum = classes[c].fieldNum
          /\ classes'[c].meta = classes[c].meta /\ classes'[c].methods = table
      BY <2>1, <2>2, <3>2, <3>3 DEF ClassTypes
    <3>5. DOMAIN classes' = DOMAIN classes /\ \A d \in DOMAIN classes : d # c => classes'[d] = classes[d]
      BY <3>3
    <3> QED
      BY <1>2, <1>6, <2>1, <2>3, <2>4, <2>6, <3>1, <3>4, <3>5
  <2> QED
    BY <2>5, <2>6
<1> QED
  BY <1>1, <1>2, <1>3, <1>4, <1>6

LEMMA BindMethodRuns ==
  ASSUME Compiled, RunOK, BindMethod
  PROVE  Compiled' /\ RunOK'
<1>1. PICK c, m, cs : c = instr.class /\ m = Script(BoundFn(instr, classes, said)) /\ cs = classes'
  OBVIOUS
<1>2. /\ phase = "running" /\ pc <= Len(code) /\ instr.op = "METHOD" /\ c \in 1..Len(said)
      /\ instr.isStatic \in BOOLEAN
      /\ pc' = pc + 1 /\ UNCHANGED <<compiled, stack, moduleVars>>
      /\ ~IsClass(moduleVars[c]) => classes' = classes /\ phase' = "crashed"
      /\ IsClass(moduleVars[c]) =>
           /\ phase' = phase /\ c \in DOMAIN classes /\ DOMAIN cs = DOMAIN classes
           /\ \A d \in DOMAIN classes : d # c => cs[d] = classes[d]
           /\ m.fn \in Fns /\ m \in Entries /\ m.fn = BoundFn(instr, classes, said)
           /\ cs[c] \in ClassTypes /\ cs[c].superClass = classes[c].superClass
           /\ cs[c].fieldNum = classes[c].fieldNum
           /\ instr.isStatic => /\ cs[c].methods = classes[c].methods
                                /\ cs[c].meta = Bound(classes[c].meta, instr.index, m)
           /\ ~instr.isStatic => /\ cs[c].meta = classes[c].meta
                                 /\ cs[c].methods = Bound(classes[c].methods, instr.index, m)
  BY <1>1, BindMethodIs
<1>3. PICK K : HierarchyOK(classes, K, said)
  BY DEF RunOK
<1>4. Compiled' /\ UNCHANGED <<allMethodNames, code, said>>
  BY <1>2, CompiledRuns DEF compiled
<1>5. pc' \in 1..Len(code) + 1 /\ stack' \in Seq(Values) /\ moduleVars' = moduleVars
  BY <1>2, NextFacts DEF RunOK
<1>6. /\ DOMAIN classes = 0..K /\ K \in Nat /\ SaidOK(said) /\ 0 \in 0..K /\ classes[0] = Object
      /\ BYTE \in Nat /\ BYTE > 0 /\ Len(allMethodNames) \in Nat
  BY <1>3, HierarchyFacts, CompiledFacts DEF Compiled
<1>7. CASE ~IsClass(moduleVars[c])
  <2>1. CreatedOK(classes, code, pc + 1, said)
    BY <1>2, CreatedSame
  <2> QED
    BY <1>2, <1>4, <1>5, <1>7, <2>1 DEF RunOK
<1>8. CASE IsClass(moduleVars[c])
  <2>1. /\ c \in 1..K /\ c \in 0..K /\ c # 0 /\ MethodOK(instr, allMethodNames, said) /\ said[c].superClass \in 0..K
    <3>1. c \in 0..K /\ c # 0
      BY <1>2, <1>6, <1>8
    <3>2. c \in 1..K
      BY <1>6, <3>1
    <3> QED
      BY <1>1, <1>2, <1>3, <1>6, <3>1, <3>2, NextFacts, HierarchyFacts
  <2>2. \A d \in 0..K : cs[d].superClass = classes[d].superClass /\ cs[d].fieldNum = classes[d].fieldNum
    BY <1>2, <1>6, <1>8
  <2>3. HierarchyOK(cs, K, said)
    <3>1. \A d \in 0..K : cs[d] \in ClassTypes /\ cs[d].fieldNum <= MAX_FIELD_NUM
      BY <1>2, <1>3, <1>6, <1>8, <2>2 DEF HierarchyOK
    <3>2. \A d \in 1..K : d \in 0..K /\ said[d].superClass \in 0..K
      BY <1>3, <1>6, HierarchyFacts
    <3>3. cs[0] = Object
      BY <1>2, <1>6, <1>8, <2>1
    <3> QED
      BY <1>2, <1>3, <1>6, <1>8, <2>2, <3>1, <3>2, <3>3 DEF HierarchyOK
  <2>4. ASSUME NEW d \in 0..K, NEW fn, InstanceFn(classes, d, fn, said, allMethodNames)
        PROVE  InstanceFn(cs, d, fn, said, allMethodNames)
    <3>1. fn.class \in 1..K /\ fn.class \in 0..K
      BY <1>6, <2>4 DEF InstanceFn
    <3>2. said[fn.class].superClass \in 0..K
      BY <1>3, <1>6, <3>1, HierarchyFacts
    <3> QED
      BY <1>2, <1>6, <1>8, <2>2, <2>4, <3>1, <3>2 DEF InstanceFn
  <2>5. /\ instr.fn \in Fns /\ instr.fn.class = c /\ FnOK(instr.fn, allMethodNames, said[c].fields) /\ instr.index \in Nat
        /\ instr.fn.operand \in Nat
    BY <1>1, <2>1, ItemFacts DEF MethodOK, FnOK
  <2>6. \A d \in 0..K : TableOf(classes, d, said, allMethodNames)
    BY <1>6 DEF RunOK, TablesOK
  <2>7. \A d \in 0..K : /\ classes[d].methods \in Seq(Entries) /\ classes[d].meta \in Seq(Entries)
                        /\ classes[d].fieldNum \in 0..MAX_FIELD_NUM
    BY <1>3, <1>6, HierarchyFacts
  <2>8. ASSUME ~instr.isStatic PROVE InstanceFn(cs, c, m.fn, said, allMethodNames)
    <3>1. PICK fn, s : fn = m.fn /\ s = said[c].superClass
      OBVIOUS
    <3>2. classes[s].fieldNum \in Nat /\ s \in Int /\ s \in 0..K /\ classes[c].fieldNum \in Nat
      BY <2>1, <2>7, <3>1, ClassesAssumption
    <3>3. fn = Patched(instr.fn, s, classes[s].fieldNum)
      BY <1>1, <1>2, <1>8, <2>8, <3>1 DEF BoundFn
    <3>4. /\ fn.class = c /\ fn.op = instr.fn.op /\ fn.field = instr.fn.field /\ fn.inBlock = instr.fn.inBlock
          /\ fn.operand = IF fn.op = "LOAD_THIS_FIELD" THEN (instr.fn.operand + classes[s].fieldNum) % BYTE ELSE instr.fn.operand
          /\ (fn.op = "SUPER" => fn.base = s)
      BY <2>5, <3>2, <3>3, PatchedIs
    <3>5. instr.fn.op # "CONSTRUCT"
      BY <2>1, <2>8 DEF MethodOK
    <3>6. cs[c].fieldNum <= cs[c].fieldNum /\ cs[s].fieldNum = classes[s].fieldNum
      <4>1. classes[c].fieldNum <= classes[c].fieldNum
        BY <3>2
      <4> QED
        BY <2>1, <2>2, <3>2, <4>1
    <3>7. fn.op # "LOAD_THIS_FIELD" => fn.operand \in 0..Len(allMethodNames)
      <4>1. fn.op # "LOAD_THIS_FIELD" => fn.operand \in Nat /\ fn.operand <= Len(allMethodNames)
        BY <2>5, <3>4 DEF FnOK
      <4> QED
        BY <1>6, <4>1
    <3>8. c \in DOMAIN cs \ {0}
      BY <1>2, <1>6, <1>8, <2>1
    <3>9. fn.op = "LOAD_THIS_FIELD" =>
            /\ fn.field \in 0..said[c].fields - 1 /\ (~BlockFields => fn.inBlock = FALSE)
            /\ fn.operand = ((fn.field % BYTE) + cs[s].fieldNum) % BYTE
      BY <2>5, <3>4, <3>6 DEF FnOK
    <3> HIDE DEF BoundFn
    <3>10. InstanceFn(cs, c, fn, said, allMethodNames)
      BY <3>1, <3>4, <3>5, <3>6, <3>7, <3>8, <3>9 DEF InstanceFn
    <3> QED
      BY <3>1, <3>10
  <2>9. ASSUME instr.isStatic PROVE MetaFn(c, m.fn, said, allMethodNames)
    <3>1. PICK fn : fn = m.fn
      OBVIOUS
    <3>2. fn = Patched(instr.fn, classOfClass, 0)
      BY <1>1, <1>2, <1>8, <2>9, <3>1 DEF BoundFn
    <3>3. instr.fn.op # "LOAD_THIS_FIELD"
      <4>1. instr.fn.op = "CONSTRUCT" => instr.fn.op # "LOAD_THIS_FIELD"
        OBVIOUS
      <4> QED
        BY <2>1, <2>9, <4>1 DEF MethodOK
    <3>4. /\ fn.class = c /\ fn.op = instr.fn.op /\ fn.operand = instr.fn.operand /\ (fn.op = "SUPER" => fn.base = classOfClass)
      BY <2>5, <3>2, <3>3, PatchedIs, EntriesApart
    <3>5. fn.operand \in 0..Len(allMethodNames)
      <4>1. fn.operand \in Nat /\ fn.operand <= Len(allMethodNames)
        BY <2>5, <3>3, <3>4 DEF FnOK
      <4> QED
        BY <1>6, <4>1
    <3>6. fn.op = "CONSTRUCT" => New \in said[c].defined /\ Named(allMethodNames, New, fn.operand)
      BY <1>1, <2>1, <2>9, <3>4 DEF MethodOK
    <3>7. MetaFn(c, fn, said, allMethodNames)
      BY <3>3, <3>4, <3>5, <3>6 DEF MetaFn
    <3> QED
      BY <3>1, <3>7
  <2>10. TableOf(cs, c, said, allMethodNames)
    <3>1. CASE instr.isStatic
      <4>1. ASSUME NEW i \in 1..Len(cs[c].meta), cs[c].meta[i].type = "script"
            PROVE  MetaFn(c, cs[c].meta[i].fn, said, allMethodNames)
        <5>1. PICK old, new : old = classes[c].meta /\ new = cs[c].meta
          OBVIOUS
        <5>2. old \in Seq(Entries) /\ new = Bound(old, instr.index, m)
          BY <1>2, <1>8, <2>1, <2>7, <3>1, <5>1
        <5>3. new[i] \in {m, MT_NONE} \/ (i \in 1..Len(old) /\ new[i] = old[i])
          <6>1. m \in Entries /\ instr.index \in Nat
            BY <1>2, <1>8, <2>5
          <6>2. \A j \in 1..Len(Bound(old, instr.index, m)) : Bound(old, instr.index, m)[j] \in {m, MT_NONE}
                  \/ (j \in 1..Len(old) /\ Bound(old, instr.index, m)[j] = old[j])
            BY <5>2, <6>1, BoundIs
          <6> QED
            BY <4>1, <5>1, <5>2, <6>2
        <5>4. new[i] = m => MetaFn(c, new[i].fn, said, allMethodNames)
          BY <2>9, <3>1
        <5>5. new[i] # MT_NONE
          BY <4>1, <5>1, EntriesApart
        <5>6. i \in 1..Len(old) /\ new[i] = old[i] => MetaFn(c, new[i].fn, said, allMethodNames)
          BY <2>1, <2>6, <4>1, <5>1 DEF TableOf
        <5> QED
          BY <5>1, <5>3, <5>4, <5>5, <5>6
      <4>2. \A i \in 1..Len(cs[c].methods) : cs[c].methods[i].type = "script" =>
              InstanceFn(cs, c, cs[c].methods[i].fn, said, allMethodNames)
        BY <1>2, <1>8, <2>1, <2>4, <2>6, <3>1 DEF TableOf
      <4> QED
        BY <4>1, <4>2 DEF TableOf
    <3>2. CASE ~instr.isStatic
      <4>1. ASSUME NEW i \in 1..Len(cs[c].methods), cs[c].methods[i].type = "script"
            PROVE  InstanceFn(cs, c, cs[c].methods[i].fn, said, allMethodNames)
        <5>1. PICK old, new : old = classes[c].methods /\ new = cs[c].methods
          OBVIOUS
        <5>2. old \in Seq(Entries) /\ new = Bound(old, instr.index, m)
          BY <1>2, <1>8, <2>1, <2>7, <3>2, <5>1
        <5>3. new[i] \in {m, MT_NONE} \/ (i \in 1..Len(old) /\ new[i] = old[i])
          <6>1. m \in Entries /\ instr.index \in Nat
            BY <1>2, <1>8, <2>5
          <6>2. \A j \in 1..Len(Bound(old, instr.index, m)) : Bound(old, instr.index, m)[j] \in {m, MT_NONE}
                  \/ (j \in 1..Len(old) /\ Bound(old, instr.index, m)[j] = old[j])
            BY <5>2, <6>1, BoundIs
          <6> QED
            BY <4>1, <5>1, <5>2, <6>2
        <5>4. new[i] = m => InstanceFn(cs, c, new[i].fn, said, allMethodNames)
          BY <2>8, <3>2
        <5>5. new[i] # MT_NONE
          BY <4>1, <5>1, EntriesApart
        <5>6. i \in 1..Len(old) /\ new[i] = old[i] => InstanceFn(cs, c, new[i].fn, said, allMethodNames)
          BY <2>1, <2>4, <2>6, <4>1, <5>1 DEF TableOf
        <5> QED
          BY <5>1, <5>3, <5>4, <5>5, <5>6
      <4>2. \A i \in 1..Len(cs[c].meta) : cs[c].meta[i].type = "script" => MetaFn(c, cs[c].meta[i].fn, said, allMethodNames)
        BY <1>2, <1>8, <2>1, <2>6, <3>2 DEF TableOf
      <4> QED
        BY <4>1, <4>2 DEF TableOf
    <3> QED
      BY <1>2, <3>1, <3>2
  <2>11. TablesOK(cs, said, allMethodNames)
    <3> SUFFICES ASSUME NEW d \in 0..K PROVE TableOf(cs, d, said, allMethodNames)
      BY <1>2, <1>6, <1>8 DEF TablesOK
    <3>1. CASE d = c
      BY <2>10, <3>1
    <3>2. CASE d # c
      <4>1. cs[d] = classes[d] /\ TableOf(classes, d, said, allMethodNames)
        BY <1>2, <1>6, <1>8, <2>6, <3>2
      <4> QED
        BY <2>4, <4>1 DEF TableOf
    <3> QED
      BY <3>1, <3>2
  <2>12. VariablesOK(moduleVars, cs)
    BY <1>2, <1>8 DEF RunOK, VariablesOK
  <2>13. CreatedOK(cs, code, pc + 1, said)
    BY <1>2, <1>8, CreatedSame
  <2> QED
    BY <1>1, <1>2, <1>4, <1>5, <2>3, <2>11, <2>12, <2>13 DEF RunOK
<1> QED
  BY <1>7, <1>8

LEMMA ChangedSlots ==
  ASSUME NEW S, NEW s \in Seq(S), NEW k, NEW v \in S
  PROVE  /\ [s EXCEPT ![k] = v] \in Seq(S) /\ Len([s EXCEPT ![k] = v]) = Len(s)
         /\ \A i \in 1..Len(s) : [s EXCEPT ![k] = v][i] = IF i = k THEN v ELSE s[i]
<1>1. CASE k \in 1..Len(s)
  BY <1>1, ExceptSeq
<1>2. CASE k \notin 1..Len(s)
  <2>1. [s EXCEPT ![k] = v] = s
    <3>1. s = [i \in 1..Len(s) |-> s[i]] /\ DOMAIN s = 1..Len(s)
      BY LenProperties
    <3>2. [s EXCEPT ![k] = v] = [i \in 1..Len(s) |-> IF i = k THEN v ELSE s[i]]
      BY <3>1
    <3> QED
      BY <1>2, <3>1, <3>2
  <2> QED
    BY <1>2, <2>1
<1> QED
  BY <1>1, <1>2

LEMMA DefineStaticIs ==
  ASSUME Compiled, RunOK, DefineStatic
  PROVE  /\ phase = "running" /\ pc <= Len(code) /\ instr.op = "STATIC_FIELD" /\ instr \in StaticFields
         /\ pc' = pc + 1 /\ UNCHANGED <<compiled, phase, moduleVars, classes>>
         /\ stack' \in Seq(Values)
         /\ Len(stack') = IF instr.initialized THEN Len(stack) + 2 ELSE Len(stack) + 1
         /\ \A i \in 1..Len(stack) : stack'[i] = IF i = instr.index + 1 /\ instr.initialized THEN Initial(instr.index) ELSE stack[i]
         /\ stack'[Len(stack) + 1] = IF Len(stack) = instr.index /\ instr.initialized THEN Initial(instr.index) ELSE Null
<1> DEFINE defined == Append(stack, Null)
           value == Initial(instr.index)
           all == Append(defined, value)
<1>1. /\ phase = "running" /\ pc <= Len(code) /\ instr.op = "STATIC_FIELD"
      /\ pc' = pc + 1 /\ UNCHANGED <<compiled, phase, moduleVars, classes>>
      /\ stack' = IF instr.initialized THEN [all EXCEPT ![instr.index + 1] = value] ELSE defined
  BY DEF DefineStatic, Running
<1>2. instr \in StaticFields /\ instr.index \in Nat /\ instr.initialized \in BOOLEAN
  BY <1>1, NextFacts, ItemFacts
<1>3. stack \in Seq(Values) /\ Len(stack) \in Nat /\ Null \in Values /\ value \in Values
  BY <1>2, LenProperties DEF RunOK, Values
<1> HIDE DEF value
<1>4. /\ defined \in Seq(Values) /\ Len(defined) = Len(stack) + 1 /\ (\A i \in 1..Len(stack) : defined[i] = stack[i])
      /\ defined[Len(stack) + 1] = Null
  BY <1>3, AppendProperties
<1> HIDE DEF defined
<1>5. /\ all \in Seq(Values) /\ Len(all) = Len(stack) + 2 /\ (\A i \in 1..Len(defined) : all[i] = defined[i])
  <2>1. /\ all \in Seq(Values) /\ Len(all) = Len(defined) + 1 /\ (\A i \in 1..Len(defined) : all[i] = defined[i])
    BY <1>3, <1>4, AppendProperties
  <2> HIDE DEF all
  <2> QED
    BY <1>3, <1>4, <2>1
<1> HIDE DEF all
<1>6. /\ \A i \in 1..Len(stack) : i \in 1..Len(defined) /\ i \in 1..Len(all)
      /\ Len(stack) + 1 \in 1..Len(defined) /\ Len(stack) + 1 \in 1..Len(all)
      /\ (Len(stack) + 1 = instr.index + 1 <=> Len(stack) = instr.index)
  BY <1>2, <1>3, <1>4, <1>5
<1>7. CASE instr.initialized
  <2>1. /\ stack' \in Seq(Values) /\ Len(stack') = Len(all)
        /\ \A i \in 1..Len(all) : stack'[i] = IF i = instr.index + 1 THEN value ELSE all[i]
    BY <1>1, <1>3, <1>5, <1>7, ChangedSlots
  <2> QED
    BY <1>1, <1>2, <1>4, <1>5, <1>6, <1>7, <2>1 DEF value
<1>8. CASE ~instr.initialized
  BY <1>1, <1>2, <1>4, <1>5, <1>6, <1>8
<1> QED
  BY <1>7, <1>8

LEMMA DefineStaticRuns ==
  ASSUME Compiled, RunOK, DefineStatic
  PROVE  Compiled' /\ RunOK'
<1>1. /\ phase = "running" /\ pc <= Len(code) /\ instr.op = "STATIC_FIELD"
      /\ pc' = pc + 1 /\ UNCHANGED <<compiled, phase, moduleVars, classes>> /\ stack' \in Seq(Values)
  BY DefineStaticIs
<1>2. Compiled' /\ UNCHANGED <<allMethodNames, code, said>>
  BY <1>1, CompiledRuns DEF compiled
<1>3. pc + 1 \in 1..Len(code) + 1
  BY <1>1, NextFacts
<1>4. CreatedOK(classes, code, pc + 1, said)
  BY <1>1, CreatedSame
<1> QED
  BY <1>1, <1>2, <1>3, <1>4 DEF RunOK

-----------------------------------------------------------------------------
ClassesInv == Compiled /\ Fresh /\ RunOK

LEMMA ClassesInvInit == Init => ClassesInv
<1> SUFFICES ASSUME Init PROVE ClassesInv
  OBVIOUS
<1>1. Compiled /\ Fresh
  BY CompiledInit
<1>2. Untouched
  BY <1>1 DEF Init, Fresh
<1> QED
  BY <1>1, <1>2, UntouchedRuns DEF ClassesInv

LEMMA FreshRuns == Compiled /\ Fresh /\ phase \in {"module", "class"} => ClassesInv
BY UntouchedRuns DEF ClassesInv, Fresh

\* Nothing has been executed after a step of the compiler.
LEMMA CompilingRuns == Compiled' /\ Fresh' /\ phase' \in {"module", "class"} => ClassesInv'
<1>1. (Compiled /\ Fresh /\ phase \in {"module", "class"} => ClassesInv)'
  BY FreshRuns, PTL
<1> QED
  BY <1>1

LEMMA ClassesInvNext == ClassesInv /\ [Next]_vars => ClassesInv'
<1> SUFFICES ASSUME ClassesInv, [Next]_vars PROVE ClassesInv'
  OBVIOUS
<1>0. Compiled /\ Fresh /\ RunOK
  BY DEF ClassesInv
<1>1. ASSUME NEW super \in 0..MaxClasses, OpenClass(super) PROVE ClassesInv'
  <2>1. phase' = "class"
    BY <1>1 DEF OpenClass
  <2> QED
    BY <1>0, <1>1, <2>1, OpenClassCompiles, CompilingRuns
<1>2. ASSUME CloseClass PROVE ClassesInv'
  <2>1. phase' = "module"
    BY <1>2 DEF CloseClass
  <2> QED
    BY <1>0, <1>2, <2>1, CloseClassCompiles, CompilingRuns
<1>3. ASSUME Field PROVE ClassesInv'
  <2>1. phase' = "class"
    BY <1>3 DEF Field, Writable
  <2> QED
    BY <1>0, <1>3, <2>1, FieldCompiles, CompilingRuns
<1>4. ASSUME NEW initialized \in BOOLEAN, StaticField(initialized) PROVE ClassesInv'
  <2>1. phase' = "class"
    BY <1>4 DEF StaticField, Writable
  <2> QED
    BY <1>0, <1>4, <2>1, StaticFieldCompiles, LocalsAreCounted, CompilingRuns
<1>5. ASSUME NEW sign \in Sign, NEW isStatic \in BOOLEAN, Method(sign, isStatic) PROVE ClassesInv'
  <2>1. phase' = "class"
    BY <1>5 DEF Method, Writable
  <2> QED
    BY <1>0, <1>5, <2>1, MethodCompiles, CompilingRuns
<1>6. ASSUME Constructor PROVE ClassesInv'
  <2>1. phase' = "class"
    BY <1>6 DEF Constructor, Writable
  <2> QED
    BY <1>0, <1>6, <2>1, ConstructorCompiles, CompilingRuns
<1>7. ASSUME NEW sign \in Sign \cup {New}, NEW isStatic \in BOOLEAN, Refused(sign, isStatic) PROVE ClassesInv'
  <2>1. /\ phase' = "error" /\ phase = "class"
        /\ UNCHANGED <<allMethodNames, book, code, members, said, pc, stack, moduleVars, classes>>
    BY <1>7 DEF Refused, Writable, compiled, run
  <2>2. Compiled' /\ Fresh'
    BY <1>0, <2>1 DEF Compiled, BookOK, Fresh
  <2> QED
    BY <1>0, <2>1, <2>2 DEF ClassesInv, RunOK
<1>8. ASSUME EndModule PROVE ClassesInv'
  <2>1. /\ phase' = "running" /\ phase = "module"
        /\ UNCHANGED <<allMethodNames, book, code, members, said, pc, stack, moduleVars, classes>>
    BY <1>8 DEF EndModule, compiled, run
  <2>2. Compiled' /\ Fresh'
    BY <1>0, <2>1 DEF Compiled, BookOK, Fresh
  <2> QED
    BY <1>0, <2>1, <2>2 DEF ClassesInv, RunOK
<1>9. ASSUME CreateClass PROVE ClassesInv'
  <2>1. Fresh'
    BY <1>0, <1>9, CreateClassIs DEF Fresh
  <2> QED
    BY <1>0, <1>9, <2>1, CreateClassRuns DEF ClassesInv
<1>10. ASSUME CreateClassFails \/ Return PROVE ClassesInv'
  <2>1. /\ phase' \in {"error", "done"} /\ phase = "running"
        /\ UNCHANGED compiled /\ UNCHANGED <<pc, stack, moduleVars, classes>>
    BY <1>10 DEF CreateClassFails, Return, Stop, Running, run
  <2>2. Compiled' /\ Fresh'
    BY <1>0, <2>1, CompiledRuns DEF Fresh
  <2> QED
    BY <1>0, <2>1, <2>2 DEF ClassesInv, RunOK, compiled
<1>11. ASSUME DefineStatic PROVE ClassesInv'
  <2>1. Fresh'
    BY <1>0, <1>11, DefineStaticIs DEF Fresh
  <2> QED
    BY <1>0, <1>11, <2>1, DefineStaticRuns DEF ClassesInv
<1>12. ASSUME BindMethod PROVE ClassesInv'
  <2>1. Fresh'
    BY <1>0, <1>12, BindMethodIs DEF Fresh
  <2> QED
    BY <1>0, <1>12, <2>1, BindMethodRuns DEF ClassesInv
<1>13. ASSUME UNCHANGED vars PROVE ClassesInv'
  BY <1>0, <1>13 DEF vars, compiled, run, ClassesInv, Compiled, BookOK, Fresh, Untouched, RunOK
<1> QED
  BY <1>1, <1>2, <1>3, <1>4, <1>5, <1>6, <1>7, <1>8, <1>9, <1>10, <1>11, <1>12, <1>13 DEF Next, Compile, Run

LEMMA ClassesInvAlways == Spec => []ClassesInv
BY ClassesInvInit, ClassesInvNext, PTL DEF Spec
-----------------------------------------------------------------------------
(***************************************************************************)
(* Fields.                                                                 *)
(***************************************************************************)
\* The fields of a class come after all those it inherits.
LEMMA FieldsAreCounted ==
  ASSUME ~ManyFields, SaidOK(said), NEW K, HierarchyOK(classes, K, said)
  PROVE  \A c \in 1..K : /\ classes[said[c].superClass].fieldNum = Offset(c)
                         /\ classes[c].fieldNum = Offset(c) + said[c].fields
<1> DEFINE P(c) == /\ classes[said[c].superClass].fieldNum = Offset(c)
                   /\ classes[c].fieldNum = Offset(c) + said[c].fields
           S == {n \in 0..K : \A c \in 1..n : P(c)}
<1>1. K \in Nat /\ BYTE \in Nat /\ BYTE > 0 /\ MAX_FIELD_NUM \in Nat
  BY HierarchyFacts, ClassesAssumption
<1>2. /\ \A c \in 1..K : /\ c \in 0..K /\ said[c].fields \in Nat /\ said[c].fields < BYTE
                         /\ said[c].superClass \in 0..(c - 1) /\ said[c].superClass \in 0..K
                         /\ classes[c].fieldNum = (said[c].fields % BYTE) + classes[said[c].superClass].fieldNum
      /\ classes[0].fieldNum = 0
  <2>1. ASSUME NEW c \in 1..K
        PROVE  /\ c \in 0..K /\ said[c].fields \in Nat /\ said[c].fields < BYTE
               /\ said[c].superClass \in 0..(c - 1) /\ said[c].superClass \in 0..K
               /\ classes[c].fieldNum = (said[c].fields % BYTE) + classes[said[c].superClass].fieldNum
    <3>1. c \in 1..Len(said) /\ c \in 0..K /\ said[c].superClass \in 0..(c - 1) /\ said[c].superClass \in 0..K
      BY HierarchyFacts
    <3> QED
      BY <3>1, SaidFacts DEF SaidOK, HierarchyOK
  <2>2. classes[0].fieldNum = 0
    BY HierarchyFacts, PrimitivesAre
  <2> QED
    BY <2>1, <2>2
<1>3. Rooted(K)
  BY <1>2 DEF Rooted
<1>4. \A n \in Nat : n < BYTE => n % BYTE = n
  BY <1>1
<1>5. 0 \in S
  BY <1>1
<1>6. ASSUME NEW n \in 0..(K - 1), n \in S PROVE n + 1 \in S
  <2>1. PICK c, s : c = n + 1 /\ s = said[c].superClass
    OBVIOUS
  <2>2. c \in 1..K /\ s \in 0..n /\ n \in Nat /\ (s # 0 => s \in 1..n /\ s \in 1..K)
    <3>1. c \in 1..K
      BY <1>1, <2>1
    <3>2. s \in 0..n
      BY <1>2, <2>1, <3>1
    <3> QED
      BY <1>1, <3>1, <3>2
  <2>3. Offset(c) = IF s = 0 THEN 0 ELSE Offset(s) + said[s].fields
    BY <1>1, <1>2, <1>3, <2>1, <2>2, OffsetIs
  <2>4. \A d \in 1..n : P(d)
    BY <1>6
  <2>5. classes[s].fieldNum = Offset(c)
    BY <1>2, <2>2, <2>3, <2>4
  <2>6. classes[c].fieldNum = Offset(c) + said[c].fields
    <3>1. classes[c].fieldNum = said[c].fields + Offset(c)
      BY <1>2, <1>4, <2>1, <2>2, <2>5
    <3>2. classes[s].fieldNum \in 0..MAX_FIELD_NUM
      BY <1>2, <2>1, <2>2, HierarchyFacts
    <3>3. Offset(c) \in Int /\ said[c].fields \in Nat
      BY <1>2, <2>2, <2>5, <3>2
    <3> QED
      BY <3>1, <3>3
  <2>7. P(c)
    BY <2>1, <2>5, <2>6
  <2> HIDE DEF P
  <2>8. \A d \in 1..(n + 1) : d \in 1..n \/ d = c
    BY <2>1, <2>2
  <2>9. n + 1 \in 0..K
    BY <1>1
  <2> QED
    BY <2>4, <2>7, <2>8, <2>9
<1>7. 0..K \subseteq S
  <2> HIDE DEF S
  <2> QED
    BY <1>1, <1>5, <1>6, InductionUpTo
<1> QED
  BY <1>1, <1>7

\* No field of a class shares its place with a field of another class of the same instance.
THEOREM FieldsHaveTheirPlace == ~BlockFields /\ ~ManyFields => (Spec => []FieldsAreOwn)
<1> SUFFICES ASSUME ~BlockFields, ~ManyFields PROVE Spec => []FieldsAreOwn
  OBVIOUS
<1>1. ClassesInv => FieldsAreOwn
  <2> SUFFICES ASSUME ClassesInv, NEW c \in DOMAIN classes, NEW m \in Methods(c), m.fn.op = "LOAD_THIS_FIELD"
               PROVE  /\ m.fn.operand = Offset(m.fn.class) + m.fn.field
                      /\ m.fn.operand < classes[c].fieldNum
                      /\ ~m.fn.inBlock
    BY DEF FieldsAreOwn
  <2>1. SaidOK(said) /\ TablesOK(classes, said, allMethodNames) /\ \E K : HierarchyOK(classes, K, said)
    BY DEF ClassesInv, Compiled, RunOK
  <2>2. PICK K : HierarchyOK(classes, K, said)
    BY <2>1
  <2>3. PICK i \in 1..Len(classes[c].methods) : m = classes[c].methods[i] /\ m.type = "script"
    BY <2>1, <2>2, HierarchyFacts DEF Methods, Range
  <2>4. InstanceFn(classes, c, m.fn, said, allMethodNames)
    BY <2>1, <2>3 DEF TablesOK, TableOf
  <2>5. PICK a, f, s : a = m.fn.class /\ f = m.fn.field /\ s = said[a].superClass
    OBVIOUS
  <2>6. a \in 1..K /\ c \in 0..K /\ K \in Nat /\ a \in 0..K
    <3>1. DOMAIN classes = 0..K /\ K \in Nat
      BY <2>1, <2>2, HierarchyFacts
    <3>2. a \in DOMAIN classes \ {0}
      BY <2>4, <2>5 DEF InstanceFn
    <3> QED
      BY <3>1, <3>2
  <2>7. /\ f \in 0..said[a].fields - 1 /\ m.fn.operand = ((f % BYTE) + classes[s].fieldNum) % BYTE
        /\ classes[a].fieldNum <= classes[c].fieldNum /\ m.fn.inBlock = FALSE
    BY <2>4, <2>5 DEF InstanceFn
  <2>8. classes[s].fieldNum = Offset(a) /\ classes[a].fieldNum = Offset(a) + said[a].fields
    BY <2>1, <2>2, <2>5, <2>6, FieldsAreCounted
  <2>9. /\ said[a].fields \in Nat /\ classes[a].fieldNum \in 0..MAX_FIELD_NUM /\ classes[c].fieldNum \in 0..MAX_FIELD_NUM
        /\ classes[s].fieldNum \in 0..MAX_FIELD_NUM
    <3>1. a \in 1..Len(said) /\ s \in 0..K
      BY <2>1, <2>2, <2>5, <2>6, HierarchyFacts
    <3> QED
      BY <2>1, <2>2, <2>6, <3>1, HierarchyFacts, SaidFacts
  <2>10. BYTE \in Nat /\ BYTE > 0 /\ MAX_FIELD_NUM \in Nat /\ MAX_FIELD_NUM < BYTE
    BY ClassesAssumption
  <2>11. \A n \in Nat : n < BYTE => n % BYTE = n
    BY <2>10
  <2>12. f \in Nat /\ f < BYTE /\ f + Offset(a) \in Nat /\ f + Offset(a) < classes[a].fieldNum /\ f + Offset(a) < BYTE
    <3>1. PICK o, n, k : o = Offset(a) /\ n = said[a].fields /\ k = classes[a].fieldNum
      OBVIOUS
    <3>2. o \in 0..MAX_FIELD_NUM /\ n \in Nat /\ k \in 0..MAX_FIELD_NUM /\ k = o + n /\ f \in 0..n - 1
      BY <2>7, <2>8, <2>9, <3>1
    <3>3. f \in Nat /\ f < BYTE /\ f + o \in Nat /\ f + o < k /\ f + o < BYTE
      BY ONLY <2>10, <3>2
    <3> QED
      BY <3>1, <3>3
  <2>13. m.fn.operand = f + Offset(a)
    <3>1. f % BYTE = f
      BY <2>11, <2>12
    <3>2. m.fn.operand = (f + Offset(a)) % BYTE
      BY <2>7, <2>8, <3>1
    <3> QED
      BY <2>11, <2>12, <3>2
  <2>14. f + Offset(a) = Offset(a) + f /\ f + Offset(a) < classes[c].fieldNum
    BY <2>7, <2>8, <2>9, <2>12
  <2> QED
    BY <2>5, <2>7, <2>13, <2>14
<1> QED
  BY <1>1, ClassesInvAlways, PTL

-----------------------------------------------------------------------------
(***************************************************************************)
(* Static fields in the code: numbered in order from 0.                    *)
(***************************************************************************)
StaticAt(cd, i) == i \in 1..Len(cd) /\ cd[i].op = "STATIC_FIELD"
Locals(cd) == Cardinality({i \in DOMAIN cd : cd[i].op = "STATIC_FIELD"})
ValueOf(x) == IF x.initialized THEN Initial(x.index) ELSE Null

StaticsOK(cd, sd) ==
  /\ \A i : StaticAt(cd, i) =>
       cd[i].index \in 0..Locals(cd) - 1 /\ \E d \in 1..Len(sd) : ValueOf(cd[i]) \in Range(sd[d].statics)
  /\ Locals(cd) > 0 => \E i : StaticAt(cd, i) /\ cd[i].index = Locals(cd) - 1
  /\ \A i, j : StaticAt(cd, i) /\ StaticAt(cd, j) /\ i < j => cd[i].index < cd[j].index
  /\ \A j : StaticAt(cd, j) /\ cd[j].index > 0 => \E i : StaticAt(cd, i) /\ i < j /\ cd[i].index = cd[j].index - 1

\* Only the last class has static fields, and no class is created after one.
LastOK(cd, sd) ==
  /\ \A d \in 1..Len(sd) - 1 : sd[d].statics = <<>>
  /\ \A i, j : StaticAt(cd, i) /\ j \in 1..Len(cd) /\ i < j => cd[j].op # "CREATE_CLASS"

\* Only the last static field has an initial value.
InitialOK(cd) == \A i, j : StaticAt(cd, i) /\ StaticAt(cd, j) /\ i < j => ~cd[i].initialized

StaticsInv ==
  /\ StaticsOK(code, said)
  /\ ~EarlyStatics => LastOK(code, said)
  /\ ~EarlyStatics /\ ~InitStatics => InitialOK(code)

\* The static fields in the code stay, and there are no others.
StaticsSame(cd, new) ==
  /\ Len(cd) <= Len(new) /\ Locals(new) = Locals(cd)
  /\ \A i : StaticAt(new, i) <=> StaticAt(cd, i)
  /\ \A i : StaticAt(cd, i) => new[i] = cd[i]

LEMMA StaticsKept ==
  ASSUME NEW cd, NEW sd, StaticsOK(cd, sd), NEW new, StaticsSame(cd, new), NEW ts,
         \A d \in 1..Len(sd) : d \in 1..Len(ts) /\ ts[d].statics = sd[d].statics
  PROVE  /\ StaticsOK(new, ts)
         /\ InitialOK(cd) => InitialOK(new)
<1>1. ASSUME NEW i, StaticAt(new, i)
      PROVE  new[i].index \in 0..Locals(new) - 1 /\ \E d \in 1..Len(ts) : ValueOf(new[i]) \in Range(ts[d].statics)
  <2>1. StaticAt(cd, i) /\ new[i] = cd[i]
    BY <1>1 DEF StaticsSame
  <2>2. PICK d \in 1..Len(sd) : ValueOf(cd[i]) \in Range(sd[d].statics)
    BY <2>1 DEF StaticsOK
  <2> QED
    BY <2>1, <2>2 DEF StaticsOK, StaticsSame
<1>2. Locals(new) > 0 => \E i : StaticAt(new, i) /\ new[i].index = Locals(new) - 1
  BY DEF StaticsOK, StaticsSame
<1>3. \A i, j : StaticAt(new, i) /\ StaticAt(new, j) /\ i < j => new[i].index < new[j].index
  BY DEF StaticsOK, StaticsSame
<1>4. \A j : StaticAt(new, j) /\ new[j].index > 0 => \E i : StaticAt(new, i) /\ i < j /\ new[i].index = new[j].index - 1
  BY DEF StaticsOK, StaticsSame
<1>5. InitialOK(cd) => InitialOK(new)
  BY DEF InitialOK, StaticsSame
<1> QED
  BY <1>1, <1>2, <1>3, <1>4, <1>5 DEF StaticsOK

LEMMA AppendedItem ==
  ASSUME NEW T, NEW cd \in Seq(T), NEW x
  PROVE  /\ Len(Append(cd, x)) = Len(cd) + 1 /\ DOMAIN Append(cd, x) = 1..Len(cd) + 1
         /\ \A i \in 1..Len(cd) : Append(cd, x)[i] = cd[i]
         /\ Append(cd, x)[Len(cd) + 1] = x
         /\ Len(cd) \in Nat /\ DOMAIN cd = 1..Len(cd)
         /\ \A i \in 1..Len(cd) + 1 : i \in 1..Len(cd) \/ i = Len(cd) + 1
         /\ \A i \in 1..Len(cd) : i \in 1..Len(cd) + 1
         /\ Len(cd) + 1 \in 1..Len(cd) + 1 /\ Len(cd) + 1 \notin 1..Len(cd)
<1> DEFINE S == T \cup {x}
<1>1. T \subseteq S /\ x \in S
  OBVIOUS
<1> HIDE DEF S
<1>2. cd \in Seq(S)
  BY <1>1, SeqMonotonic
<1>3. /\ Append(cd, x) \in Seq(S) /\ Len(Append(cd, x)) = Len(cd) + 1
      /\ (\A i \in 1..Len(cd) : Append(cd, x)[i] = cd[i]) /\ Append(cd, x)[Len(cd) + 1] = x
  BY <1>1, <1>2, AppendProperties
<1>4. Len(cd) \in Nat /\ DOMAIN cd = 1..Len(cd) /\ DOMAIN Append(cd, x) = 1..Len(cd) + 1
  BY <1>2, <1>3, LenProperties
<1>5. /\ \A i \in 1..Len(cd) + 1 : i \in 1..Len(cd) \/ i = Len(cd) + 1
      /\ \A i \in 1..Len(cd) : i \in 1..Len(cd) + 1
      /\ Len(cd) + 1 \in 1..Len(cd) + 1 /\ Len(cd) + 1 \notin 1..Len(cd)
  BY <1>4
<1> QED
  BY <1>3, <1>4, <1>5

LEMMA OtherAppended ==
  ASSUME NEW T, NEW cd \in Seq(T), NEW x, x.op # "STATIC_FIELD"
  PROVE  StaticsSame(cd, Append(cd, x))
<1> DEFINE new == Append(cd, x)
<1>1. \A i : StaticAt(new, i) <=> StaticAt(cd, i)
  BY AppendedItem DEF StaticAt
<1>2. \A i : StaticAt(cd, i) => new[i] = cd[i]
  BY AppendedItem DEF StaticAt
<1>3. {i \in DOMAIN new : new[i].op = "STATIC_FIELD"} = {i \in DOMAIN cd : cd[i].op = "STATIC_FIELD"}
  BY AppendedItem
<1>4. Len(cd) <= Len(new)
  BY AppendedItem
<1> QED
  BY <1>1, <1>2, <1>3, <1>4 DEF StaticsSame, Locals

LEMMA LastKept ==
  ASSUME NEW cd, NEW sd, LastOK(cd, sd), NEW new, StaticsSame(cd, new), NEW ts,
         \A d \in 1..Len(ts) - 1 : ts[d].statics = <<>>,
         \A j \in 1..Len(new) : new[j].op = "CREATE_CLASS" => j \in 1..Len(cd) /\ cd[j].op = "CREATE_CLASS"
  PROVE  LastOK(new, ts)
BY DEF LastOK, StaticsSame

\* What is said of a class changes, but not its static fields.
LEMMA SaidElse ==
  ASSUME Compiled, phase = "class", NEW t, t.statics = said[book.class].statics, NEW ts, ts = [said EXCEPT ![book.class] = t]
  PROVE  /\ Len(ts) = Len(said) /\ \A d \in 1..Len(said) : ts[d].statics = said[d].statics
<1> DEFINE S == SaidTypes \cup {t}
<1>1. said \in Seq(SaidTypes)
  BY DEF Compiled, SaidOK
<1>2. SaidTypes \subseteq S /\ t \in S
  OBVIOUS
<1> HIDE DEF S
<1>3. said \in Seq(S)
  BY <1>1, <1>2, SeqMonotonic
<1> QED
  BY <1>2, <1>3, ChangedSlots

LEMMA StaticsInvInit == Init => StaticsInv
<1> SUFFICES ASSUME Init PROVE StaticsInv
  OBVIOUS
<1>1. Len(code) = 0 /\ Len(said) = 0 /\ DOMAIN code = {}
  BY DEF Init
<1>2. \A i : ~StaticAt(code, i)
  BY <1>1 DEF StaticAt
<1>3. Locals(code) = 0
  <2>1. {i \in DOMAIN code : code[i].op = "STATIC_FIELD"} = {}
    BY <1>1
  <2> QED
    BY <2>1, FS_EmptySet DEF Locals
<1>4. \A d \in 1..Len(said) - 1 : FALSE
  BY <1>1
<1> QED
  BY <1>2, <1>3, <1>4 DEF StaticsInv, StaticsOK, LastOK, InitialOK

\* Steps that write no static field and create no class.
LEMMA StaticsElse ==
  ASSUME Compiled, StaticsInv, StaticsSame(code, code'), Len(said') = Len(said),
         \A d \in 1..Len(said) : said'[d].statics = said[d].statics,
         \A j \in 1..Len(code') : code'[j].op = "CREATE_CLASS" => j \in 1..Len(code) /\ code[j].op = "CREATE_CLASS"
  PROVE  StaticsInv'
<1>1. Len(said) \in Nat /\ \A d \in 1..Len(said) - 1 : d \in 1..Len(said)
  BY CompiledFacts
<1>2. StaticsOK(code', said')
  BY StaticsKept DEF StaticsInv
<1>3. ~EarlyStatics => LastOK(code', said')
  <2>1. ~EarlyStatics => \A d \in 1..Len(said') - 1 : said'[d].statics = <<>>
    BY <1>1 DEF StaticsInv, LastOK
  <2> QED
    BY <2>1, LastKept DEF StaticsInv
<1>4. ~EarlyStatics /\ ~InitStatics => InitialOK(code')
  BY StaticsKept DEF StaticsInv
<1> QED
  BY <1>2, <1>3, <1>4 DEF StaticsInv

LEMMA NoStatics ==
  ASSUME StaticsOK(code, said), SaidOK(said), \A d \in DOMAIN said : ~HasStatics(d)
  PROVE  \A i : ~StaticAt(code, i)
<1> SUFFICES ASSUME NEW i, StaticAt(code, i) PROVE FALSE
  OBVIOUS
<1>1. PICK d \in 1..Len(said) : ValueOf(code[i]) \in Range(said[d].statics)
  BY DEF StaticsOK
<1>2. said[d].statics = <<>>
  BY SaidFacts DEF HasStatics, SaidStatics
<1> QED
  BY <1>1, <1>2 DEF Range

LEMMA OpenClassStatics ==
  ASSUME Compiled, StaticsInv, NEW super, OpenClass(super)
  PROVE  StaticsInv'
<1>1. PICK x, t : /\ code' = Append(code, x) /\ x.op = "CREATE_CLASS"
                  /\ said' = Append(said, t) /\ t.statics = <<>>
                  /\ EarlyStatics \/ \A d \in DOMAIN said : ~HasStatics(d)
  <2> DEFINE x == [op |-> "CREATE_CLASS", class |-> Len(said) + 1, superClass |-> super, operand |-> BYTE - 1]
             t == [superClass |-> super, fields |-> 0, defined |-> {}, static |-> {}, statics |-> <<>>]
  <2>1. /\ code' = Append(code, x) /\ x.op = "CREATE_CLASS"
        /\ said' = Append(said, t) /\ t.statics = <<>>
        /\ EarlyStatics \/ \A d \in DOMAIN said : ~HasStatics(d)
    BY DEF OpenClass
  <2> QED
    BY <2>1
<1>2. code \in Seq(Items) /\ said \in Seq(SaidTypes) /\ SaidOK(said)
  BY CompiledFacts DEF Compiled, SaidOK
<1>3. StaticsSame(code, code')
  BY <1>1, <1>2, OtherAppended
<1>4. /\ Len(said') = Len(said) + 1 /\ Len(said) \in Nat /\ DOMAIN said = 1..Len(said)
      /\ \A d \in 1..Len(said) : d \in 1..Len(said') /\ said'[d].statics = said[d].statics
      /\ \A d \in 1..Len(said') - 1 : d \in 1..Len(said)
  <2>1. /\ Len(said') = Len(said) + 1 /\ Len(said) \in Nat /\ DOMAIN said = 1..Len(said)
        /\ \A d \in 1..Len(said) : said'[d] = said[d]
    BY <1>1, <1>2, AppendedItem
  <2> QED
    BY <2>1
<1>5. /\ StaticsOK(code', said')
      /\ ~EarlyStatics /\ ~InitStatics => InitialOK(code')
  BY <1>3, <1>4, StaticsKept DEF StaticsInv
<1>6. ASSUME ~EarlyStatics PROVE LastOK(code', said')
  <2>1. \A d \in DOMAIN said : ~HasStatics(d)
    BY <1>1, <1>6
  <2>2. \A i : ~StaticAt(code', i)
    BY <1>2, <1>3, <2>1, NoStatics DEF StaticsInv, StaticsSame
  <2>3. \A d \in 1..Len(said') - 1 : said'[d].statics = <<>>
    BY <1>4, <2>1 DEF HasStatics, SaidStatics
  <2> QED
    BY <2>2, <2>3 DEF LastOK
<1> QED
  BY <1>5, <1>6 DEF StaticsInv

LEMMA ItselfSame == ASSUME NEW cd, Len(cd) \in Nat PROVE StaticsSame(cd, cd)
  BY DEF StaticsSame

LEMMA CloseClassStatics ==
  ASSUME Compiled, StaticsInv, CloseClass
  PROVE  StaticsInv'
<1>1. PICK k, y : /\ k = book.createClass /\ y = [code[k] EXCEPT !.operand = book.fields % BYTE]
                  /\ phase = "class" /\ code' = [code EXCEPT ![k] = y] /\ said' = said
  BY DEF CloseClass
<1>2. code \in Seq(Items) /\ Len(code) \in Nat /\ DOMAIN code = 1..Len(code)
  BY CompiledFacts
<1>3. k \in 1..Len(code) /\ code[k].op = "CREATE_CLASS"
  BY <1>1, OpenFacts DEF CreatesClass
<1>4. y.op = code[k].op
  <2>1. code[k] \in Creates
    BY <1>3, CompiledFacts, ItemFacts
  <2> QED
    BY <1>1, <2>1 DEF Creates
<1>5. DOMAIN code' = DOMAIN code /\ \A i \in 1..Len(code) : code'[i] = IF i = k THEN y ELSE code[i]
  BY <1>1, <1>2
<1>6. Len(code') = Len(code)
  <2> DEFINE S == Items \cup {y}
  <2>1. Items \subseteq S /\ y \in S
    OBVIOUS
  <2> HIDE DEF S
  <2>2. code \in Seq(S)
    BY <1>2, <2>1, SeqMonotonic
  <2> QED
    BY <1>1, <2>1, <2>2, ChangedSlots
<1>7. \A i \in 1..Len(code) : code'[i].op = code[i].op /\ (code[i].op = "STATIC_FIELD" => code'[i] = code[i])
  BY <1>3, <1>4, <1>5
<1>8. StaticsSame(code, code')
  <2>1. {i \in DOMAIN code' : code'[i].op = "STATIC_FIELD"} = {i \in DOMAIN code : code[i].op = "STATIC_FIELD"}
    BY <1>2, <1>5, <1>7
  <2>2. Locals(code') = Locals(code)
    BY <2>1 DEF Locals
  <2>3. Len(code) <= Len(code')
    BY <1>2, <1>6
  <2>4. \A i : StaticAt(code', i) <=> StaticAt(code, i)
    BY <1>6, <1>7 DEF StaticAt
  <2>5. \A i : StaticAt(code, i) => code'[i] = code[i]
    BY <1>7 DEF StaticAt
  <2> QED
    BY <2>2, <2>3, <2>4, <2>5 DEF StaticsSame
<1> QED
  BY <1>1, <1>6, <1>7, <1>8, StaticsElse

LEMMA FieldStatics ==
  ASSUME Compiled, StaticsInv, Field
  PROVE  StaticsInv'
<1>1. PICK t : /\ t = [said[book.class] EXCEPT !.fields = @ + 1]
               /\ phase = "class" /\ code' = code /\ said' = [said EXCEPT ![book.class] = t]
  BY DEF Field, Writable
<1>2. t.statics = said[book.class].statics
  <2>1. said[book.class] \in SaidTypes
    BY <1>1, OpenFacts, SaidFacts DEF Compiled
  <2> QED
    BY <1>1, <2>1 DEF SaidTypes
<1>3. Len(said') = Len(said) /\ \A d \in 1..Len(said) : said'[d].statics = said[d].statics
  BY <1>1, <1>2, SaidElse
<1>4. StaticsSame(code, code')
  BY <1>1, ItselfSame, CompiledFacts
<1> QED
  BY <1>1, <1>3, <1>4, StaticsElse

LEMMA MethodStatics ==
  ASSUME Compiled, StaticsInv, NEW sign, NEW isStatic, Method(sign, isStatic)
  PROVE  StaticsInv'
<1>1. /\ phase = "class"
      /\ \E body : code' = Append(code, Bind(isStatic, IndexOf(EnsureSymbolExist(allMethodNames, sign), sign), body))
      /\ said' = IF isStatic THEN [said EXCEPT ![book.class].static = @ \cup {sign}]
                 ELSE [said EXCEPT ![book.class].defined = @ \cup {sign}]
  BY DEF Method, Writable
<1>2. PICK t : /\ t = IF isStatic THEN [said[book.class] EXCEPT !.static = @ \cup {sign}]
                      ELSE [said[book.class] EXCEPT !.defined = @ \cup {sign}]
               /\ said' = [said EXCEPT ![book.class] = t]
  BY <1>1
<1>3. PICK x : code' = Append(code, x) /\ x.op = "METHOD"
  BY <1>1 DEF Bind
<1>4. t.statics = said[book.class].statics
  <2>1. said[book.class] \in SaidTypes
    BY <1>1, OpenFacts, SaidFacts DEF Compiled
  <2> QED
    BY <1>2, <2>1 DEF SaidTypes
<1>5. Len(said') = Len(said) /\ \A d \in 1..Len(said) : said'[d].statics = said[d].statics
  BY <1>1, <1>2, <1>4, SaidElse
<1>6. code \in Seq(Items)
  BY CompiledFacts
<1>7. StaticsSame(code, code')
  BY <1>3, <1>6, OtherAppended
<1>8. \A j \in 1..Len(code') : code'[j].op = "CREATE_CLASS" => j \in 1..Len(code) /\ code[j].op = "CREATE_CLASS"
  BY <1>3, <1>6, AppendedItem
<1> QED
  BY <1>5, <1>7, <1>8, StaticsElse

LEMMA ConstructorStatics ==
  ASSUME Compiled, StaticsInv, Constructor
  PROVE  StaticsInv'
<1>1. /\ phase = "class"
      /\ \E i, body, creator : code' = code \o <<Bind(FALSE, i, body), Bind(TRUE, i, creator)>>
      /\ said' = [said EXCEPT ![book.class].defined = @ \cup {New}]
  BY DEF Constructor, Writable
<1>2. PICK t : t = [said[book.class] EXCEPT !.defined = @ \cup {New}] /\ said' = [said EXCEPT ![book.class] = t]
  BY <1>1
<1>3. PICK x, y : code' = code \o <<x, y>> /\ x.op = "METHOD" /\ y.op = "METHOD"
  <2>1. PICK i, body, creator : code' = code \o <<Bind(FALSE, i, body), Bind(TRUE, i, creator)>>
    BY <1>1
  <2>2. Bind(FALSE, i, body).op = "METHOD" /\ Bind(TRUE, i, creator).op = "METHOD"
    BY DEF Bind
  <2> QED
    BY <2>1, <2>2
<1>4. t.statics = said[book.class].statics
  <2>1. said[book.class] \in SaidTypes
    BY <1>1, OpenFacts, SaidFacts DEF Compiled
  <2> QED
    BY <1>2, <2>1 DEF SaidTypes
<1>5. Len(said') = Len(said) /\ \A d \in 1..Len(said) : said'[d].statics = said[d].statics
  BY <1>1, <1>2, <1>4, SaidElse
<1> DEFINE T == Items \cup {x, y}
<1>6. Items \subseteq T /\ x \in T /\ y \in T
  OBVIOUS
<1> HIDE DEF T
<1>7. code \in Seq(T)
  BY <1>6, CompiledFacts, SeqMonotonic
<1>8. PICK mid : mid = Append(code, x)
  OBVIOUS
<1>9. mid \in Seq(T) /\ code' = Append(mid, y)
  BY <1>3, <1>6, <1>7, <1>8, TwoAppended, AppendProperties
<1>10. StaticsSame(code, mid) /\ StaticsSame(mid, code')
  BY <1>3, <1>7, <1>8, <1>9, OtherAppended
<1>11. StaticsSame(code, code')
  <2>1. Len(code) <= Len(code')
    <3>1. Len(mid) = Len(code) + 1 /\ Len(code') = Len(mid) + 1 /\ Len(code) \in Nat
      BY <1>7, <1>8, <1>9, AppendedItem
    <3> QED
      BY <3>1
  <2> QED
    BY <1>10, <2>1 DEF StaticsSame
<1>12. \A j \in 1..Len(mid) : mid[j].op = "CREATE_CLASS" => j \in 1..Len(code) /\ code[j].op = "CREATE_CLASS"
  BY <1>3, <1>7, <1>8, AppendedItem
<1>13. \A j \in 1..Len(code') : code'[j].op = "CREATE_CLASS" => j \in 1..Len(mid) /\ mid[j].op = "CREATE_CLASS"
  <2>1. PICK new : new = Append(mid, y)
    OBVIOUS
  <2>2. \A j \in 1..Len(new) : new[j].op = "CREATE_CLASS" => j \in 1..Len(mid) /\ mid[j].op = "CREATE_CLASS"
    BY <1>3, <1>9, <2>1, AppendedItem
  <2> QED
    BY <1>9, <2>1, <2>2
<1> QED
  BY <1>5, <1>11, <1>12, <1>13, StaticsElse

LEMMA StaticFieldStatics ==
  ASSUME Compiled, StaticsInv, NEW initialized \in BOOLEAN, StaticField(initialized)
  PROVE  StaticsInv'
<1>1. PICK n, x, v, u, t : /\ n = Locals(code) /\ x = [op |-> "STATIC_FIELD", index |-> n, initialized |-> initialized]
                           /\ v = (IF initialized THEN Initial(n) ELSE Null)
                           /\ u = Append(said[book.class].statics, v)
                           /\ t = [said[book.class] EXCEPT !.statics = u]
  OBVIOUS
<1>2. /\ phase = "class" /\ code' = Append(code, x) /\ said' = [said EXCEPT ![book.class] = t]
      /\ InitStatics \/ \A s \in Range(said[book.class].statics) : s = Null
  <2>1. n = localVarNum
    BY <1>1 DEF Locals, localVarNum
  <2> QED
    BY <1>1, <2>1 DEF StaticField, Writable, SaidStatics
<1>3. PICK L, b, new, ts : L = Len(code) /\ b = book.class /\ new = code' /\ ts = said'
  OBVIOUS
<1>4. /\ code \in Seq(Items) /\ L \in Nat /\ b \in 1..Len(said) /\ b = Len(said) /\ Len(said) \in Nat
      /\ said[b] \in SaidTypes /\ said[b].statics \in Seq(Values) /\ said \in Seq(SaidTypes) /\ SaidOK(said)
  BY <1>2, <1>3, CompiledFacts, OpenFacts, SaidFacts DEF Compiled, SaidOK
<1>5. /\ Len(new) = L + 1 /\ DOMAIN new = 1..L + 1 /\ DOMAIN code = 1..L
      /\ \A i \in 1..L : new[i] = code[i] /\ i \in 1..L + 1
      /\ new[L + 1] = x
      /\ \A i \in 1..L + 1 : i \in 1..L \/ i = L + 1
      /\ L + 1 \in 1..L + 1 /\ L + 1 \notin 1..L
  <2>1. new = Append(code, x)
    BY <1>2, <1>3
  <2> QED
    BY <1>3, <1>4, <2>1, AppendedItem
<1>6. x.op = "STATIC_FIELD" /\ x.index = n /\ x.initialized = initialized /\ ValueOf(x) = v
  <2>1. x.op = "STATIC_FIELD" /\ x.index = n /\ x.initialized = initialized
    BY <1>1
  <2> QED
    BY <1>1, <2>1 DEF ValueOf
<1>7. /\ \A i : StaticAt(new, i) <=> StaticAt(code, i) \/ i = L + 1
      /\ \A i : StaticAt(code, i) => i \in 1..L /\ new[i] = code[i]
  BY <1>3, <1>5, <1>6 DEF StaticAt
<1>8. n \in Nat /\ Locals(new) = n + 1
  <2> DEFINE S == {i \in DOMAIN code : code[i].op = "STATIC_FIELD"}
  <2>1. {i \in DOMAIN new : new[i].op = "STATIC_FIELD"} = S \cup {L + 1} /\ L + 1 \notin S
    BY <1>5, <1>6
  <2>2. IsFiniteSet(S)
    <3>1. IsFiniteSet(1..L) /\ S \subseteq 1..L
      BY <1>4, <1>5, FS_Interval
    <3> QED
      BY <3>1, FS_Subset
  <2>3. Cardinality(S \cup {L + 1}) = Cardinality(S) + 1 /\ Cardinality(S) \in Nat
    BY <2>1, <2>2, FS_AddElement, FS_CardinalityType
  <2> QED
    BY <1>1, <2>1, <2>3 DEF Locals
<1>9. /\ Len(ts) = Len(said) /\ ts[b] = t /\ \A d \in 1..Len(said) : d # b => ts[d] = said[d]
  <2> DEFINE S == SaidTypes \cup {t}
  <2>1. SaidTypes \subseteq S /\ t \in S
    OBVIOUS
  <2> HIDE DEF S
  <2>2. said \in Seq(S) /\ ts = [said EXCEPT ![b] = t]
    BY <1>2, <1>3, <1>4, <2>1, SeqMonotonic
  <2> QED
    BY <1>4, <2>1, <2>2, ChangedSlots
<1>10. /\ ts[b].statics = u /\ v \in Range(u) /\ \A s \in Range(said[b].statics) : s \in Range(u)
  <2>1. t.statics = u
    BY <1>1, <1>3, <1>4 DEF SaidTypes
  <2>2. PICK k : k = Len(said[b].statics)
    OBVIOUS
  <2>3. /\ u = Append(said[b].statics, v) /\ DOMAIN u = 1..k + 1 /\ k + 1 \in 1..k + 1 /\ u[k + 1] = v
        /\ DOMAIN said[b].statics = 1..k /\ \A i \in 1..k : i \in 1..k + 1 /\ u[i] = said[b].statics[i]
    BY <1>1, <1>3, <1>4, <2>2, AppendedItem
  <2> QED
    BY <1>9, <2>1, <2>3 DEF Range
<1> HIDE DEF StaticAt, Locals
<1>11. \A i : StaticAt(code, i) => code[i].index \in 0..n - 1 /\ code[i].index \in Nat /\ code[i].index < n /\ i < L + 1
  <2>1. \A i : StaticAt(code, i) => code[i].index \in 0..n - 1 /\ i \in 1..L
    BY <1>1, <1>7 DEF StaticsInv, StaticsOK
  <2>2. \A k \in 0..n - 1 : k \in Nat /\ k < n
    BY <1>8
  <2>3. \A i \in 1..L : i < L + 1
    BY <1>4
  <2> QED
    BY <2>1, <2>2, <2>3
<1>12. ASSUME NEW i, StaticAt(new, i)
       PROVE  new[i].index \in 0..Locals(new) - 1 /\ \E d \in 1..Len(ts) : ValueOf(new[i]) \in Range(ts[d].statics)
  <2>1. CASE StaticAt(code, i)
    <3>1. PICK d \in 1..Len(said) : ValueOf(code[i]) \in Range(said[d].statics)
      BY <2>1 DEF StaticsInv, StaticsOK
    <3>2. ValueOf(code[i]) \in Range(ts[d].statics)
      BY <1>9, <1>10, <3>1
    <3>3. code[i].index \in 0..Locals(new) - 1
      BY <1>8, <1>11, <2>1
    <3> QED
      BY <1>7, <1>9, <2>1, <3>2, <3>3
  <2>2. CASE i = L + 1
    <3>1. n \in 0..Locals(new) - 1
      BY <1>8
    <3> QED
      BY <1>4, <1>5, <1>6, <1>9, <1>10, <2>2, <3>1
  <2> QED
    BY <1>7, <1>12, <2>1, <2>2
<1>13. \E i : StaticAt(new, i) /\ new[i].index = Locals(new) - 1
  <2>1. n = Locals(new) - 1
    BY <1>8
  <2> QED
    BY <1>5, <1>6, <1>7, <2>1
<1>14. ASSUME NEW i, NEW j, StaticAt(new, i), StaticAt(new, j), i < j
       PROVE  StaticAt(code, i) /\ new[i].index < new[j].index
  <2>1. j \in 1..L \/ j = L + 1
    BY <1>7, <1>14
  <2>2. i # L + 1
    BY <1>4, <1>14, <2>1
  <2>3. StaticAt(code, i) /\ new[i] = code[i]
    BY <1>7, <1>14, <2>2
  <2>4. CASE StaticAt(code, j)
    BY <1>7, <1>14, <2>3, <2>4 DEF StaticsInv, StaticsOK
  <2>5. CASE j = L + 1
    BY <1>5, <1>6, <1>11, <2>3, <2>5
  <2> QED
    BY <1>7, <1>14, <2>3, <2>4, <2>5
<1>15. ASSUME NEW j, StaticAt(new, j), new[j].index > 0
       PROVE  \E i : StaticAt(new, i) /\ i < j /\ new[i].index = new[j].index - 1
  <2>1. CASE StaticAt(code, j)
    <3>1. PICK i : StaticAt(code, i) /\ i < j /\ code[i].index = code[j].index - 1
      BY <1>7, <1>15, <2>1 DEF StaticsInv, StaticsOK
    <3> QED
      BY <1>7, <2>1, <3>1
  <2>2. CASE j = L + 1
    <3>1. n > 0
      BY <1>5, <1>6, <1>15, <2>2
    <3>2. PICK i : StaticAt(code, i) /\ code[i].index = n - 1
      BY <1>1, <3>1 DEF StaticsInv, StaticsOK
    <3> QED
      BY <1>5, <1>6, <1>7, <1>11, <2>2, <3>2
  <2> QED
    BY <1>7, <1>15, <2>1, <2>2
<1>16. StaticsOK(new, ts)
  BY <1>12, <1>13, <1>14, <1>15 DEF StaticsOK
<1>17. ASSUME ~EarlyStatics PROVE LastOK(new, ts)
  <2>1. LastOK(code, said)
    BY <1>17 DEF StaticsInv
  <2>2. \A d \in 1..Len(said) - 1 : d \in 1..Len(said) /\ d # b
    BY <1>4
  <2>3. \A d \in 1..Len(ts) - 1 : ts[d].statics = <<>>
    BY <1>9, <2>1, <2>2 DEF LastOK
  <2>4. ASSUME NEW i, NEW j, StaticAt(new, i), j \in 1..Len(new), i < j PROVE new[j].op # "CREATE_CLASS"
    <3>1. CASE j = L + 1
      BY <1>5, <1>6, <3>1
    <3>2. CASE j \in 1..L
      <4>1. i # L + 1
        BY <1>4, <2>4, <3>2
      <4> QED
        BY <1>3, <1>5, <1>7, <2>1, <2>4, <3>2, <4>1 DEF LastOK
    <3> QED
      BY <1>5, <2>4, <3>1, <3>2
  <2> QED
    BY <2>3, <2>4 DEF LastOK
<1>18. ASSUME ~EarlyStatics, ~InitStatics PROVE InitialOK(new)
  <2> SUFFICES ASSUME NEW i, NEW j, StaticAt(new, i), StaticAt(new, j), i < j PROVE ~new[i].initialized
    BY DEF InitialOK
  <2>1. StaticAt(code, i) /\ new[i] = code[i]
    BY <1>7, <1>14
  <2>2. CASE StaticAt(code, j)
    BY <1>18, <2>1, <2>2 DEF StaticsInv, InitialOK
  <2>3. CASE j = L + 1
    <3>1. PICK d \in 1..Len(said) : ValueOf(code[i]) \in Range(said[d].statics)
      BY <2>1 DEF StaticsInv, StaticsOK
    <3>2. said[d].statics # <<>>
      BY <3>1 DEF Range
    <3>3. d = b
      <4>1. d \notin 1..Len(said) - 1
        BY <1>18, <3>2 DEF StaticsInv, LastOK
      <4> QED
        BY <1>4, <4>1
    <3>4. ValueOf(code[i]) = Null
      BY <1>2, <1>3, <1>18, <3>1, <3>3
    <3>5. Initial(code[i].index) # Null
      BY DEF Initial, Null
    <3> QED
      BY <2>1, <3>4, <3>5 DEF ValueOf
  <2> QED
    BY <1>7, <2>2, <2>3
<1> QED
  BY <1>3, <1>16, <1>17, <1>18 DEF StaticsInv

LEMMA StaticsInvNext == ClassesInv /\ StaticsInv /\ [Next]_vars => StaticsInv'
<1> SUFFICES ASSUME ClassesInv, StaticsInv, [Next]_vars PROVE StaticsInv'
  OBVIOUS
<1>0. Compiled /\ Fresh /\ RunOK
  BY DEF ClassesInv
<1>1. ASSUME NEW super \in 0..MaxClasses, OpenClass(super) PROVE StaticsInv'
  BY <1>0, <1>1, OpenClassStatics
<1>2. ASSUME CloseClass PROVE StaticsInv'
  BY <1>0, <1>2, CloseClassStatics
<1>3. ASSUME Field PROVE StaticsInv'
  BY <1>0, <1>3, FieldStatics
<1>4. ASSUME NEW initialized \in BOOLEAN, StaticField(initialized) PROVE StaticsInv'
  BY <1>0, <1>4, StaticFieldStatics
<1>5. ASSUME NEW sign \in Sign, NEW isStatic \in BOOLEAN, Method(sign, isStatic) PROVE StaticsInv'
  BY <1>0, <1>5, MethodStatics
<1>6. ASSUME Constructor PROVE StaticsInv'
  BY <1>0, <1>6, ConstructorStatics
<1>7. ASSUME UNCHANGED <<code, said>> PROVE StaticsInv'
  BY <1>7 DEF StaticsInv
<1>8. ASSUME \/ \E sign \in Sign \cup {New}, isStatic \in BOOLEAN : Refused(sign, isStatic)
             \/ EndModule \/ CreateClass \/ CreateClassFails \/ Return \/ DefineStatic \/ BindMethod \/ UNCHANGED vars
      PROVE  StaticsInv'
  <2>1. UNCHANGED compiled
    BY <1>8 DEF Refused, EndModule, CreateClass, CreateClassFails, Return, Stop, DefineStatic, BindMethod, vars
  <2> QED
    BY <1>7, <2>1 DEF compiled
<1> QED
  BY <1>1, <1>2, <1>3, <1>4, <1>5, <1>6, <1>8 DEF Next, Compile, Run

-----------------------------------------------------------------------------
(***************************************************************************)
(* The frame of the module and its variables.                              *)
(***************************************************************************)
\* Of the instructions before n those that define static fields.
DefinedBefore(cd, n, i) == i \in 1..(n - 1) /\ StaticAt(cd, i)

EmptyOK(st, cd, n) == (\A i : ~DefinedBefore(cd, n, i)) => st = <<>>
NamedOK(mv, cs) == \A c \in DOMAIN cs : mv[c] = Class(c)

\* The values of the static fields lie in order, each where its index says.
SlotsOK(st, cd, n) ==
  /\ \A i : DefinedBefore(cd, n, i) => cd[i].index + 1 \in 1..Len(st) /\ st[cd[i].index + 1] = ValueOf(cd[i])
  /\ (\A i : DefinedBefore(cd, n, i) => ~cd[i].initialized) =>
       (Len(st) > 0 => \E i : DefinedBefore(cd, n, i) /\ cd[i].index = Len(st) - 1)

FrameOK ==
  /\ EmptyOK(stack, code, pc)
  /\ ~EarlyStatics => NamedOK(moduleVars, classes)
  /\ ~EarlyStatics /\ ~InitStatics => SlotsOK(stack, code, pc)

LEMMA UntouchedFrame == Compiled /\ Untouched => FrameOK
<1> SUFFICES ASSUME Compiled, Untouched PROVE FrameOK
  OBVIOUS
<1>1. pc = 1 /\ stack = <<>> /\ Len(stack) = 0 /\ DOMAIN classes = {0} /\ 0 \in 0..MaxClasses /\ moduleVars[0] = Class(0)
  BY ClassesAssumption DEF Untouched
<1>2. \A i \in 1..(1 - 1) : FALSE
  OBVIOUS
<1>3. \A i : ~DefinedBefore(code, pc, i)
  BY <1>1, <1>2 DEF DefinedBefore
<1> QED
  BY <1>1, <1>3 DEF FrameOK, EmptyOK, NamedOK, SlotsOK

\* The next instruction defines no static field.
LEMMA DefinedElse ==
  ASSUME Compiled, RunOK, phase = "running", pc <= Len(code), instr.op # "STATIC_FIELD"
  PROVE  \A i : DefinedBefore(code, pc + 1, i) <=> DefinedBefore(code, pc, i)
BY NextFacts DEF DefinedBefore, StaticAt, instr

LEMMA CreateClassFrame ==
  ASSUME Compiled, RunOK, StaticsInv, FrameOK, CreateClass
  PROVE  FrameOK'
<1>1. PICK c, K : c = instr.class /\ K = c - 1
  OBVIOUS
<1>2. /\ phase = "running" /\ pc <= Len(code) /\ instr.op = "CREATE_CLASS"
      /\ HierarchyOK(classes, K, said) /\ c \in 1..Len(said) /\ c \in 1..MaxClasses /\ DOMAIN classes' = 0..c
      /\ moduleVars' = [moduleVars EXCEPT ![c] = IF stack = <<>> THEN Class(c) ELSE ClassName(c)]
      /\ (stack = <<>> => stack' = <<>>) /\ pc' = pc + 1 /\ UNCHANGED code
  BY <1>1, CreateClassIs DEF compiled
<1>3. \A i : DefinedBefore(code, pc + 1, i) <=> DefinedBefore(code, pc, i)
  BY <1>2, DefinedElse
<1>4. EmptyOK(stack', code, pc + 1)
  BY <1>2, <1>3 DEF FrameOK, EmptyOK
<1>5. ASSUME ~EarlyStatics PROVE stack = <<>> /\ \A i : ~DefinedBefore(code, pc, i)
  <2>1. \A i : ~DefinedBefore(code, pc, i)
    <3> SUFFICES ASSUME NEW i, DefinedBefore(code, pc, i) PROVE FALSE
      OBVIOUS
    <3>1. i \in 1..(pc - 1) /\ StaticAt(code, i) /\ i < pc /\ pc \in 1..Len(code)
      BY <1>2, NextFacts DEF DefinedBefore
    <3>2. LastOK(code, said)
      BY <1>5 DEF StaticsInv
    <3> QED
      BY <1>2, <3>1, <3>2 DEF LastOK, instr
  <2> QED
    BY <2>1 DEF FrameOK, EmptyOK
<1>6. ASSUME ~EarlyStatics PROVE NamedOK(moduleVars', classes')
  <2>1. DOMAIN classes = 0..K /\ K \in Nat /\ SaidOK(said) /\ Len(said) \in Nat
    BY <1>2, HierarchyFacts, SaidFacts DEF Compiled
  <2>2. \A d \in 0..c : d = c \/ d \in 0..K
    BY <1>1, <1>2, <2>1
  <2>3. DOMAIN moduleVars = 0..MaxClasses /\ c \in 0..MaxClasses
    BY <1>2, ClassesAssumption DEF RunOK, VariablesOK
  <2>4. moduleVars' = [moduleVars EXCEPT ![c] = Class(c)]
    BY <1>2, <1>5, <1>6
  <2>5. \A d \in 0..K : d # c /\ moduleVars[d] = Class(d)
    BY <1>1, <1>6, <2>1 DEF FrameOK, NamedOK
  <2>6. ASSUME NEW d \in 0..c PROVE moduleVars'[d] = Class(d)
    <3>1. CASE d = c
      BY <2>3, <2>4, <3>1
    <3>2. CASE d # c
      <4>1. moduleVars'[d] = moduleVars[d]
        BY <2>4, <3>2
      <4> QED
        BY <2>2, <2>5, <3>2, <4>1
    <3> QED
      BY <3>1, <3>2
  <2> QED
    BY <1>2, <2>6 DEF NamedOK
<1>7. ASSUME ~EarlyStatics PROVE SlotsOK(stack', code, pc + 1)
  <2>1. Len(stack') = 0 /\ \A i : ~DefinedBefore(code, pc + 1, i)
    BY <1>2, <1>3, <1>5, <1>7
  <2> QED
    BY <2>1 DEF SlotsOK
<1> QED
  BY <1>2, <1>4, <1>6, <1>7 DEF FrameOK

LEMMA BindMethodFrame ==
  ASSUME Compiled, RunOK, FrameOK, BindMethod
  PROVE  FrameOK'
<1>1. /\ phase = "running" /\ pc <= Len(code) /\ instr.op = "METHOD"
      /\ pc' = pc + 1 /\ UNCHANGED <<code, stack, moduleVars>> /\ DOMAIN classes' = DOMAIN classes
  BY BindMethodIs DEF compiled
<1>2. \A i : DefinedBefore(code, pc + 1, i) <=> DefinedBefore(code, pc, i)
  BY <1>1, DefinedElse
<1> QED
  BY <1>1, <1>2 DEF FrameOK, EmptyOK, NamedOK, SlotsOK

LEMMA DefineStaticFrame ==
  ASSUME Compiled, RunOK, StaticsInv, FrameOK, DefineStatic
  PROVE  FrameOK'
<1>1. PICK st, new, m, L : st = stack /\ new = stack' /\ m = instr.index /\ L = Len(stack)
  OBVIOUS
<1>2. /\ phase = "running" /\ pc <= Len(code) /\ instr.op = "STATIC_FIELD" /\ instr = code[pc]
      /\ pc' = pc + 1 /\ UNCHANGED <<code, said, moduleVars, classes>>
      /\ Len(new) = (IF instr.initialized THEN L + 2 ELSE L + 1)
      /\ \A i \in 1..L : new[i] = IF i = m + 1 /\ instr.initialized THEN Initial(m) ELSE st[i]
      /\ new[L + 1] = IF L = m /\ instr.initialized THEN Initial(m) ELSE Null
  BY <1>1, DefineStaticIs DEF compiled, instr
<1>3. /\ pc \in 1..Len(code) /\ pc \in Nat /\ (pc + 1) - 1 = pc /\ L \in Nat
      /\ \A i \in 1..pc : i \in 1..(pc - 1) \/ i = pc
      /\ \A i \in 1..(pc - 1) : i \in 1..pc /\ i < pc
  BY <1>1, <1>2, NextFacts, LenProperties DEF RunOK
<1>4. StaticAt(code, pc) /\ m \in Nat /\ code[pc].index = m /\ instr.initialized \in BOOLEAN
  BY <1>1, <1>2, <1>3, NextFacts, ItemFacts DEF StaticAt
<1>5. pc \in 1..pc
  BY <1>3
<1>6. \A i : DefinedBefore(code, pc + 1, i) <=> DefinedBefore(code, pc, i) \/ i = pc
  BY <1>3, <1>4, <1>5 DEF DefinedBefore
<1>7. EmptyOK(new, code, pc + 1)
  BY <1>6 DEF EmptyOK
<1>8. ASSUME ~EarlyStatics, ~InitStatics PROVE SlotsOK(new, code, pc + 1)
  <2>1. StaticsOK(code, said) /\ InitialOK(code) /\ SlotsOK(st, code, pc)
    BY <1>1, <1>8 DEF StaticsInv, FrameOK
  <2>2. \A i : DefinedBefore(code, pc, i) => StaticAt(code, i) /\ i < pc
    BY <1>3 DEF DefinedBefore
  <2>3. \A i : DefinedBefore(code, pc, i) => /\ ~code[i].initialized /\ code[i].index \in Nat /\ code[i].index < m
                                             /\ code[i].index + 1 \in 1..L /\ st[code[i].index + 1] = ValueOf(code[i])
    <3> SUFFICES ASSUME NEW i, DefinedBefore(code, pc, i)
                 PROVE  /\ ~code[i].initialized /\ code[i].index \in Nat /\ code[i].index < m
                        /\ code[i].index + 1 \in 1..L /\ st[code[i].index + 1] = ValueOf(code[i])
      OBVIOUS
    <3>1. StaticAt(code, i) /\ i < pc
      BY <2>2
    <3>2. ~code[i].initialized /\ code[i].index < m
      BY <1>4, <2>1, <3>1 DEF InitialOK, StaticsOK
    <3>3. code[i].index \in Nat
      BY <3>1, CompiledFacts, ItemFacts DEF StaticAt
    <3> QED
      BY <1>1, <2>1, <3>2, <3>3 DEF SlotsOK
  <2>4. L <= m
    <3> SUFFICES ASSUME L > 0 PROVE L <= m
      BY <1>3, <1>4
    <3>1. PICK i : DefinedBefore(code, pc, i) /\ code[i].index = L - 1
      BY <1>1, <2>1, <2>3 DEF SlotsOK
    <3>2. L - 1 < m
      BY <2>3, <3>1
    <3> QED
      BY <1>3, <1>4, <3>2
  <2>5. m <= L
    <3> SUFFICES ASSUME m > 0 PROVE m <= L
      BY <1>3, <1>4
    <3>1. PICK i : StaticAt(code, i) /\ i < pc /\ code[i].index = m - 1
      BY <1>4, <2>1 DEF StaticsOK
    <3>2. i \in 1..(pc - 1)
      BY <1>3, <3>1, CompiledFacts DEF StaticAt
    <3>3. (m - 1) + 1 \in 1..L
      BY <2>3, <3>1, <3>2 DEF DefinedBefore
    <3> QED
      BY <1>3, <1>4, <3>3
  <2>6. L = m
    BY <1>3, <1>4, <2>4, <2>5
  <2>7. new[m + 1] = ValueOf(instr) /\ m + 1 \in 1..Len(new) /\ Len(new) \in Nat /\ \A k \in 1..L : k \in 1..Len(new)
    <3>1. new[m + 1] = ValueOf(instr)
      BY <1>1, <1>2, <2>6 DEF ValueOf
    <3> QED
      BY <1>2, <1>3, <1>4, <2>6, <3>1
  <2>8. \A k \in 1..L : new[k] = st[k]
    <3>1. \A k \in 1..L : k # m + 1
      BY <1>3, <2>6
    <3> QED
      BY <1>2, <3>1
  <2>9. ASSUME NEW i, DefinedBefore(code, pc + 1, i)
        PROVE  code[i].index + 1 \in 1..Len(new) /\ new[code[i].index + 1] = ValueOf(code[i])
    <3>1. CASE DefinedBefore(code, pc, i)
      BY <2>3, <2>7, <2>8, <3>1
    <3>2. CASE i = pc
      BY <1>2, <1>4, <2>7, <3>2
    <3> QED
      BY <1>6, <2>9, <3>1, <3>2
  <2>10. ASSUME \A i : DefinedBefore(code, pc + 1, i) => ~code[i].initialized
         PROVE  \E i : DefinedBefore(code, pc + 1, i) /\ code[i].index = Len(new) - 1
    <3>1. DefinedBefore(code, pc + 1, pc) /\ ~instr.initialized
      BY <1>2, <1>6, <2>10
    <3>2. Len(new) - 1 = m
      BY <1>2, <1>4, <2>6, <3>1
    <3> QED
      BY <1>4, <3>1, <3>2
  <2> QED
    BY <2>9, <2>10 DEF SlotsOK
<1> QED
  BY <1>1, <1>2, <1>7, <1>8 DEF FrameOK

LEMMA FreshFrame == ClassesInv' /\ phase' \in {"module", "class"} => FrameOK'
<1>1. ClassesInv /\ phase \in {"module", "class"} => FrameOK
  BY UntouchedFrame DEF ClassesInv, Fresh
<1>2. (ClassesInv /\ phase \in {"module", "class"} => FrameOK)'
  BY <1>1, PTL
<1> QED
  BY <1>2

LEMMA FrameNext == ClassesInv /\ StaticsInv /\ FrameOK /\ [Next]_vars => FrameOK'
<1> SUFFICES ASSUME ClassesInv, StaticsInv, FrameOK, [Next]_vars PROVE FrameOK'
  OBVIOUS
<1>0. Compiled /\ Fresh /\ RunOK
  BY DEF ClassesInv
<1>1. ASSUME phase' \in {"module", "class"} PROVE FrameOK'
  <2>1. ClassesInv'
    BY ClassesInvNext
  <2> QED
    BY <1>1, <2>1, FreshFrame
<1>2. ASSUME \/ \E super \in 0..MaxClasses : OpenClass(super)
             \/ CloseClass \/ Field \/ \E initialized \in BOOLEAN : StaticField(initialized)
             \/ \E sign \in Sign, isStatic \in BOOLEAN : Method(sign, isStatic)
             \/ Constructor
      PROVE  FrameOK'
  <2>1. phase' \in {"module", "class"}
    BY <1>2 DEF OpenClass, CloseClass, Field, StaticField, Method, Constructor, Writable
  <2> QED
    BY <1>1, <2>1
<1>3. ASSUME \/ \E sign \in Sign \cup {New}, isStatic \in BOOLEAN : Refused(sign, isStatic)
             \/ EndModule \/ CreateClassFails \/ Return \/ UNCHANGED vars
      PROVE  FrameOK'
  <2>1. UNCHANGED <<code, pc, stack, moduleVars, classes>>
    BY <1>3 DEF Refused, EndModule, CreateClassFails, Return, Stop, vars, compiled, run
  <2> QED
    BY <2>1 DEF FrameOK
<1>4. CreateClass \/ DefineStatic \/ BindMethod => FrameOK'
  BY <1>0, CreateClassFrame, DefineStaticFrame, BindMethodFrame
<1> QED
  BY <1>2, <1>3, <1>4 DEF Next, Compile, Run

FramesInv == ClassesInv /\ StaticsInv /\ FrameOK

LEMMA FramesInvAlways == Spec => []FramesInv
<1>1. Init => FramesInv
  <2>1. Init => Compiled /\ Untouched
    BY CompiledInit DEF Init, Untouched
  <2> QED
    BY <2>1, ClassesInvInit, StaticsInvInit, UntouchedFrame DEF FramesInv
<1>2. FramesInv /\ [Next]_vars => FramesInv'
  BY ClassesInvNext, StaticsInvNext, FrameNext DEF FramesInv
<1> QED
  BY <1>1, <1>2, PTL DEF Spec

\* What has been executed of the definitions is in the tables, the variables and the frame, if
\* no class follows one with static fields and no static field one with an initial value.
THEOREM DefinitionsHaveEffect == ~EarlyStatics /\ ~InitStatics => (Spec => []DefinitionsTakeEffect)
<1> SUFFICES ASSUME ~EarlyStatics, ~InitStatics PROVE Spec => []DefinitionsTakeEffect
  OBVIOUS
<1>1. FramesInv => DefinitionsTakeEffect
  <2> SUFFICES ASSUME FramesInv PROVE DefinitionsTakeEffect
    OBVIOUS
  <2>0. Compiled /\ RunOK /\ FrameOK
    BY DEF FramesInv, ClassesInv
  <2>1. PICK K : HierarchyOK(classes, K, said) /\ SaidOK(said) /\ K \in Nat /\ DOMAIN classes = 0..K /\ K \in 0..Len(said)
    <3>1. PICK K : HierarchyOK(classes, K, said)
      BY <2>0 DEF RunOK
    <3> QED
      BY <2>0, <3>1, HierarchyFacts DEF Compiled, HierarchyOK
  <2>2. Len(allMethodNames) \in Nat /\ allMethodNames \in Seq(Sign \cup {New}) /\ BYTE \in Nat /\ BYTE > 0 /\ Len(said) \in Nat
    BY <2>0, CompiledFacts
  <2>3. \A i \in DOMAIN code : code[i].op = "CREATE_CLASS" => code[i].operand \in 0..BYTE - 1
    BY <2>0, CompiledFacts, ItemFacts
  <2>4. ASSUME NEW c \in DOMAIN classes
        PROVE  /\ c <= Len(said) /\ classes[c].fieldNum \in 0..MAX_FIELD_NUM
               /\ \A m \in Methods(c) \cup StaticMethods(c) : m.fn.operand \in 0..BYTE + Len(allMethodNames)
    <3>1. c \in 0..K /\ c <= Len(said)
      BY <2>1, <2>2
    <3>2. \A n : n \in 0..Len(allMethodNames) => n \in 0..BYTE + Len(allMethodNames)
      BY <2>2
    <3>3. ASSUME NEW m \in Methods(c) PROVE m.fn.operand \in 0..BYTE + Len(allMethodNames)
      <4>1. PICK i \in 1..Len(classes[c].methods) : m = classes[c].methods[i] /\ m.type = "script"
        BY <2>1, <3>1, HierarchyFacts DEF Methods, Range
      <4>2. InstanceFn(classes, c, m.fn, said, allMethodNames)
        BY <2>0, <4>1 DEF RunOK, TablesOK, TableOf
      <4>3. CASE m.fn.op # "LOAD_THIS_FIELD"
        BY <3>2, <4>2, <4>3 DEF InstanceFn
      <4>4. CASE m.fn.op = "LOAD_THIS_FIELD"
        <5>1. PICK f, a, s : f = m.fn.field /\ a = m.fn.class /\ s = said[a].superClass
          OBVIOUS
        <5>2. a \in 1..K /\ s \in 0..K /\ a \in 1..Len(said)
          <6>1. a \in DOMAIN classes \ {0}
            BY <4>2, <5>1 DEF InstanceFn
          <6>2. a \in 1..K
            BY <2>1, <6>1
          <6> QED
            BY <2>1, <5>1, <6>2, HierarchyFacts
        <5>3. f \in 0..said[a].fields - 1 /\ said[a].fields \in Nat /\ classes[s].fieldNum \in Nat
          <6>1. f \in 0..said[a].fields - 1
            BY <4>2, <4>4, <5>1 DEF InstanceFn
          <6>2. said[a].fields \in Nat /\ classes[s].fieldNum \in 0..MAX_FIELD_NUM
            BY <2>1, <5>2, SaidFacts, HierarchyFacts
          <6> QED
            BY <6>1, <6>2
        <5>4. m.fn.operand = ((f % BYTE) + classes[s].fieldNum) % BYTE
          BY <4>2, <4>4, <5>1 DEF InstanceFn
        <5>5. \A n \in Nat : n % BYTE \in Nat /\ n % BYTE \in 0..BYTE + Len(allMethodNames)
          BY <2>2
        <5>6. (f % BYTE) + classes[s].fieldNum \in Nat
          <6>1. f \in Nat
            BY <5>3
          <6>2. PICK k, r : k = classes[s].fieldNum /\ r = f % BYTE
            OBVIOUS
          <6>3. k \in Nat /\ r \in Nat
            BY <5>3, <5>5, <6>1, <6>2
          <6> QED
            BY <6>2, <6>3
        <5> QED
          BY <5>4, <5>5, <5>6
      <4> QED
        BY <4>3, <4>4
    <3>4. ASSUME NEW m \in StaticMethods(c) PROVE m.fn.operand \in 0..BYTE + Len(allMethodNames)
      <4>1. PICK i \in 1..Len(classes[c].meta) : m = classes[c].meta[i] /\ m.type = "script"
        BY <2>1, <3>1, HierarchyFacts DEF StaticMethods, Range
      <4>2. MetaFn(c, m.fn, said, allMethodNames)
        BY <2>0, <4>1 DEF RunOK, TablesOK, TableOf
      <4> QED
        BY <3>2, <4>2 DEF MetaFn
    <3> QED
      BY <2>1, <3>1, <3>3, <3>4, HierarchyFacts
  <2>5. TypeOK
    BY <2>0, <2>2, <2>3, <2>4 DEF TypeOK, Compiled, RunOK, VariablesOK
  <2>6. BoundOnce
    <3> SUFFICES ASSUME NEW i \in DOMAIN code, NEW j \in DOMAIN code, i < j, code[i].op = "METHOD", code[j].op = "METHOD",
                        code[i].class = code[j].class
                 PROVE  code[i].isStatic # code[j].isStatic \/ code[i].index # code[j].index
      BY DEF BoundOnce
    <3>1. i \in 1..Len(code) /\ j \in 1..Len(code)
      BY <2>0, CompiledFacts
    <3>2. InOrder(code[i], code[j])
      BY <2>0, <3>1 DEF Compiled, CodeFollows, ItemsFollow
    <3> QED
      BY <3>2 DEF InOrder
  <2>7. DefinitionNamesTheClass
    BY <2>0 DEF FrameOK, NamedOK, DefinitionNamesTheClass
  <2>8. StaticsKeepTheirSlot
    <3> SUFFICES ASSUME NEW i \in 1..pc - 1, code[i].op = "STATIC_FIELD"
                 PROVE  stack[code[i].index + 1] = IF code[i].initialized THEN Initial(code[i].index) ELSE Null
      BY DEF StaticsKeepTheirSlot
    <3>1. i \in 1..Len(code)
      BY <2>0, CompiledFacts DEF RunOK
    <3>2. DefinedBefore(code, pc, i)
      BY <3>1 DEF DefinedBefore, StaticAt
    <3>3. SlotsOK(stack, code, pc)
      BY <2>0 DEF FrameOK
    <3> QED
      BY <3>2, <3>3 DEF SlotsOK, ValueOf
  <2> QED
    BY <2>5, <2>6, <2>7, <2>8 DEF DefinitionsTakeEffect
<1> QED
  BY <1>1, FramesInvAlways, PTL

-----------------------------------------------------------------------------
(***************************************************************************)
(* The tables of methods, after the instructions before n.                 *)
(***************************************************************************)
BoundBefore(cd, n, i) == i \in 1..(n - 1) /\ cd[i].op = "METHOD"

\* What has been bound is in the table it was bound to.
OwnMethodsOK(cs, cd, n) ==
  \A i : BoundBefore(cd, n, i) /\ ~cd[i].isStatic =>
    LET e == Entry(cs[cd[i].class].methods, cd[i].index) IN e.type = "script" /\ e.fn.class = cd[i].class
OwnStaticsOK(cs, cd, n) ==
  \A i : BoundBefore(cd, n, i) /\ cd[i].isStatic =>
    LET e == Entry(cs[cd[i].class].meta, cd[i].index) IN e.type = "script" /\ e.fn.op = cd[i].fn.op

\* A class binds no instance method at index k.
NotBound(cd, n, c, k) == \A i : BoundBefore(cd, n, i) /\ ~cd[i].isStatic /\ cd[i].class = c => cd[i].index # k

\* The other entries are those of the base class, as it is now.
InheritedOK(cs, cd, n, sd) ==
  \A c \in DOMAIN cs \ {0}, k \in Nat : NotBound(cd, n, c, k) =>
    Entry(cs[c].methods, k) = Entry(cs[sd[c].superClass].methods, k)

FilledOK(cs, cd, n, sd) == OwnMethodsOK(cs, cd, n) /\ OwnStaticsOK(cs, cd, n) /\ InheritedOK(cs, cd, n, sd)

DispatchOK == ~EarlyStatics => FilledOK(classes, code, pc, said)

LEMMA UntouchedDispatch == Compiled /\ Untouched => DispatchOK
<1> SUFFICES ASSUME Compiled, Untouched PROVE DispatchOK
  OBVIOUS
<1>1. pc = 1 /\ DOMAIN classes = {0} /\ \A i \in 1..(1 - 1) : FALSE
  BY DEF Untouched
<1>2. \A i : ~BoundBefore(code, pc, i)
  BY <1>1 DEF BoundBefore
<1> QED
  BY <1>1, <1>2 DEF DispatchOK, FilledOK, OwnMethodsOK, OwnStaticsOK, InheritedOK

\* A class is created before its methods are bound, and after those of the classes before it.
LEMMA BoundAfterCreation ==
  ASSUME Compiled, RunOK, NEW K, HierarchyOK(classes, K, said)
  PROVE  /\ \A i \in 1..Len(code) : code[i].op = "METHOD" /\ i <= pc => code[i].class \in 1..K
         /\ \A i \in 1..Len(code) : code[i].op = "METHOD" /\ i >= pc => code[i].class >= K
<1>0. /\ Len(code) \in Nat /\ Len(said) \in Nat /\ K \in Nat /\ DOMAIN classes = 0..K /\ K <= Len(said)
      /\ pc \in 1..Len(code) + 1
      /\ \A i \in 1..Len(code) : code[i].op = "METHOD" => code[i].class \in 1..Len(said)
      /\ \A i, j \in 1..Len(code) : i < j => InOrder(code[i], code[j])
  <2>1. HierarchyOK(classes, K, said) /\ Len(said) \in Nat => K <= Len(said)
    BY DEF HierarchyOK
  <2>2. SaidOK(said)
    BY DEF Compiled
  <2> QED
    BY <2>1, <2>2, CompiledFacts, HierarchyFacts DEF Compiled, CodeFollows, ItemsFollow, RunOK
<1>1. ASSUME NEW i \in 1..Len(code), code[i].op = "METHOD", i <= pc
      PROVE  code[i].class \in 1..K
  <2>1. PICK c : c = code[i].class
    OBVIOUS
  <2>2. c \in 1..Len(said)
    BY <1>0, <1>1, <2>1
  <2>3. PICK j \in 1..Len(code) : CreatesClass(code[j], c)
    BY <2>2 DEF Compiled, CodeFollows
  <2>4. code[j].op = "CREATE_CLASS" /\ code[j].class = c /\ j # i
    BY <1>1, <2>3 DEF CreatesClass
  <2>5. ~(i < j)
    <3> SUFFICES ASSUME i < j PROVE FALSE
      OBVIOUS
    <3>1. c < c
      BY <1>0, <1>1, <2>1, <2>4 DEF InOrder
    <3> QED
      BY <2>2, <3>1
  <2>6. j \in 1..(pc - 1)
    BY <1>0, <1>1, <2>4, <2>5
  <2>7. c \in 0..K
    BY <1>0, <2>2, <2>3, <2>6 DEF RunOK, CreatedOK
  <2> QED
    BY <1>0, <2>1, <2>2, <2>7
<1>2. ASSUME NEW i \in 1..Len(code), code[i].op = "METHOD", i >= pc
      PROVE  code[i].class >= K
  <2>1. CASE K = 0
    BY <1>0, <1>2, <2>1
  <2>2. CASE K # 0
    <3>1. K \in 1..Len(said)
      BY <1>0, <2>2
    <3>2. PICK j \in 1..(pc - 1) : CreatesClass(code[j], K)
      BY <1>0, <3>1 DEF RunOK, CreatedOK
    <3>3. j \in 1..Len(code) /\ j < i
      BY <1>0, <1>2
    <3>4. K <= code[i].class
      BY <1>0, <1>2, <3>2, <3>3 DEF InOrder, CreatesClass
    <3> QED
      BY <1>0, <1>2, <3>4
  <2> QED
    BY <2>1, <2>2
<1> QED
  BY <1>1, <1>2

\* The next instruction binds no method.
LEMMA BoundElse ==
  ASSUME Compiled, RunOK, phase = "running", pc <= Len(code), instr.op # "METHOD"
  PROVE  \A i : BoundBefore(code, pc + 1, i) <=> BoundBefore(code, pc, i)
BY NextFacts DEF BoundBefore, instr

LEMMA CreateClassDispatch ==
  ASSUME Compiled, RunOK, FilledOK(classes, code, pc, said), CreateClass
  PROVE  FilledOK(classes', code, pc + 1, said)
<1>1. PICK c, s, K, cs : c = instr.class /\ s = said[c].superClass /\ K = c - 1 /\ cs = classes'
  OBVIOUS
<1>2. /\ phase = "running" /\ pc <= Len(code) /\ instr.op = "CREATE_CLASS"
      /\ HierarchyOK(classes, K, said) /\ c \in 1..Len(said) /\ s \in 0..K /\ DOMAIN cs = 0..c
      /\ \A d \in 0..K : d \in 0..c /\ cs[d] = classes[d]
      /\ cs[c].methods = classes[s].methods
  BY <1>1, CreateClassIs
<1>3. /\ K \in Nat /\ DOMAIN classes = 0..K /\ pc \in 1..Len(code) /\ c \in Nat /\ K = c - 1
      /\ \A d \in 1..K : d \in 0..K /\ said[d].superClass \in 0..K
      /\ \A d \in 0..c : d # 0 => d = c \/ d \in 1..K
  <2>1. /\ K \in Nat /\ DOMAIN classes = 0..K /\ pc \in 1..Len(code) /\ Len(said) \in Nat
        /\ \A d \in 1..K : d \in 0..K /\ said[d].superClass \in 0..K
    BY <1>2, HierarchyFacts, NextFacts, CompiledFacts DEF Compiled
  <2> QED
    BY <1>1, <1>2, <2>1
<1>4. \A i : BoundBefore(code, pc + 1, i) <=> BoundBefore(code, pc, i)
  BY <1>2, BoundElse
<1>5. \A i : BoundBefore(code, pc, i) => cs[code[i].class] = classes[code[i].class]
  <2> SUFFICES ASSUME NEW i, BoundBefore(code, pc, i) PROVE cs[code[i].class] = classes[code[i].class]
    OBVIOUS
  <2>1. i \in 1..Len(code) /\ i <= pc /\ code[i].op = "METHOD"
    BY <1>3, NextFacts, CompiledFacts DEF BoundBefore
  <2>2. code[i].class \in 1..K
    BY <1>2, <2>1, BoundAfterCreation
  <2> QED
    BY <1>2, <1>3, <2>2
<1>6. OwnMethodsOK(cs, code, pc + 1) /\ OwnStaticsOK(cs, code, pc + 1)
  BY <1>4, <1>5 DEF FilledOK, OwnMethodsOK, OwnStaticsOK
<1>7. ASSUME NEW d \in DOMAIN cs \ {0}, NEW k \in Nat, NotBound(code, pc + 1, d, k)
      PROVE  Entry(cs[d].methods, k) = Entry(cs[said[d].superClass].methods, k)
  <2>1. CASE d = c
    BY <1>1, <1>2, <2>1
  <2>2. CASE d # c
    <3>1. d \in 1..K
      BY <1>2, <1>3, <2>2
    <3>2. NotBound(code, pc, d, k)
      BY <1>4, <1>7 DEF NotBound
    <3>3. d \in DOMAIN classes \ {0} /\ cs[d] = classes[d] /\ cs[said[d].superClass] = classes[said[d].superClass]
      BY <1>2, <1>3, <3>1
    <3> QED
      BY <3>2, <3>3 DEF FilledOK, InheritedOK
  <2> QED
    BY <2>1, <2>2
<1>8. InheritedOK(cs, code, pc + 1, said)
  BY <1>7 DEF InheritedOK
<1> QED
  BY <1>1, <1>6, <1>8 DEF FilledOK

LEMMA BindMethodDispatch ==
  ASSUME Compiled, RunOK, FilledOK(classes, code, pc, said), NamedOK(moduleVars, classes), BindMethod
  PROVE  FilledOK(classes', code, pc + 1, said)
<1>1. PICK c, m, cs, x : c = instr.class /\ m = Script(BoundFn(instr, classes, said)) /\ cs = classes' /\ x = instr
  OBVIOUS
<1>2. /\ phase = "running" /\ pc <= Len(code) /\ x.op = "METHOD" /\ c \in 1..Len(said) /\ x.isStatic \in BOOLEAN
      /\ x = code[pc] /\ x.class = c
  BY <1>1, BindMethodIs DEF instr
<1>3. PICK K : HierarchyOK(classes, K, said)
  BY DEF RunOK
<1>4. /\ K \in Nat /\ DOMAIN classes = 0..K /\ pc \in 1..Len(code) /\ pc \in Nat /\ (pc + 1) - 1 = pc
      /\ \A i \in 1..pc : i \in 1..(pc - 1) \/ i = pc
      /\ \A i \in 1..(pc - 1) : i \in 1..pc /\ i \in 1..Len(code) /\ i <= pc /\ i # pc /\ InOrder(code[i], x)
      /\ MethodOK(x, allMethodNames, said) /\ x \in Binds
      /\ \A d \in 1..K : d \in 0..K /\ said[d].superClass \in 0..(d - 1) /\ said[d].superClass \in 0..K
  BY <1>1, <1>2, <1>3, HierarchyFacts, NextFacts DEF Compiled, MethodOK
<1>5. c \in 1..K /\ c >= K /\ c = K
  <2>1. pc <= pc /\ pc >= pc
    BY <1>4
  <2>2. c \in 1..K /\ c >= K
    BY <1>2, <1>3, <1>4, <2>1, BoundAfterCreation
  <2> QED
    BY <1>4, <2>2
<1>6. IsClass(moduleVars[c])
  BY <1>4, <1>5 DEF NamedOK, IsClass, Class
<1>7. /\ DOMAIN cs = 0..K /\ \A d \in 0..K : d # c => cs[d] = classes[d]
      /\ m \in Entries /\ m.fn = BoundFn(x, classes, said)
      /\ x.isStatic => cs[c].methods = classes[c].methods /\ cs[c].meta = Bound(classes[c].meta, x.index, m)
      /\ ~x.isStatic => cs[c].meta = classes[c].meta /\ cs[c].methods = Bound(classes[c].methods, x.index, m)
  BY <1>1, <1>4, <1>6, BindMethodIs
<1>8. /\ classes[c].methods \in Seq(Entries) /\ classes[c].meta \in Seq(Entries) /\ x.index \in Nat
  BY <1>3, <1>4, <1>5, HierarchyFacts, ItemFacts DEF Compiled
<1>20. PICK tm, ta, at : tm = classes[c].methods /\ ta = classes[c].meta /\ at = x.index
  OBVIOUS
<1>21. /\ Entry(Bound(tm, at, m), at) = m /\ \A i \in Nat : i # at => Entry(Bound(tm, at, m), i) = Entry(tm, i)
       /\ Entry(Bound(ta, at, m), at) = m /\ \A i \in Nat : i # at => Entry(Bound(ta, at, m), i) = Entry(ta, i)
  <2>1. tm \in Seq(Entries) /\ ta \in Seq(Entries) /\ at \in Nat /\ m \in Entries
    BY <1>7, <1>8, <1>20
  <2>2. /\ Entry(Bound(tm, at, m), at) = m /\ \A i \in Nat : i # at => Entry(Bound(tm, at, m), i) = Entry(tm, i)
    BY ONLY <2>1, BoundIs
  <2>3. /\ Entry(Bound(ta, at, m), at) = m /\ \A i \in Nat : i # at => Entry(Bound(ta, at, m), i) = Entry(ta, i)
    BY ONLY <2>1, BoundIs
  <2> QED
    BY <2>2, <2>3
<1>22. /\ x.isStatic => cs[c].meta = Bound(ta, at, m)
       /\ ~x.isStatic => cs[c].methods = Bound(tm, at, m)
  BY <1>7, <1>20
<1>9. m.type = "script" /\ m.fn.class = c /\ m.fn.op = x.fn.op
  <2>1. x.fn \in Fns /\ x.fn.operand \in Nat /\ x.fn.class = c
    BY <1>2, <1>4, ItemFacts DEF MethodOK, FnOK
  <2>2. PICK s : s = said[c].superClass
    OBVIOUS
  <2>3. s \in Int /\ classes[s].fieldNum \in Nat /\ classOfClass \in Int
    <3>1. s \in 0..K
      BY <1>4, <1>5, <2>2
    <3>2. classes[s].fieldNum \in 0..MAX_FIELD_NUM
      BY <1>3, <3>1, HierarchyFacts DEF Compiled
    <3> QED
      BY <3>1, <3>2, EntriesApart
  <2>4. BoundFn(x, classes, said).class = c /\ BoundFn(x, classes, said).op = x.fn.op
    <3>1. CASE x.isStatic
      BY <2>1, <2>3, <3>1, PatchedIs DEF BoundFn
    <3>2. CASE ~x.isStatic
      BY <1>2, <2>1, <2>2, <2>3, <3>2, PatchedIs DEF BoundFn
    <3> QED
      BY <3>1, <3>2
  <2> QED
    BY <1>1, <1>7, <2>4, EntriesApart
<1>10. \A i : BoundBefore(code, pc + 1, i) <=> BoundBefore(code, pc, i) \/ i = pc
  <2>1. pc \in 1..pc
    BY <1>4
  <2> QED
    BY <1>2, <1>4, <2>1 DEF BoundBefore
<1>11. \A i : BoundBefore(code, pc, i) => /\ code[i].op = "METHOD" /\ code[i].class \in 1..K /\ code[i].class \in 0..K
                                          /\ code[i].index \in Nat /\ code[i].isStatic \in BOOLEAN
                                          /\ code[i].class = c => code[i].isStatic # x.isStatic \/ code[i].index # x.index
  <2> SUFFICES ASSUME NEW i, BoundBefore(code, pc, i)
               PROVE  /\ code[i].op = "METHOD" /\ code[i].class \in 1..K /\ code[i].class \in 0..K
                      /\ code[i].index \in Nat /\ code[i].isStatic \in BOOLEAN
                      /\ code[i].class = c => code[i].isStatic # x.isStatic \/ code[i].index # x.index
    OBVIOUS
  <2>1. i \in 1..Len(code) /\ i <= pc /\ code[i].op = "METHOD" /\ InOrder(code[i], x)
    BY <1>4 DEF BoundBefore
  <2>2. code[i].class \in 1..K
    BY <1>3, <2>1, BoundAfterCreation
  <2>3. code[i].index \in Nat /\ code[i].isStatic \in BOOLEAN
    BY <2>1, CompiledFacts, ItemFacts
  <2>4. code[i].class = c => code[i].isStatic # x.isStatic \/ code[i].index # x.index
    BY <1>2, <2>1 DEF InOrder
  <2> QED
    BY <1>4, <2>1, <2>2, <2>3, <2>4
<1>12. \A i : BoundBefore(code, pc, i) /\ ~code[i].isStatic =>
         Entry(cs[code[i].class].methods, code[i].index) = Entry(classes[code[i].class].methods, code[i].index)
  <2> SUFFICES ASSUME NEW i, BoundBefore(code, pc, i), ~code[i].isStatic
               PROVE  Entry(cs[code[i].class].methods, code[i].index) = Entry(classes[code[i].class].methods, code[i].index)
    OBVIOUS
  <2>1. CASE code[i].class # c \/ x.isStatic
    BY <1>7, <1>11, <2>1
  <2>2. CASE code[i].class = c /\ ~x.isStatic
    <3>1. code[i].index \in Nat /\ code[i].index # x.index
      BY <1>2, <1>11, <2>2
    <3> QED
      BY <1>20, <1>21, <1>22, <2>2, <3>1
  <2> QED
    BY <1>2, <2>1, <2>2
<1>13. \A i : BoundBefore(code, pc, i) /\ code[i].isStatic =>
         Entry(cs[code[i].class].meta, code[i].index) = Entry(classes[code[i].class].meta, code[i].index)
  <2> SUFFICES ASSUME NEW i, BoundBefore(code, pc, i), code[i].isStatic
               PROVE  Entry(cs[code[i].class].meta, code[i].index) = Entry(classes[code[i].class].meta, code[i].index)
    OBVIOUS
  <2>1. CASE code[i].class # c \/ ~x.isStatic
    BY <1>7, <1>11, <2>1
  <2>2. CASE code[i].class = c /\ x.isStatic
    <3>1. code[i].index \in Nat /\ code[i].index # x.index
      BY <1>2, <1>11, <2>2
    <3> QED
      BY <1>20, <1>21, <1>22, <2>2, <3>1
  <2> QED
    BY <1>2, <2>1, <2>2
<1>14. ~x.isStatic => Entry(cs[c].methods, x.index) = m
  BY <1>20, <1>21, <1>22
<1>15. x.isStatic => Entry(cs[c].meta, x.index) = m
  BY <1>20, <1>21, <1>22
<1>16. OwnMethodsOK(cs, code, pc + 1)
  <2> SUFFICES ASSUME NEW i, BoundBefore(code, pc + 1, i), ~code[i].isStatic
               PROVE  LET e == Entry(cs[code[i].class].methods, code[i].index) IN e.type = "script" /\ e.fn.class = code[i].class
    BY DEF OwnMethodsOK
  <2>1. CASE i = pc
    BY <1>2, <1>9, <1>14, <2>1
  <2>2. CASE BoundBefore(code, pc, i)
    BY <1>12, <2>2 DEF FilledOK, OwnMethodsOK
  <2> QED
    BY <1>10, <2>1, <2>2
<1>17. OwnStaticsOK(cs, code, pc + 1)
  <2> SUFFICES ASSUME NEW i, BoundBefore(code, pc + 1, i), code[i].isStatic
               PROVE  LET e == Entry(cs[code[i].class].meta, code[i].index) IN e.type = "script" /\ e.fn.op = code[i].fn.op
    BY DEF OwnStaticsOK
  <2>1. CASE i = pc
    BY <1>2, <1>9, <1>15, <2>1
  <2>2. CASE BoundBefore(code, pc, i)
    BY <1>13, <2>2 DEF FilledOK, OwnStaticsOK
  <2> QED
    BY <1>10, <2>1, <2>2
<1>18. ASSUME NEW d \in DOMAIN cs \ {0}, NEW k \in Nat, NotBound(code, pc + 1, d, k)
       PROVE  Entry(cs[d].methods, k) = Entry(cs[said[d].superClass].methods, k)
  <2>1. PICK s : s = said[d].superClass
    OBVIOUS
  <2>2. d \in 1..K /\ s \in 0..(d - 1) /\ s \in 0..K /\ s # c
    <3>1. d \in 1..K
      BY <1>4, <1>7
    <3> QED
      BY <1>4, <1>5, <2>1, <3>1
  <2>3. NotBound(code, pc, d, k) /\ (~x.isStatic /\ d = c => k # x.index)
    BY <1>2, <1>10, <1>18 DEF NotBound
  <2>4. Entry(classes[d].methods, k) = Entry(classes[s].methods, k)
    BY <1>4, <1>7, <2>1, <2>3 DEF FilledOK, InheritedOK
  <2>5. Entry(cs[d].methods, k) = Entry(classes[d].methods, k)
    <3>1. CASE d # c \/ x.isStatic
      BY <1>7, <3>1
    <3>2. CASE d = c /\ ~x.isStatic
      BY <1>20, <1>21, <1>22, <2>3, <3>2
    <3> QED
      BY <1>2, <3>1, <3>2
  <2>6. cs[s] = classes[s]
    BY <1>7, <2>2
  <2> QED
    BY <2>1, <2>4, <2>5, <2>6
<1>19. InheritedOK(cs, code, pc + 1, said)
  BY <1>18 DEF InheritedOK
<1> QED
  BY <1>1, <1>16, <1>17, <1>19 DEF FilledOK

LEMMA FreshDispatch == ClassesInv' /\ phase' \in {"module", "class"} => DispatchOK'
<1>1. ClassesInv /\ phase \in {"module", "class"} => DispatchOK
  BY UntouchedDispatch DEF ClassesInv, Fresh
<1>2. (ClassesInv /\ phase \in {"module", "class"} => DispatchOK)'
  BY <1>1, PTL
<1> QED
  BY <1>2

LEMMA DispatchNext == FramesInv /\ DispatchOK /\ [Next]_vars => DispatchOK'
<1> SUFFICES ASSUME FramesInv, DispatchOK, [Next]_vars PROVE DispatchOK'
  OBVIOUS
<1>0. ClassesInv /\ Compiled /\ Fresh /\ RunOK /\ FrameOK
  BY DEF FramesInv, ClassesInv
<1>1. ASSUME \/ \E super \in 0..MaxClasses : OpenClass(super)
             \/ CloseClass \/ Field \/ \E initialized \in BOOLEAN : StaticField(initialized)
             \/ \E sign \in Sign, isStatic \in BOOLEAN : Method(sign, isStatic)
             \/ Constructor
      PROVE  DispatchOK'
  <2>1. phase' \in {"module", "class"}
    BY <1>1 DEF OpenClass, CloseClass, Field, StaticField, Method, Constructor, Writable
  <2> QED
    BY <1>0, <2>1, ClassesInvNext, FreshDispatch
<1>2. ASSUME \/ \E sign \in Sign \cup {New}, isStatic \in BOOLEAN : Refused(sign, isStatic)
             \/ EndModule \/ CreateClassFails \/ Return \/ UNCHANGED vars
      PROVE  DispatchOK'
  <2>1. UNCHANGED <<code, said, pc, classes>>
    BY <1>2 DEF Refused, EndModule, CreateClassFails, Return, Stop, vars, compiled, run
  <2> QED
    BY <2>1 DEF DispatchOK
<1>3. ASSUME CreateClass PROVE DispatchOK'
  <2>1. pc' = pc + 1 /\ UNCHANGED <<code, said>>
    BY <1>3 DEF CreateClass, compiled
  <2> QED
    BY <1>0, <1>3, <2>1, CreateClassDispatch DEF DispatchOK
<1>4. ASSUME DefineStatic PROVE DispatchOK'
  <2>1. /\ pc' = pc + 1 /\ UNCHANGED <<code, said, classes>> /\ phase = "running" /\ pc <= Len(code)
        /\ instr.op # "METHOD"
    BY <1>4 DEF DefineStatic, Running, compiled
  <2>2. \A i : BoundBefore(code, pc + 1, i) <=> BoundBefore(code, pc, i)
    BY <1>0, <2>1, BoundElse
  <2>3. FilledOK(classes, code, pc, said) => FilledOK(classes, code, pc + 1, said)
    BY <2>2 DEF FilledOK, OwnMethodsOK, OwnStaticsOK, InheritedOK, NotBound
  <2> QED
    BY <2>1, <2>3 DEF DispatchOK
<1>5. ASSUME BindMethod PROVE DispatchOK'
  <2>1. pc' = pc + 1 /\ UNCHANGED <<code, said>>
    BY <1>5 DEF BindMethod, compiled
  <2> QED
    BY <1>0, <1>5, <2>1, BindMethodDispatch DEF DispatchOK, FrameOK
<1> QED
  BY <1>1, <1>2, <1>3, <1>4, <1>5 DEF Next, Compile, Run

LEMMA DispatchAlways == Spec => [](FramesInv /\ DispatchOK)
<1>1. Init => DispatchOK
  <2>1. Init => Compiled /\ Untouched
    BY CompiledInit DEF Init, Untouched
  <2> QED
    BY <2>1, UntouchedDispatch
<1> QED
  BY <1>1, DispatchNext, FramesInvAlways, PTL DEF Spec

\* What an instruction finds in a table, unless it was never written, is the table's entry.
LEMMA LookupIs ==
  ASSUME NEW table, Len(table) \in Nat, NEW k \in Nat
  PROVE  /\ Lookup(table, k) # Unwritten => Lookup(table, k) = Entry(table, k)
         /\ Entry(table, k).type = "script" => k < Len(table) /\ Lookup(table, k) = table[k + 1] /\ Entry(table, k) = table[k + 1]
                                               /\ k + 1 \in 1..Len(table)
<1>1. CASE k > Len(table)
  <2>1. Lookup(table, k) = MT_NONE /\ Entry(table, k) = MT_NONE
    BY <1>1 DEF Lookup, Entry
  <2> QED
    BY <2>1, EntriesApart
<1>2. CASE k = Len(table)
  <2>1. Lookup(table, k) = Unwritten /\ Entry(table, k) = MT_NONE
    BY <1>2 DEF Lookup, Entry
  <2> QED
    BY <2>1, EntriesApart
<1>3. CASE k < Len(table)
  <2>1. Lookup(table, k) = table[k + 1] /\ Entry(table, k) = table[k + 1]
    BY <1>3 DEF Lookup, Entry
  <2> QED
    BY <1>3, <2>1
<1> QED
  BY <1>1, <1>2, <1>3

\* When a class has been executed, so have those before it.
LEMMA CompleteBefore ==
  ASSUME Compiled, RunOK, NEW K, HierarchyOK(classes, K, said), NEW c \in 0..K, Complete(c), NEW d \in 0..(c - 1)
  PROVE  d \in 0..K /\ Complete(d)
<1>1. /\ K \in Nat /\ DOMAIN classes = 0..K /\ d \in 0..K /\ d < c /\ c <= K
      /\ Len(code) \in Nat /\ pc \in 1..Len(code) + 1
  <2>1. K \in Nat /\ DOMAIN classes = 0..K /\ Len(code) \in Nat /\ pc \in 1..Len(code) + 1
    BY HierarchyFacts, CompiledFacts DEF Compiled, RunOK
  <2> QED
    BY <2>1
<1>2. ASSUME NEW i \in pc..Len(code), code[i].op = "METHOD" PROVE code[i].class # d
  <2>1. i \in 1..Len(code) /\ i >= pc
    BY <1>1
  <2>2. code[i].class >= K
    BY <1>2, <2>1, BoundAfterCreation
  <2> QED
    BY <1>1, <2>2
<1> QED
  BY <1>1, <1>2 DEF Complete

\* A method of a class that has been executed is in its table.
LEMMA BoundOfComplete ==
  ASSUME Compiled, RunOK, NEW c \in 1..Len(said), Complete(c)
  PROVE  /\ \A sign \in said[c].defined : \E i : BoundBefore(code, pc, i) /\ ~code[i].isStatic /\ code[i].class = c
                                                 /\ Named(allMethodNames, sign, code[i].index)
         /\ New \in said[c].defined => \E i : BoundBefore(code, pc, i) /\ code[i].isStatic /\ code[i].class = c
                                              /\ code[i].fn.op = "CONSTRUCT"
<1>1. Len(code) \in Nat /\ pc \in 1..Len(code) + 1
  BY CompiledFacts DEF RunOK
<1>2. \A i \in 1..Len(code) : code[i].op = "METHOD" /\ code[i].class = c => BoundBefore(code, pc, i)
  <2> SUFFICES ASSUME NEW i \in 1..Len(code), code[i].op = "METHOD", code[i].class = c PROVE BoundBefore(code, pc, i)
    OBVIOUS
  <2>1. i \notin pc..Len(code)
    BY DEF Complete
  <2>2. i \in 1..(pc - 1)
    BY <1>1, <2>1
  <2> QED
    BY <2>2 DEF BoundBefore
<1> QED
  BY <1>2 DEF Compiled, CodeHas

\* What the table of class d should hold at the index of a signature.
Definers(d, sign) == {a \in Ancestors(d) : sign \in said[a].defined}
Resolved(e, d, sign) ==
  IF Definers(d, sign) # {} THEN e.type = "script" /\ e.fn.class = Max(Definers(d, sign))
  ELSE e = IF sign \in Primitive THEN MT_PRIMITIVE ELSE MT_NONE

LEMMA EntriesResolve ==
  ASSUME Compiled, RunOK, FilledOK(classes, code, pc, said), NEW K, HierarchyOK(classes, K, said),
         NEW sign, NEW k, Named(allMethodNames, sign, k)
  PROVE  \A c \in 0..K : Complete(c) => Resolved(Entry(classes[c].methods, k), c, sign)
<1> DEFINE P(c) == Complete(c) => Resolved(Entry(classes[c].methods, k), c, sign)
           S == {n \in 0..K : \A c \in 0..n : P(c)}
<1>1. /\ K \in Nat /\ DOMAIN classes = 0..K /\ SaidOK(said) /\ k \in Nat /\ NamesOK(allMethodNames)
      /\ Len(said) \in Nat /\ K <= Len(said) /\ classes[0] = Object /\ 0 \in 0..K
  <2>1. SaidOK(said) /\ NamesOK(allMethodNames) /\ k \in Nat
    BY DEF Compiled, Named
  <2>2. K \in 0..Len(said)
    BY DEF HierarchyOK
  <2> QED
    BY <2>1, <2>2, HierarchyFacts, CompiledFacts
<1>2. Rooted(K)
  BY <1>1, HierarchyFacts DEF Rooted
<1>3. P(0)
  <2>1. Ancestors(0) = {}
    BY <1>1, <1>2, AncestorsAre
  <2>2. Definers(0, sign) = {}
    BY <2>1 DEF Definers
  <2>3. Entry(PrimitiveTable, k) = IF sign \in Primitive THEN MT_PRIMITIVE ELSE MT_NONE
    <3>1. PICK n : n = Cardinality(Primitive)
      OBVIOUS
    <3>2. /\ n \in Nat /\ Len(PrimitiveTable) = n /\ \A i \in 1..n : PrimitiveTable[i] = MT_PRIMITIVE
      BY <3>1, PrimitivesAre
    <3>3. sign \in Primitive <=> k + 1 <= n
      BY <1>1, <3>1 DEF Named, NamesOK
    <3>4. k + 1 <= n <=> k < n
      BY <1>1, <3>2
    <3>5. CASE k < n
      <4>1. k + 1 \in 1..n
        BY <1>1, <3>2, <3>5
      <4> QED
        BY <3>2, <3>3, <3>4, <3>5, <4>1 DEF Entry
    <3>6. CASE ~(k < n)
      BY <3>2, <3>3, <3>4, <3>6 DEF Entry
    <3> QED
      BY <3>5, <3>6
  <2> QED
    BY <1>1, <2>2, <2>3, PrimitivesAre DEF Resolved
<1>4. ASSUME NEW c \in 1..K, \A d \in 0..(c - 1) : P(d) PROVE P(c)
  <2> SUFFICES ASSUME Complete(c) PROVE Resolved(Entry(classes[c].methods, k), c, sign)
    OBVIOUS
  <2>1. PICK s : s = said[c].superClass
    OBVIOUS
  <2>2. c \in 0..K /\ c # 0 /\ c \in 1..Len(said) /\ s \in 0..(c - 1) /\ s \in 0..K /\ c \in Nat /\ s \in Nat /\ s < c
    BY <1>1, <2>1, HierarchyFacts
  <2>3. Ancestors(c) = {c} \cup Ancestors(s) /\ Ancestors(s) \subseteq 1..s
    BY <1>1, <1>2, <2>1, <2>2, AncestorsAre
  <2>4. CASE sign \in said[c].defined
    <3>1. c \in Definers(c, sign) /\ \A d \in Definers(c, sign) : d \in Nat /\ c >= d
      BY <2>2, <2>3, <2>4 DEF Definers
    <3>2. Max(Definers(c, sign)) = c
      <4>1. \A d \in Definers(c, sign) : (\A e \in Definers(c, sign) : d >= e) => d = c
        BY <2>2, <3>1
      <4> QED
        BY <3>1, <4>1 DEF Max
    <3>3. PICK i : /\ BoundBefore(code, pc, i) /\ ~code[i].isStatic /\ code[i].class = c
                   /\ Named(allMethodNames, sign, code[i].index)
      BY <2>2, <2>4, BoundOfComplete
    <3>4. code[i].index = k
      BY <1>1, <3>3, NamedOnce
    <3>5. Entry(classes[c].methods, k).type = "script" /\ Entry(classes[c].methods, k).fn.class = c
      BY <3>3, <3>4 DEF FilledOK, OwnMethodsOK
    <3> QED
      BY <3>1, <3>2, <3>5 DEF Resolved
  <2>5. CASE sign \notin said[c].defined
    <3>1. Definers(c, sign) = Definers(s, sign)
      BY <2>3, <2>5 DEF Definers
    <3>2. NotBound(code, pc, c, k)
      <4> SUFFICES ASSUME NEW i, BoundBefore(code, pc, i), ~code[i].isStatic, code[i].class = c, code[i].index = k
                   PROVE  FALSE
        BY DEF NotBound
      <4>1. i \in 1..Len(code) /\ code[i].op = "METHOD"
        BY CompiledFacts DEF BoundBefore, RunOK
      <4>2. MethodOK(code[i], allMethodNames, said)
        BY <4>1, CompiledFacts
      <4>3. PICK t \in said[c].defined : Named(allMethodNames, t, k)
        BY <4>2 DEF MethodOK
      <4>4. t = sign
        BY <1>1, <4>3, NamedOnce
      <4> QED
        BY <2>5, <4>3, <4>4
    <3>3. Entry(classes[c].methods, k) = Entry(classes[s].methods, k)
      BY <1>1, <2>1, <2>2, <3>2 DEF FilledOK, InheritedOK
    <3>4. Complete(s)
      BY <2>2, CompleteBefore
    <3>5. Resolved(Entry(classes[s].methods, k), s, sign)
      BY <1>4, <2>2, <3>4
    <3> QED
      BY <3>1, <3>3, <3>5 DEF Resolved
  <2> QED
    BY <2>4, <2>5
<1> HIDE DEF P
<1>5. 0 \in S
  <2>1. \A c \in 0..0 : c = 0
    OBVIOUS
  <2> QED
    BY <1>1, <1>3, <2>1
<1>6. ASSUME NEW n \in 0..(K - 1), n \in S PROVE n + 1 \in S
  <2>1. n + 1 \in 1..K /\ n + 1 \in 0..K /\ (n + 1) - 1 = n /\ \A c \in 0..(n + 1) : c \in 0..n \/ c = n + 1
    BY <1>1
  <2>2. \A c \in 0..n : P(c)
    BY <1>6
  <2>3. P(n + 1)
    BY <1>4, <2>1, <2>2
  <2> QED
    BY <2>1, <2>2, <2>3
<1>7. 0..K \subseteq S
  <2> HIDE DEF S
  <2> QED
    BY <1>1, <1>5, <1>6, InductionUpTo
<1>8. \A c \in 0..K : P(c)
  <2>1. \A c \in 0..K : c \in 0..c
    BY <1>1
  <2> QED
    BY <1>7, <2>1
<1> QED
  BY <1>8 DEF P

LEMMA DispatchFollows ==
  ASSUME Compiled, RunOK, FilledOK(classes, code, pc, said)
  PROVE  DispatchFollowsHierarchy
<1>1. PICK K : HierarchyOK(classes, K, said)
  BY DEF RunOK
<1>2. DOMAIN classes = 0..K /\ NamesOK(allMethodNames) /\ SaidOK(said)
  BY <1>1, HierarchyFacts DEF Compiled
<1>3. ASSUME NEW c \in DOMAIN classes, NEW sign \in Range(allMethodNames), Complete(c),
             Lookup(classes[c].methods, IndexOf(allMethodNames, sign)) # Unwritten
      PROVE  Resolved(Lookup(classes[c].methods, IndexOf(allMethodNames, sign)), c, sign)
  <2>1. PICK k : k = IndexOf(allMethodNames, sign)
    OBVIOUS
  <2>2. Named(allMethodNames, sign, k) /\ k \in Nat
    BY <1>2, <2>1, NamedOnce DEF Named
  <2>3. Len(classes[c].methods) \in Nat
    BY <1>1, <1>2, HierarchyFacts
  <2>4. Lookup(classes[c].methods, k) = Entry(classes[c].methods, k)
    BY <1>3, <2>1, <2>2, <2>3, LookupIs
  <2> QED
    BY <1>1, <1>2, <1>3, <2>1, <2>2, <2>4, EntriesResolve
<1> QED
  BY <1>3 DEF DispatchFollowsHierarchy, Resolved, Definers

LEMMA CreatorsCall ==
  ASSUME Compiled, RunOK, FilledOK(classes, code, pc, said)
  PROVE  CreatorsCallTheirConstructor
<1>1. PICK K : HierarchyOK(classes, K, said)
  BY DEF RunOK
<1>2. /\ DOMAIN classes = 0..K /\ K \in Nat /\ NamesOK(allMethodNames) /\ SaidOK(said)
      /\ TablesOK(classes, said, allMethodNames) /\ Len(said) \in Nat
  BY <1>1, HierarchyFacts, CompiledFacts DEF Compiled, RunOK
<1>3. ASSUME NEW c \in DOMAIN classes \ {0}, Complete(c)
      PROVE  /\ \A m \in StaticMethods(c) : m.fn.class = c
             /\ \A m \in StaticMethods(c) : m.fn.op = "CONSTRUCT" =>
                  LET constructor == Lookup(classes[c].methods, m.fn.operand)
                  IN  constructor.type = "script" /\ constructor.fn.class = c /\ constructor.fn.op # "CONSTRUCT"
             /\ (\E m \in StaticMethods(c) : m.fn.op = "CONSTRUCT") <=> New \in said[c].defined
  <2>1. c \in 1..K /\ c \in 0..K /\ c \in 1..Len(said)
    <3>1. c \in 1..K
      BY <1>2
    <3> QED
      BY <1>1, <1>2, <3>1, HierarchyFacts
  <2>2. /\ Len(classes[c].methods) \in Nat /\ Len(classes[c].meta) \in Nat /\ DOMAIN classes[c].meta = 1..Len(classes[c].meta)
        /\ TableOf(classes, c, said, allMethodNames)
    BY <1>1, <1>2, <2>1, HierarchyFacts DEF TablesOK
  <2>3. \A m \in StaticMethods(c) : MetaFn(c, m.fn, said, allMethodNames)
    BY <2>2 DEF TableOf, StaticMethods, Range
  <2>4. ASSUME NEW m \in StaticMethods(c), m.fn.op = "CONSTRUCT"
        PROVE  LET constructor == Lookup(classes[c].methods, m.fn.operand)
               IN  constructor.type = "script" /\ constructor.fn.class = c /\ constructor.fn.op # "CONSTRUCT"
    <3>1. PICK k, t : k = m.fn.operand /\ t = classes[c].methods
      OBVIOUS
    <3>2. New \in said[c].defined /\ Named(allMethodNames, New, k) /\ k \in Nat
      BY <2>3, <2>4, <3>1 DEF MetaFn, Named
    <3>3. PICK i : /\ BoundBefore(code, pc, i) /\ ~code[i].isStatic /\ code[i].class = c
                   /\ Named(allMethodNames, New, code[i].index)
      BY <1>3, <2>1, <3>2, BoundOfComplete
    <3>4. code[i].index = k
      BY <1>2, <3>2, <3>3, NamedOnce
    <3>5. Entry(t, k).type = "script" /\ Entry(t, k).fn.class = c
      BY <3>1, <3>3, <3>4 DEF FilledOK, OwnMethodsOK
    <3>6. Lookup(t, k) = t[k + 1] /\ Entry(t, k) = t[k + 1] /\ k + 1 \in 1..Len(t)
      BY <2>2, <3>1, <3>2, <3>5, LookupIs
    <3>7. InstanceFn(classes, c, t[k + 1].fn, said, allMethodNames)
      BY <2>2, <3>1, <3>5, <3>6 DEF TableOf
    <3>8. Lookup(t, k).fn.op # "CONSTRUCT"
      BY <3>6, <3>7 DEF InstanceFn
    <3>9. PICK l : l = Lookup(t, k)
      OBVIOUS
    <3>10. l.type = "script" /\ l.fn.class = c /\ l.fn.op # "CONSTRUCT"
      BY <3>5, <3>6, <3>8, <3>9
    <3> QED
      BY <3>1, <3>9, <3>10
  <2>5. ASSUME New \in said[c].defined PROVE \E m \in StaticMethods(c) : m.fn.op = "CONSTRUCT"
    <3>1. PICK i : BoundBefore(code, pc, i) /\ code[i].isStatic /\ code[i].class = c /\ code[i].fn.op = "CONSTRUCT"
      BY <1>3, <2>1, <2>5, BoundOfComplete
    <3>2. PICK k, t : k = code[i].index /\ t = classes[c].meta
      OBVIOUS
    <3>3. Entry(t, k).type = "script" /\ Entry(t, k).fn.op = "CONSTRUCT"
      BY <3>1, <3>2 DEF FilledOK, OwnStaticsOK
    <3>4. k \in Nat
      <4>1. i \in 1..Len(code) /\ code[i].op = "METHOD"
        BY <3>1, CompiledFacts DEF BoundBefore, RunOK
      <4> QED
        BY <3>2, <4>1, CompiledFacts, ItemFacts
    <3>5. Entry(t, k) = t[k + 1] /\ k + 1 \in 1..Len(t)
      BY <2>2, <3>2, <3>3, <3>4, LookupIs
    <3> QED
      BY <2>2, <3>2, <3>3, <3>5 DEF StaticMethods, Range
  <2>6. (\E m \in StaticMethods(c) : m.fn.op = "CONSTRUCT") => New \in said[c].defined
    BY <2>3 DEF MetaFn
  <2>7. \A m \in StaticMethods(c) : m.fn.class = c
    BY <2>3 DEF MetaFn
  <2> QED
    BY <2>4, <2>5, <2>6, <2>7
<1> QED
  BY <1>3 DEF CreatorsCallTheirConstructor

\* Whatever the program does, a super call reaches the base class.
LEMMA SuperReaches ==
  ASSUME Compiled, RunOK
  PROVE  SuperReachesBase
<1>1. PICK K : HierarchyOK(classes, K, said)
  BY DEF RunOK
<1>2. DOMAIN classes = 0..K /\ SaidOK(said) /\ TablesOK(classes, said, allMethodNames)
  BY <1>1, HierarchyFacts DEF Compiled, RunOK
<1>3. ASSUME NEW c \in DOMAIN classes
      PROVE  /\ \A m \in Methods(c) : m.fn.op = "SUPER" => m.fn.base = said[m.fn.class].superClass
             /\ \A m \in StaticMethods(c) : m.fn.op = "SUPER" => m.fn.base = classOfClass
  <2>1. /\ DOMAIN classes[c].methods = 1..Len(classes[c].methods) /\ DOMAIN classes[c].meta = 1..Len(classes[c].meta)
        /\ TableOf(classes, c, said, allMethodNames)
    BY <1>1, <1>2, HierarchyFacts DEF TablesOK
  <2>2. \A m \in Methods(c) : InstanceFn(classes, c, m.fn, said, allMethodNames)
    BY <2>1 DEF TableOf, Methods, Range
  <2>3. \A m \in StaticMethods(c) : MetaFn(c, m.fn, said, allMethodNames)
    BY <2>1 DEF TableOf, StaticMethods, Range
  <2> QED
    BY <2>2, <2>3 DEF InstanceFn, MetaFn
<1> QED
  BY <1>3 DEF SuperReachesBase

\* Calls go where the hierarchy says, although each class only has a copy of the table its base
\* class had when it was created, if no class follows one with static fields.
THEOREM CallsReachTheirMethod == ~EarlyStatics => (Spec => []CallsFollowHierarchy)
<1> SUFFICES ASSUME ~EarlyStatics PROVE Spec => []CallsFollowHierarchy
  OBVIOUS
<1>1. FramesInv /\ DispatchOK => CallsFollowHierarchy
  BY DispatchFollows, CreatorsCall, SuperReaches DEF FramesInv, ClassesInv, DispatchOK, CallsFollowHierarchy
<1> QED
  BY <1>1, DispatchAlways, PTL

=============================================================================
