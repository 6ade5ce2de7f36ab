---------------------------- MODULE MemoryProof ----------------------------
(***************************************************************************)
(* Three components that keep the objects of a program: the collector, the *)
(* buffers of lists, and the tables of modules.  Each theorem is about the *)
(* specification of one of them.                                           *)
(***************************************************************************)
EXTENDS Gc, ObjList, Modules, Induction, SequenceTheorems, FiniteSetTheorems, TLAPS

-----------------------------------------------------------------------------
(***************************************************************************)
(* The collector.  For every set of objects: it releases what is out of    *)
(* reach, all of it, and nothing else.                                     *)
(*                                                                         *)
(* The argument is the tri-colour invariant.  While marking, the children  *)
(* of an object that is dark and no longer gray are dark; when no gray is  *)
(* left, the dark objects are closed under Children.  While sweeping, the  *)
(* set Kept of the objects that survive does not change.                   *)
(***************************************************************************)
\* S contains the roots and what its members refer to.
Closed(S) == Roots \subseteq S /\ \A x \in S : Children(x) \subseteq S

\* What is left of the heap when the sweep is over.
Kept == (heap \ unswept) \union (unswept \intersect dark)

RunInv == dark = {} /\ grays = {} /\ unswept = {} /\ Closed(heap)

MarkInv ==
  /\ unswept = {} /\ Closed(heap)
  /\ Roots \subseteq dark /\ grays \subseteq dark /\ dark \subseteq heap
  /\ \A x \in dark \ grays : Children(x) \subseteq dark
  /\ dark \subseteq Reachable

SweepInv ==
  /\ grays = {} /\ dark \subseteq unswept /\ unswept \subseteq heap
  /\ Closed(Kept) /\ Kept \subseteq Reachable

GcInv ==
  /\ GcTypeOK
  /\ phase = "run" => RunInv
  /\ phase = "mark" => MarkInv
  /\ phase = "sweep" => SweepInv

LEMMA ChildrenType == GcTypeOK => Roots \subseteq Obj /\ \A x \in Obj : Children(x) \subseteq Obj
  <1> SUFFICES ASSUME GcTypeOK PROVE Roots \subseteq Obj /\ \A x \in Obj : Children(x) \subseteq Obj
    OBVIOUS
  <1>1. Roots \subseteq Obj
    BY GcAssumption DEF GcTypeOK, Roots, Obj
  <1>2. ASSUME NEW x \in Obj PROVE Children(x) \subseteq Obj
    BY DEF GcTypeOK, Children, ThreadLinks, Obj
  <1> QED BY <1>1, <1>2

\* The reachable objects are the least closed set.
LEMMA ReachableLeast == ASSUME NEW S, S \subseteq Obj, Closed(S) PROVE Reachable \subseteq S
  BY DEF Closed, Reachable

LEMMA ReachableClosed == GcTypeOK => Reachable \subseteq Obj /\ Closed(Reachable)
  <1> SUFFICES ASSUME GcTypeOK PROVE Reachable \subseteq Obj /\ Closed(Reachable)
    OBVIOUS
  <1>1. Reachable \subseteq Obj
    BY DEF Reachable
  <1>2. Roots \subseteq Reachable
    BY ChildrenType DEF Reachable
  <1>3. ASSUME NEW x \in Reachable, NEW y \in Children(x) PROVE y \in Reachable
    <2>1. y \in Obj
      BY <1>1, ChildrenType
    <2>2. ASSUME NEW S \in SUBSET Obj, Roots \subseteq S, \A z \in S : Children(z) \subseteq S
          PROVE y \in S
      <3>1. x \in S
        BY <2>2 DEF Reachable
      <3> QED BY <3>1, <2>2
    <2> QED BY <2>1, <2>2 DEF Reachable
  <1> QED BY <1>1, <1>2, <1>3 DEF Closed

\* Reachability depends on the mutators' part of the state only.
LEMMA GraphUnchanged ==
  ASSUME UNCHANGED <<fields, caller, open, curThread, tmpRoots>>
  PROVE  /\ Roots' = Roots /\ Reachable' = Reachable
         /\ \A x : Children(x)' = Children(x)
  <1>1. Roots' = Roots
    BY DEF Roots
  <1>2. \A x : Children(x)' = Children(x)
    BY DEF Children, ThreadLinks
  <1> QED BY <1>1, <1>2 DEF Reachable

LEMMA GcInvInit == GcInit => GcInv
  <1> SUFFICES ASSUME GcInit PROVE GcInv
    OBVIOUS
  <1> USE DEF GcInit
  <1>1. GcTypeOK
    BY GcAssumption DEF GcTypeOK, Obj
  <1>2. Closed(heap)
    BY GcAssumption DEF Closed, Roots, Children, ThreadLinks, Obj
  <1> QED BY <1>1, <1>2 DEF GcInv, RunInv

LEMMA TypeNext == GcTypeOK /\ [GcNext]_gcVars => GcTypeOK'
  <1> SUFFICES ASSUME GcTypeOK, [GcNext]_gcVars PROVE GcTypeOK'
    OBVIOUS
  <1> USE GcAssumption DEF GcTypeOK, mutatorVars, collectorVars
  <1>0. Roots \subseteq Obj /\ \A x \in Obj : Children(x) \subseteq Obj
    BY ChildrenType
  <1>1. CASE Collect
    <2>1. CASE StartMark
      BY <1>0, <2>1 DEF StartMark
    <2>2. ASSUME NEW o \in Obj, Blacken(o) PROVE GcTypeOK'
      BY <1>0, <2>2 DEF Blacken
    <2>3. ASSUME NEW o \in Obj, Sweep(o) PROVE GcTypeOK'
      BY <2>3 DEF Sweep
    <2>4. CASE StartSweep
      BY <2>4 DEF StartSweep
    <2>5. CASE EndSweep
      BY <2>5 DEF EndSweep
    <2> QED BY <1>1, <2>1, <2>2, <2>3, <2>4, <2>5 DEF Collect
  <1>2. CASE Mutate
    <2> USE <1>2 DEF Mutate
    <2>1. ASSUME NEW o \in Obj, Allocate(o) PROVE GcTypeOK'
      BY <2>1 DEF Allocate, Obj
    <2>2. ASSUME NEW o \in Obj, AllocatePinned(o) PROVE GcTypeOK'
      BY <2>2 DEF AllocatePinned, Obj
    <2>2a. ASSUME NEW o \in Obj, Pin(o) PROVE GcTypeOK'
      BY <2>2a DEF Pin, Obj
    <2>3. ASSUME NEW p \in Obj, LinkPinned(p) PROVE GcTypeOK'
      <3>1. tmpRoots[Len(tmpRoots)] \in Obj /\ tmpRoots' \in Seq(Obj) /\ Len(tmpRoots') <= MaxTmpRoots
        BY <2>3 DEF LinkPinned
      <3>2. fields' \in [Obj -> SUBSET Obj]
        BY <3>1, <2>3 DEF LinkPinned
      <3> QED BY <3>1, <3>2, <2>3 DEF LinkPinned
    <2>4. ASSUME NEW p \in Obj, NEW o \in Obj, Load(p, o) \/ Store(p, o) \/ Erase(p, o) PROVE GcTypeOK'
      BY <2>4 DEF Load, Store, Erase, Push, Obj
    <2>5. ASSUME NEW c \in Plain, NEW u \in Upvalue, Capture(c, u) PROVE GcTypeOK'
      BY <2>5 DEF Capture, Obj
    <2>6. ASSUME NEW c \in Plain, NEW u \in Upvalue, NEW o \in Obj,
                 LoadUpvalue(c, u, o) \/ StoreUpvalue(c, u, o) PROVE GcTypeOK'
      BY <2>6 DEF LoadUpvalue, StoreUpvalue, Push, Obj
    <2>7. ASSUME NEW u \in Upvalue, NEW value \in SUBSET Obj, Close(u, value) PROVE GcTypeOK'
      BY <2>7 DEF Close, Obj
    <2>8. ASSUME NEW t \in Thread, SwitchTo(t) PROVE GcTypeOK'
      BY <2>8 DEF SwitchTo, Obj
    <2>9. CASE SwitchBack
      BY <2>9 DEF SwitchBack, Obj
    <2> QED BY <1>2, <2>2a, <2>1, <2>2, <2>3, <2>4, <2>5, <2>6, <2>7, <2>8, <2>9 DEF Mutate
  <1>3. CASE UNCHANGED gcVars
    BY <1>3 DEF gcVars
  <1> QED BY <1>1, <1>2, <1>3 DEF GcNext

\* A step of the running thread keeps the heap closed: what it reads it finds in
\* the heap, and what it stores it has found there.
LEMMA MutateKeepsHeapClosed ==
  ASSUME GcTypeOK, GcTypeOK', Mutate, Closed(heap)
  PROVE  Closed(heap)'
  <1> USE GcAssumption DEF GcTypeOK, Closed, Roots, Children, ThreadLinks, Obj
  <1>0. \A i \in 1..Len(tmpRoots) : tmpRoots[i] \in heap
    OBVIOUS
  <1>1. ASSUME NEW o \in Obj, Allocate(o) PROVE Closed(heap)'
    BY <1>1 DEF Allocate
  <1>2. ASSUME NEW o \in Obj, AllocatePinned(o) PROVE Closed(heap)'
    <2>1. Roots' \subseteq heap'
      BY <1>0, <1>2 DEF AllocatePinned
    <2>2. \A x \in heap' : Children(x)' \subseteq heap'
      BY <1>2 DEF AllocatePinned
    <2> QED BY <2>1, <2>2
  <1>2a. ASSUME NEW o \in Obj, Pin(o) PROVE Closed(heap)'
    BY <1>0, <1>2a, SMTT(30) DEF Pin
  <1>3. ASSUME NEW p \in Obj, LinkPinned(p) PROVE Closed(heap)'
    <2>1. tmpRoots[Len(tmpRoots)] \in heap
      BY <1>0, <1>3 DEF LinkPinned
    <2>2. Roots' \subseteq heap'
      BY <1>0, <1>3 DEF LinkPinned
    <2>3. \A x \in heap' : Children(x)' \subseteq heap'
      BY <2>1, <1>3 DEF LinkPinned
    <2> QED BY <2>2, <2>3
  <1>4. ASSUME NEW p \in Obj, NEW o \in Obj, Load(p, o) \/ Store(p, o) \/ Erase(p, o)
        PROVE Closed(heap)'
    BY <1>4 DEF Load, Store, Erase, Held, Push
  <1>5. ASSUME NEW c \in Plain, NEW u \in Upvalue, Capture(c, u) PROVE Closed(heap)'
    BY <1>5 DEF Capture
  <1>6. ASSUME NEW c \in Plain, NEW u \in Upvalue, NEW o \in Obj,
               LoadUpvalue(c, u, o) \/ StoreUpvalue(c, u, o) PROVE Closed(heap)'
    BY <1>6 DEF LoadUpvalue, StoreUpvalue, ValuesOf, Push
  <1>7. ASSUME NEW u \in Upvalue, NEW value \in SUBSET Obj, Close(u, value) PROVE Closed(heap)'
    BY <1>7 DEF Close
  <1>8. ASSUME NEW t \in Thread, SwitchTo(t) PROVE Closed(heap)'
    BY <1>8 DEF SwitchTo
  <1>9. CASE SwitchBack
    BY <1>9 DEF SwitchBack
  <1> QED BY <1>1, <1>2, <1>3, <1>4, <1>5, <1>6, <1>7, <1>8, <1>9, <1>2a DEF Mutate

\* The tri-colour argument: one case per step of the collector.
LEMMA CollectInv ==
  ASSUME GcInv, GcTypeOK', Collect
  PROVE  GcInv'
  <1> USE DEF GcInv
  <1>0. Reachable \subseteq Obj /\ Closed(Reachable)
    BY ReachableClosed
  <1>1. CASE StartMark
    <2>1. phase' = "mark" /\ UNCHANGED mutatorVars /\ dark' = Roots /\ grays' = Roots
          /\ unswept' = {} /\ Closed(heap)
      BY <1>1 DEF StartMark, RunInv
    <2>2. Roots' = Roots /\ Reachable' = Reachable /\ \A x : Children(x)' = Children(x)
      BY <2>1, GraphUnchanged DEF mutatorVars
    <2>3. Closed(heap)'
      BY <2>1, <2>2 DEF Closed, mutatorVars
    <2>4. MarkInv'
      BY <1>0, <2>1, <2>2, <2>3 DEF MarkInv, Closed, mutatorVars
    <2> QED BY <2>1, <2>4
  <1>2. ASSUME NEW o \in Obj, Blacken(o) PROVE GcInv'
    <2>1. /\ phase = "mark" /\ phase' = "mark" /\ UNCHANGED <<mutatorVars, unswept>> /\ o \in grays
          /\ grays' = (grays \ {o}) \union (Children(o) \ dark)
          /\ dark' = dark \union Children(o) /\ MarkInv
      BY <1>2 DEF Blacken
    <2>2. Roots' = Roots /\ Reachable' = Reachable /\ \A x : Children(x)' = Children(x)
      BY <2>1, GraphUnchanged DEF mutatorVars
    <2>3. Closed(heap)' /\ unswept' = {} /\ heap' = heap
      BY <2>1, <2>2 DEF Closed, MarkInv, mutatorVars
    <2>4. o \in heap /\ o \in Reachable /\ o \in dark
      BY <2>1 DEF MarkInv
    <2>5. Children(o) \subseteq heap /\ Children(o) \subseteq Reachable
      BY <1>0, <2>1, <2>4 DEF MarkInv, Closed
    <2>6. Roots' \subseteq dark' /\ grays' \subseteq dark' /\ dark' \subseteq heap' /\ dark' \subseteq Reachable'
      BY <2>1, <2>2, <2>3, <2>5 DEF MarkInv
    <2>7. ASSUME NEW x \in dark' \ grays' PROVE Children(x)' \subseteq dark'
      <3>1. CASE x = o
        BY <2>1, <2>2, <3>1
      <3>2. CASE x # o
        <4>1. x \in dark \ grays
          BY <2>1, <2>7, <3>2
        <4> QED BY <2>1, <2>2, <4>1 DEF MarkInv
      <3> QED BY <3>1, <3>2
    <2>8. MarkInv'
      BY <2>3, <2>6, <2>7 DEF MarkInv
    <2> QED BY <2>1, <2>8
  <1>3. CASE StartSweep
    <2>1. /\ phase' = "sweep" /\ UNCHANGED <<mutatorVars, dark, grays>> /\ unswept' = heap
          /\ grays = {} /\ MarkInv
      BY <1>3 DEF StartSweep
    <2>2. Roots' = Roots /\ Reachable' = Reachable /\ \A x : Children(x)' = Children(x)
      BY <2>1, GraphUnchanged DEF mutatorVars
    <2>3. Kept' = dark
      BY <2>1 DEF Kept, MarkInv, mutatorVars
    <2>4. Closed(Kept)' /\ Kept' \subseteq Reachable'
      BY <2>1, <2>2, <2>3 DEF Closed, MarkInv
    <2>5. SweepInv'
      BY <2>1, <2>4 DEF SweepInv, MarkInv, mutatorVars
    <2> QED BY <2>1, <2>5
  <1>4. ASSUME NEW o \in Obj, Sweep(o) PROVE GcInv'
    <2>1. /\ phase = "sweep" /\ phase' = "sweep" /\ SweepInv
          /\ UNCHANGED <<fields, caller, open, curThread, tmpRoots, grays>>
      BY <1>4 DEF Sweep
    <2>2. Roots' = Roots /\ Reachable' = Reachable /\ \A x : Children(x)' = Children(x)
      BY <2>1, GraphUnchanged
    <2>3. Kept' = Kept /\ dark' \subseteq unswept' /\ unswept' \subseteq heap'
      BY <1>4, <2>1 DEF Sweep, Kept, SweepInv
    <2>4. Closed(Kept)' /\ Kept' \subseteq Reachable'
      BY <2>1, <2>2, <2>3 DEF Closed, SweepInv
    <2>5. SweepInv'
      BY <2>1, <2>3, <2>4 DEF SweepInv
    <2> QED BY <2>1, <2>5
  <1>5. CASE EndSweep
    <2>1. /\ phase' = "run" /\ UNCHANGED <<mutatorVars, dark, grays, unswept>> /\ unswept = {}
          /\ SweepInv
      BY <1>5 DEF EndSweep
    <2>2. Roots' = Roots /\ Reachable' = Reachable /\ \A x : Children(x)' = Children(x)
      BY <2>1, GraphUnchanged DEF mutatorVars
    <2>3. Kept = heap /\ heap' = heap
      BY <2>1 DEF Kept, mutatorVars
    <2>4. Closed(heap)'
      BY <2>1, <2>2, <2>3 DEF Closed, SweepInv
    <2>5. RunInv'
      BY <2>1, <2>4 DEF RunInv, SweepInv
    <2> QED BY <2>1, <2>5
  <1> QED BY <1>1, <1>2, <1>3, <1>4, <1>5 DEF Collect

LEMMA GcInvNext == GcInv /\ [GcNext]_gcVars => GcInv'
  <1> SUFFICES ASSUME GcInv, [GcNext]_gcVars PROVE GcInv'
    OBVIOUS
  <1>0. GcTypeOK /\ GcTypeOK'
    BY TypeNext DEF GcInv
  <1>1. CASE Collect
    BY <1>0, <1>1, CollectInv
  <1>2. CASE Mutate
    <2>1. phase = "run" /\ UNCHANGED collectorVars /\ RunInv
      BY <1>2 DEF Mutate, GcInv
    <2>2. Closed(heap)'
      BY <1>0, <1>2, <2>1, MutateKeepsHeapClosed DEF RunInv
    <2> QED BY <1>0, <2>1, <2>2 DEF GcInv, RunInv, collectorVars
  <1>3. CASE UNCHANGED gcVars
    <2>1. UNCHANGED <<fields, caller, open, curThread, tmpRoots, heap, collectorVars>>
      BY <1>3 DEF gcVars, mutatorVars
    <2>2. Roots' = Roots /\ Reachable' = Reachable /\ \A x : Children(x)' = Children(x)
      BY <2>1, GraphUnchanged
    <2>3. Kept' = Kept
      BY <2>1 DEF Kept, collectorVars
    <2> QED BY <1>0, <2>1, <2>2, <2>3
            DEF GcInv, RunInv, MarkInv, SweepInv, Closed, collectorVars
  <1> QED BY <1>1, <1>2, <1>3 DEF GcNext

\* When the sweep has visited everything, what is left is what is in reach.
LEMMA SweptExactly == GcInv => ExactCollection
  <1> SUFFICES ASSUME GcInv, phase = "sweep", unswept = {} PROVE heap = Reachable /\ dark = {}
    BY DEF ExactCollection
  <1>1. SweepInv /\ Kept = heap /\ heap \subseteq Obj
    BY DEF GcInv, Kept, GcTypeOK
  <1>2. Reachable \subseteq heap
    BY <1>1, ReachableLeast DEF SweepInv
  <1> QED BY <1>1, <1>2 DEF SweepInv

\* Only a sweep step releases objects, and only objects that are not kept.
LEMMA ReleasesGarbage == GcInv /\ [GcNext]_gcVars => \A o \in heap \ heap' : o \notin Reachable
  <1> SUFFICES ASSUME GcInv, [GcNext]_gcVars, NEW o \in heap \ heap' PROVE o \notin Reachable
    OBVIOUS
  <1>1. PICK s \in Obj : Sweep(s)
    BY DEF GcNext, Collect, StartMark, Blacken, StartSweep, EndSweep, Mutate, Allocate, AllocatePinned,
       Pin, LinkPinned, Load, Store, Erase, Capture, Close, LoadUpvalue, StoreUpvalue, SwitchTo,
       SwitchBack, Push, gcVars, mutatorVars
  <1>2. SweepInv /\ Kept \subseteq Obj
    BY <1>1 DEF GcInv, Sweep, Kept, GcTypeOK
  <1>3. o \notin Kept
    BY <1>1, <1>2 DEF Sweep, Kept, SweepInv
  <1> QED BY <1>2, <1>3, ReachableLeast DEF SweepInv

LEMMA GcInvAlways == GcSpec => []GcInv
  BY GcInvInit, GcInvNext, PTL DEF GcSpec

\* The state stays well formed: in particular vm->tmpRoots is never overrun.
THEOREM GcTypeCorrect == GcSpec => []GcTypeOK
  <1>1. GcInv => GcTypeOK
    BY DEF GcInv
  <1> QED BY <1>1, GcInvAlways, PTL

\* Outside of a collection no object refers to a released one.
THEOREM HeapIsClosed == GcSpec => []NoDangling
  <1>1. GcInv => NoDangling
    BY DEF GcInv, RunInv, Closed, NoDangling
  <1> QED BY <1>1, GcInvAlways, PTL

\* A collection releases everything that is out of reach and leaves no mark behind.
THEOREM CollectsAllGarbage == GcSpec => []ExactCollection
  <1> QED BY SweptExactly, GcInvAlways, PTL

\* No step releases an object that is in reach of the roots.
THEOREM NothingLiveIsReleased == GcSpec => LiveSurvives
  <1>1. GcInv /\ [GcNext]_gcVars => [\A o \in heap \ heap' : o \notin Reachable]_gcVars
    BY ReleasesGarbage
  <1> QED BY <1>1, GcInvAlways, PTL DEF GcSpec, LiveSurvives

-----------------------------------------------------------------------------
(***************************************************************************)
(* Lists.  For every set of values and every length: the buffer is large   *)
(* enough and not too large, holds what was stored, and implements the     *)
(* sequence ListOfValues.                                                  *)
(***************************************************************************)
BufferInv == ListTypeOK /\ BufferFollowsCount /\ count <= MaxCount

LEMMA Quotient ==
  \A a \in Nat, b \in Nat \ {0, 1} :
    a \div b \in Nat /\ b * (a \div b) <= a /\ a < b * (a \div b) + b
  OBVIOUS

LEMMA Factor ==
  \A q \in Nat, b \in Nat \ {0, 1} : 2 * q <= b * q /\ q <= b * q
  OBVIOUS

\* A list that grows is at most half empty afterwards.
LEMMA GrownBounds ==
  ASSUME count \in Nat, capacity \in Nat, count < MaxCount, count <= capacity
  PROVE  /\ Grown \in Nat /\ count + 1 <= Grown
         /\ Grown = capacity \/ Grown <= 2 * count + 1
  <1>1. count + 1 \in 1..MaxCount
    BY ObjListAssumption
  <1>2. PICK p \in PowersOf2 : p = CeilToPowerOf2(count + 1) /\ count + 1 <= p /\ p < 2 * (count + 1)
    BY <1>1, CapacityAssumption DEF CeilToPowerOf2
  <1>3. p \in Nat
    BY CapacityAssumption
  <1> QED BY <1>2, <1>3 DEF Grown

\* A list that has lost an element is still held by its buffer.
LEMMA ShrunkBounds ==
  ASSUME count \in Nat \ {0}, capacity \in Nat, count <= capacity, BufferFollowsCount
  PROVE  Shrunk \in Nat /\ count <= Shrunk /\ Shrunk <= capacity /\ Shrunk \div GrowFactor <= count
  <1>1. GrowFactor \in Nat \ {0, 1}
    BY ObjListAssumption
  <1>2. /\ capacity \div GrowFactor \in Nat
        /\ capacity \div GrowFactor <= capacity
    <2>1. /\ capacity \div GrowFactor \in Nat
          /\ GrowFactor * (capacity \div GrowFactor) <= capacity
      BY <1>1, Quotient
    <2> QED BY <1>1, <2>1, Factor
  <1>3. CASE capacity \div GrowFactor > count
    <2>1. Shrunk = capacity \div GrowFactor /\ Shrunk = count + 1
      BY <1>2, <1>3 DEF Shrunk, BufferFollowsCount
    <2>2. /\ Shrunk \div GrowFactor \in Nat
          /\ GrowFactor * (Shrunk \div GrowFactor) <= Shrunk
      BY <1>1, <1>2, <2>1, Quotient
    <2>3. 2 * (Shrunk \div GrowFactor) <= Shrunk
      BY <1>1, <1>2, <2>1, <2>2, Factor
    <2> QED BY <1>2, <2>1, <2>2, <2>3
  <1>4. CASE ~(capacity \div GrowFactor > count)
    BY <1>2, <1>4 DEF Shrunk
  <1> QED BY <1>3, <1>4

\* A subscript that is accepted lies in the list.
LEMMA IndexBounds ==
  ASSUME NEW i \in Int, NEW length \in Nat
  PROVE  Index(i, length) = -1 \/ Index(i, length) \in 0..length - 1
  BY DEF Index

LEMMA BufferInvInit == ListInit => BufferInv
  <1> SUFFICES ASSUME ListInit PROVE BufferInv
    OBVIOUS
  <1>1. ListTypeOK /\ count <= MaxCount
    <2>1. datas \in [0..0 - 1 -> Value \union {Junk}] /\ count = 0 /\ capacity = 0
      BY DEF ListInit
    <2>2. datas \in [0..capacity - 1 -> Value \union {Junk}]
      BY <2>1
    <2>3. iter \in Nat \union {None} /\ ended \in BOOLEAN
      BY DEF ListInit
    <2>4. count \in Nat /\ capacity \in Nat /\ count <= capacity /\ count <= MaxCount
      BY <2>1, ObjListAssumption
    <2> QED BY <2>2, <2>3, <2>4 DEF ListTypeOK
  <1>2. 0 \div GrowFactor <= 1
    BY Quotient, Factor, ObjListAssumption
  <1> QED BY <1>1, <1>2 DEF ListInit, BufferInv, BufferFollowsCount

\* Dividing a capacity that is at most 2 * n - 1 leaves less than n.
LEMMA Halved ==
  ASSUME NEW c \in Nat, NEW n \in Nat, c <= 2 * n + 1
  PROVE  c \div GrowFactor <= n
  <1>1. GrowFactor \in Nat \ {0, 1}
    BY ObjListAssumption
  <1>2. c \div GrowFactor \in Nat /\ GrowFactor * (c \div GrowFactor) <= c
    BY <1>1, Quotient
  <1>3. 2 * (c \div GrowFactor) <= c
    BY <1>1, <1>2, Factor
  <1> QED BY <1>2, <1>3

LEMMA BufferInvNext == BufferInv /\ [ListNext]_listVars => BufferInv'
  <1> SUFFICES ASSUME BufferInv, [ListNext]_listVars PROVE BufferInv'
    OBVIOUS
  <1> USE ObjListAssumption
  <1>0. ListTypeOK /\ BufferFollowsCount /\ count <= MaxCount /\ count \in Nat /\ capacity \in Nat
        /\ count <= capacity
    BY DEF BufferInv, ListTypeOK
  <1>a. ASSUME count < MaxCount, count' = count + 1, capacity' = Grown
        PROVE  /\ count' \in Nat /\ capacity' \in Nat /\ count' <= capacity' /\ count' <= MaxCount
               /\ BufferFollowsCount'
    <2>1. /\ Grown \in Nat /\ count + 1 <= Grown
          /\ Grown = capacity \/ Grown <= 2 * count + 1
      BY <1>0, <1>a, GrownBounds
    <2>2. capacity' \div GrowFactor <= count' + 1
      <3>1. CASE Grown = capacity
        <4>1. capacity \div GrowFactor \in Nat
          BY <1>0, Quotient
        <4> QED BY <1>0, <1>a, <3>1, <4>1 DEF BufferFollowsCount
      <3>2. CASE Grown <= 2 * count + 1
        <4>1. Grown \div GrowFactor <= count
          BY <1>0, <2>1, <3>2, Halved
        <4>2. Grown \div GrowFactor \in Nat
          BY <2>1, Quotient
        <4> QED BY <1>0, <1>a, <4>1, <4>2
      <3> QED BY <2>1, <3>1, <3>2
    <2> QED BY <1>0, <1>a, <2>1, <2>2 DEF BufferFollowsCount
  <1>b. ASSUME capacity' = count', count' \in Nat PROVE BufferFollowsCount'
    BY <1>b, Halved DEF BufferFollowsCount
  <1>1. ASSUME NEW v \in Value, Add(v) PROVE BufferInv'
    BY <1>0, <1>1, <1>a DEF Add, BufferInv, ListTypeOK, Read
  <1>2. ASSUME NEW v \in Value, NEW at \in Int, Insert(at, v) PROVE BufferInv'
    BY <1>0, <1>2, <1>a DEF Insert, BufferInv, ListTypeOK, Read
  <1>3. ASSUME NEW v \in Value, NEW at \in Int, Overwrite(at, v) PROVE BufferInv'
    BY <1>0, <1>3 DEF Overwrite, BufferInv, ListTypeOK, BufferFollowsCount
  <1>4. ASSUME NEW at \in Int, InsertAtEnd(at) PROVE BufferInv'
    BY <1>0, <1>4 DEF InsertAtEnd, BufferInv, ListTypeOK, BufferFollowsCount
  <1>5. ASSUME NEW at \in Int, RemoveElement(at) PROVE BufferInv'
    <2>1. count \in Nat \ {0}
      BY <1>0, <1>5 DEF RemoveElement, Index
    <2>2. /\ Shrunk \in Nat /\ count <= Shrunk /\ Shrunk <= capacity
          /\ Shrunk \div GrowFactor <= count
      BY <1>0, <2>1, ShrunkBounds
    <2>3. BufferFollowsCount'
      BY <1>0, <1>5, <2>1, <2>2 DEF RemoveElement, BufferFollowsCount
    <2>4. datas' \in [0..capacity' - 1 -> Value \union {Junk}]
      BY <1>0, <1>5, <2>2 DEF RemoveElement, ListTypeOK, Read
    <2> QED BY <1>0, <1>5, <2>1, <2>2, <2>3, <2>4 DEF RemoveElement, BufferInv, ListTypeOK
  <1>6. CASE Clear
    BY <1>0, <1>6, <1>b DEF Clear, BufferInv, ListTypeOK
  <1>7. ASSUME NEW from \in Int, NEW to \in Int, Subscript(from, to) PROVE BufferInv'
    <2> DEFINE f == Index(from, count)
               t == Index(to, count)
               n == IF f < t THEN t - f + 1 ELSE f - t + 1
    <2>1. f \in 0..count - 1 /\ t \in 0..count - 1
      BY <1>0, <1>7, IndexBounds DEF Subscript
    <2>2. n \in 1..count
      BY <1>0, <2>1
    <2>3. count' = n /\ capacity' = n /\ UNCHANGED <<iter, ended>>
      BY <1>7 DEF Subscript
    <2>4. datas' = [i \in 0..n - 1 |-> IF f < t THEN datas[f + i] ELSE datas[f - i]]
      BY <1>7 DEF Subscript
    <2>5. datas' \in [0..n - 1 -> Value \union {Junk}]
      BY <1>0, <2>1, <2>4 DEF ListTypeOK
    <2> QED BY <1>0, <1>b, <2>2, <2>3, <2>5 DEF BufferInv, ListTypeOK
  <1>8. ASSUME NEW from \in Int, NEW to \in Int, SubscriptOutOfBounds(from, to) PROVE BufferInv'
    BY <1>0, <1>8 DEF SubscriptOutOfBounds, BufferInv, ListTypeOK, BufferFollowsCount
  <1>9. CASE IterateFirst \/ IterateNext
    <2>1. iter' \in Nat \union {None}
      BY <1>0, <1>9 DEF IterateFirst, IterateNext, ListTypeOK
    <2>2. UNCHANGED <<count, capacity, datas, ended>>
      BY <1>9 DEF IterateFirst, IterateNext
    <2> QED BY <1>0, <2>1, <2>2 DEF BufferInv, ListTypeOK, BufferFollowsCount
  <1>10. CASE UNCHANGED listVars
    BY <1>0, <1>10 DEF listVars, BufferInv, ListTypeOK, BufferFollowsCount
  <1> QED BY <1>1, <1>2, <1>3, <1>4, <1>5, <1>6, <1>7, <1>8, <1>9, <1>10 DEF ListNext

\* Every reachable list is well formed; in particular its elements fit the buffer.
THEOREM ListTypeCorrect == ListSpec => []ListTypeOK
  <1>1. BufferInv => ListTypeOK
    BY DEF BufferInv
  <1> QED BY <1>1, BufferInvInit, BufferInvNext, PTL DEF ListSpec

\* The buffer of a list shrinks with it.
THEOREM BufferBounded == ListSpec => []BufferFollowsCount
  <1>1. BufferInv => BufferFollowsCount
    BY DEF BufferInv
  <1> QED BY <1>1, BufferInvInit, BufferInvNext, PTL DEF ListSpec

StoredInv == BufferInv /\ ElementsAreStored

LEMMA StoredInvNext == StoredInv /\ [ListNext]_listVars => StoredInv'
  <1> SUFFICES ASSUME StoredInv, [ListNext]_listVars PROVE ElementsAreStored'
    BY BufferInvNext DEF StoredInv
  <1> USE DEF ElementsAreStored
  <1>0. /\ BufferInv /\ count \in Nat /\ capacity \in Nat /\ count <= capacity
        /\ datas \in [0..capacity - 1 -> Value \union {Junk}]
        /\ \A i \in 0..count - 1 : datas[i] \in Value
    BY DEF StoredInv, BufferInv, ListTypeOK
  <1>1. ASSUME NEW v \in Value, Add(v) PROVE ElementsAreStored'
    <2>1. count + 1 <= Grown /\ Grown \in Nat
      BY <1>0, <1>1, GrownBounds DEF Add
    <2> QED BY <1>0, <1>1, <2>1 DEF Add, Read
  <1>2. ASSUME NEW v \in Value, NEW at \in Int, Insert(at, v) PROVE ElementsAreStored'
    <2>1. count + 1 <= Grown /\ Grown \in Nat
      BY <1>0, <1>2, GrownBounds DEF Insert
    <2>2. Index(at, count + 1) \in 0..count - 1
      BY <1>2 DEF Insert
    <2> QED BY <1>0, <1>2, <2>1, <2>2 DEF Insert, Read
  <1>3. ASSUME NEW v \in Value, NEW at \in Int, Overwrite(at, v) PROVE ElementsAreStored'
    BY <1>0, <1>3 DEF Overwrite
  <1>4. ASSUME NEW at \in Int, InsertAtEnd(at) PROVE ElementsAreStored'
    BY <1>0, <1>4 DEF InsertAtEnd
  <1>5. ASSUME NEW at \in Int, RemoveElement(at) PROVE ElementsAreStored'
    <2>1. Index(at, count) \in 0..count - 1 /\ count \in Nat \ {0}
      BY <1>0, <1>5, IndexBounds DEF RemoveElement
    <2>2. Shrunk \in Nat /\ count <= Shrunk /\ Shrunk <= capacity
      BY <1>0, <2>1, ShrunkBounds DEF BufferInv
    <2> QED BY <1>0, <1>5, <2>1, <2>2 DEF RemoveElement, Read
  <1>6. CASE Clear
    BY <1>6 DEF Clear
  <1>7. ASSUME NEW from \in Int, NEW to \in Int, Subscript(from, to) PROVE ElementsAreStored'
    <2> DEFINE f == Index(from, count)
               t == Index(to, count)
               n == IF f < t THEN t - f + 1 ELSE f - t + 1
    <2>1. f \in 0..count - 1 /\ t \in 0..count - 1
      BY <1>0, <1>7, IndexBounds DEF Subscript
    <2>2. count' = n /\ datas' = [i \in 0..n - 1 |-> IF f < t THEN datas[f + i] ELSE datas[f - i]]
      BY <1>7 DEF Subscript
    <2> HIDE DEF f, t
    <2> QED BY <1>0, <2>1, <2>2
  <1>8. ASSUME NEW from \in Int, NEW to \in Int, SubscriptOutOfBounds(from, to)
        PROVE ElementsAreStored'
    BY <1>0, <1>8 DEF SubscriptOutOfBounds
  <1>9. CASE IterateFirst \/ IterateNext
    BY <1>0, <1>9 DEF IterateFirst, IterateNext
  <1>10. CASE UNCHANGED listVars
    BY <1>0, <1>10 DEF listVars
  <1> QED BY <1>1, <1>2, <1>3, <1>4, <1>5, <1>6, <1>7, <1>8, <1>9, <1>10 DEF ListNext

\* No script reads a slot nobody has written.
THEOREM ElementsStored == ListSpec => []ElementsAreStored
  <1>1. ListInit => StoredInv
    BY BufferInvInit DEF ListInit, StoredInv, ElementsAreStored
  <1>2. StoredInv /\ [ListNext]_listVars => StoredInv'
    BY StoredInvNext
  <1>3. StoredInv => ElementsAreStored
    BY DEF StoredInv
  <1> QED BY <1>1, <1>2, <1>3, PTL DEF ListSpec

\* However the body changes the list, a loop is given indices of the list.
THEOREM LoopStaysInList == ListSpec => IterateStaysInList
  <1>1. BufferInv /\ [ListNext]_listVars => [iter' # iter /\ count > 0 => iter' = None \/ iter' < count]_listVars
    <2> SUFFICES ASSUME BufferInv, ListNext, iter' # iter, count > 0
                 PROVE iter' = None \/ iter' < count
      OBVIOUS
    <2>1. IterateFirst \/ IterateNext
      BY DEF ListNext, Add, Insert, Overwrite, InsertAtEnd, RemoveElement, Clear, Subscript, SubscriptOutOfBounds
    <2>2. CASE IterateFirst
      BY <2>2 DEF IterateFirst
    <2>3. CASE IterateNext
      <3>1. count - 1 \in 0..Wrap - 1 /\ Wrap \in Nat \ {0}
        BY ObjListAssumption DEF BufferInv, ListTypeOK
      <3>2. (count - 1) % Wrap = count - 1
        BY <3>1
      <3>3. iter \in Nat /\ count \in Nat
        BY <2>3 DEF IterateNext, BufferInv, ListTypeOK
      <3> QED BY <2>3, <3>1, <3>2, <3>3 DEF IterateNext
    <2> QED BY <2>1, <2>2, <2>3
  <1> QED BY <1>1, BufferInvInit, BufferInvNext, PTL DEF ListSpec, IterateStaysInList

-----------------------------------------------------------------------------
(* Refinement *)

LEMMA ElementsLen ==
  ASSUME count \in Nat
  PROVE  Len(Elements) = count /\ \A i \in 1..count : Elements[i] = datas[i - 1]
  BY DEF Elements

\* The index that validateIndexValue() returns is the one the position stands for.
LEMMA IndexIsPosition ==
  ASSUME NEW i \in Int, NEW length \in Nat, Index(i, length) \in 0..length - 1
  PROVE  Position(i, length) = Index(i, length) + 1
  <1>1. CASE i \in 0..length - 1
    BY <1>1 DEF Index, Position
  <1>2. CASE i \notin 0..length - 1
    <2>1. i + length \in 0..length - 1 /\ Index(i, length) = i + length
      BY <1>2 DEF Index
    <2> QED BY <2>1 DEF Position
  <1> QED BY <1>1, <1>2

\* A primitive of the buffer is that operation, with these arguments, on the sequence.
LEMMA ListOperationsAgree ==
  ASSUME BufferInv
  PROVE  /\ \A v \in Value : Add(v) => Abstract!Add(v)
         /\ \A v \in Value, at \in Int : Insert(at, v) =>
              Position(at, count + 1) \in 1..Len(Elements) + 1 /\ Abstract!Insert(Position(at, count + 1), v)
         /\ \A v \in Value, at \in Int : Overwrite(at, v) =>
              Position(at, count) \in 1..Len(Elements) + 1 /\ Abstract!Overwrite(Position(at, count), v)
         /\ \A at \in Int : RemoveElement(at) =>
              Position(at, count) \in 1..Len(Elements) /\ Abstract!RemoveAt(Position(at, count))
         /\ Clear => Abstract!RemoveAll
         /\ \A from, to \in Int : Subscript(from, to) =>
              /\ Position(from, count) \in 1..Len(Elements) /\ Position(to, count) \in 1..Len(Elements)
              /\ Abstract!Cut(Position(from, count), Position(to, count))
  <1>0. /\ count \in Nat /\ capacity \in Nat /\ count <= capacity
        /\ datas \in [0..capacity - 1 -> Value \union {Junk}]
    BY DEF BufferInv, ListTypeOK
  <1>a. Len(Elements) = count /\ \A i \in 1..count : Elements[i] = datas[i - 1]
    BY <1>0, ElementsLen
  <1>b. Elements' = [i \in 1..count' |-> datas'[i - 1]]
    BY DEF Elements
  <1>1. ASSUME NEW v \in Value, Add(v) PROVE Abstract!Add(v)
    <2>1. count + 1 <= Grown /\ Grown \in Nat
      BY <1>0, <1>1, GrownBounds DEF Add
    <2>2. \A i \in 1..count + 1 : datas'[i - 1] = IF i <= count THEN datas[i - 1] ELSE v
      BY <1>0, <1>1, <2>1 DEF Add, Read
    <2>3. count' = count + 1
      BY <1>1 DEF Add
    <2>4. \A i \in 1..count + 1 : i <= count => Elements[i] = datas[i - 1]
      BY <1>0, <1>a
    <2>5. Elements' = [i \in 1..count + 1 |-> IF i <= count THEN Elements[i] ELSE v]
      BY <1>b, <2>2, <2>3, <2>4
    <2> QED BY <1>a, <2>5 DEF Abstract!Add
  <1>2. ASSUME NEW v \in Value, NEW at \in Int, Insert(at, v)
        PROVE Position(at, count + 1) \in 1..Len(Elements) + 1 /\ Abstract!Insert(Position(at, count + 1), v)
    <2> DEFINE index == Index(at, count + 1)
    <2>1. count + 1 <= Grown /\ Grown \in Nat /\ index \in 0..count - 1 /\ count' = count + 1
      BY <1>0, <1>2, GrownBounds DEF Insert
    <2>2. datas' = [i \in 0..Grown - 1 |->
                      IF i < index \/ i > count THEN Read(i)
                      ELSE IF i = index THEN v ELSE Read(i - 1)]
      BY <1>2 DEF Insert
    <2> HIDE DEF index
    <2>3. \A i \in 1..count + 1 :
            datas'[i - 1] = IF i < index + 1 THEN datas[i - 1]
                            ELSE IF i = index + 1 THEN v ELSE datas[i - 2]
      BY <1>0, <2>1, <2>2 DEF Read
    <2>4. \A i \in 1..count + 1 : i > index + 1 => Elements[i - 1] = datas[i - 2]
      <3>1. \A i \in 1..count + 1 : i > index + 1 => i - 1 \in 1..count /\ (i - 1) - 1 = i - 2
        BY <1>0, <2>1
      <3> QED BY <1>a, <3>1
    <2>5. Elements' = [i \in 1..count + 1 |-> IF i < index + 1 THEN Elements[i]
                                             ELSE IF i = index + 1 THEN v ELSE Elements[i - 1]]
      BY <1>0, <1>a, <1>b, <2>1, <2>3, <2>4
    <2>6. index + 1 \in 1..Len(Elements) + 1 /\ Abstract!Insert(index + 1, v)
      BY <1>0, <1>a, <2>1, <2>5 DEF Abstract!Insert
    <2>7. Position(at, count + 1) = index + 1
      BY <1>0, <2>1, IndexIsPosition DEF index
    <2> QED BY <2>6, <2>7
  <1>3. ASSUME NEW v \in Value, NEW at \in Int, Overwrite(at, v)
        PROVE Position(at, count) \in 1..Len(Elements) + 1 /\ Abstract!Overwrite(Position(at, count), v)
    <2> DEFINE index == Index(at, count)
    <2>1. index \in 0..count - 1 /\ count' = count /\ datas' = [datas EXCEPT ![index] = v]
      BY <1>0, <1>3, IndexBounds DEF Overwrite
    <2> HIDE DEF index
    <2>2. \A i \in 1..count : datas'[i - 1] = IF i = index + 1 THEN v ELSE datas[i - 1]
      BY <1>0, <2>1
    <2>3. Elements' = [Elements EXCEPT ![index + 1] = v]
      BY <1>0, <1>a, <1>b, <2>1, <2>2 DEF Elements
    <2>4. index + 1 \in 1..Len(Elements) + 1 /\ Abstract!Overwrite(index + 1, v)
      BY <1>0, <1>a, <2>1, <2>3 DEF Abstract!Overwrite
    <2>5. Position(at, count) = index + 1
      BY <1>0, <2>1, IndexIsPosition DEF index
    <2> QED BY <2>4, <2>5
  <1>4. ASSUME NEW at \in Int, RemoveElement(at)
        PROVE Position(at, count) \in 1..Len(Elements) /\ Abstract!RemoveAt(Position(at, count))
    <2> DEFINE index == Index(at, count)
    <2>1. index \in 0..count - 1 /\ count' = count - 1
      BY <1>0, <1>4, IndexBounds DEF RemoveElement
    <2>2. Shrunk \in Nat /\ count <= Shrunk /\ Shrunk <= capacity
      BY <1>0, <2>1, ShrunkBounds DEF BufferInv
    <2>3. datas' = [i \in 0..Shrunk - 1 |->
                      IF i < index \/ i >= count THEN datas[i] ELSE Read(i + 1)]
      BY <1>4 DEF RemoveElement
    <2> HIDE DEF index
    <2>4. \A i \in 1..count - 1 :
            datas'[i - 1] = IF i < index + 1 THEN datas[i - 1] ELSE datas[i]
      BY <1>0, <2>1, <2>2, <2>3 DEF Read
    <2>5. \A i \in 1..count - 1 : Elements[i + 1] = datas[i] /\ Elements[i] = datas[i - 1]
      <3>1. \A i \in 1..count - 1 : i + 1 \in 1..count /\ (i + 1) - 1 = i /\ i \in 1..count
        BY <1>0
      <3> QED BY <1>a, <3>1
    <2>6. Elements' = [i \in 1..count - 1 |-> IF i < index + 1 THEN Elements[i] ELSE Elements[i + 1]]
      BY <1>0, <1>b, <2>1, <2>4, <2>5
    <2>7. index + 1 \in 1..Len(Elements) /\ Abstract!RemoveAt(index + 1)
      BY <1>0, <1>a, <2>1, <2>6 DEF Abstract!RemoveAt
    <2>8. Position(at, count) = index + 1
      BY <1>0, <2>1, IndexIsPosition DEF index
    <2> QED BY <2>7, <2>8
  <1>5. ASSUME Clear PROVE Abstract!RemoveAll
    <2>1. Elements' = <<>>
      BY <1>5, <1>b DEF Clear
    <2> QED BY <2>1 DEF Abstract!RemoveAll
  <1>6. ASSUME NEW from \in Int, NEW to \in Int, Subscript(from, to)
        PROVE /\ Position(from, count) \in 1..Len(Elements) /\ Position(to, count) \in 1..Len(Elements)
              /\ Abstract!Cut(Position(from, count), Position(to, count))
    <2> DEFINE f == Index(from, count)
               t == Index(to, count)
               n == IF f < t THEN t - f + 1 ELSE f - t + 1
    <2>1. f \in 0..count - 1 /\ t \in 0..count - 1
      BY <1>0, <1>6, IndexBounds DEF Subscript
    <2>2. count' = n /\ datas' = [i \in 0..n - 1 |-> IF f < t THEN datas[f + i] ELSE datas[f - i]]
      BY <1>6 DEF Subscript
    <2>6. Position(from, count) = f + 1 /\ Position(to, count) = t + 1
      BY <1>0, <2>1, IndexIsPosition
    <2> HIDE DEF f, t
    <2>3. f + 1 \in 1..Len(Elements) /\ t + 1 \in 1..Len(Elements)
      BY <1>0, <1>a, <2>1
    <2>4. ASSUME f < t PROVE Abstract!Cut(f + 1, t + 1)
      <3>1. n = (t + 1) - (f + 1) + 1 /\ n \in Nat
        BY <1>0, <2>1, <2>4
      <3>2. \A i \in 1..n : i - 1 \in 0..n - 1 /\ (f + 1) + i - 1 \in 1..count
                            /\ ((f + 1) + i - 1) - 1 = f + (i - 1)
        BY <1>0, <2>1, <2>4
      <3>3. \A i \in 1..n : datas'[i - 1] = Elements[(f + 1) + i - 1]
        BY <1>a, <2>2, <2>4, <3>2
      <3>4. Elements' = [i \in 1..n |-> Elements[(f + 1) + i - 1]]
        BY <1>b, <2>2, <3>3
      <3>5. f + 1 < t + 1
        BY <1>0, <2>1, <2>4
      <3>6. Elements' = [i \in 1..(t + 1) - (f + 1) + 1 |-> Elements[(f + 1) + i - 1]]
        BY <3>1, <3>4
      <3> QED BY <2>3, <3>5, <3>6, Zenon DEF Abstract!Cut
    <2>5. ASSUME ~(f < t) PROVE Abstract!Cut(f + 1, t + 1)
      <3>1. n = (f + 1) - (t + 1) + 1 /\ n \in Nat
        BY <1>0, <2>1, <2>5
      <3>2. \A i \in 1..n : i - 1 \in 0..n - 1 /\ (f + 1) - i + 1 \in 1..count
                            /\ ((f + 1) - i + 1) - 1 = f - (i - 1)
        BY <1>0, <2>1, <2>5
      <3>3. \A i \in 1..n : datas'[i - 1] = Elements[(f + 1) - i + 1]
        BY <1>a, <2>2, <2>5, <3>2
      <3>4. Elements' = [i \in 1..n |-> Elements[(f + 1) - i + 1]]
        BY <1>b, <2>2, <3>3
      <3>5. ~(f + 1 < t + 1)
        BY <1>0, <2>1, <2>5
      <3>6. Elements' = [i \in 1..(f + 1) - (t + 1) + 1 |-> Elements[(f + 1) - i + 1]]
        BY <3>1, <3>4
      <3> QED BY <2>3, <3>5, <3>6, Zenon DEF Abstract!Cut
    <2>7. Abstract!Cut(f + 1, t + 1)
      BY <2>4, <2>5
    <2> QED BY <2>3, <2>6, <2>7
  <1> QED BY <1>1, <1>2, <1>3, <1>4, <1>5, <1>6

LEMMA ListSameOperation == BufferInv => SameOperation
  <1> SUFFICES ASSUME BufferInv PROVE SameOperation
    OBVIOUS
  <1>1. Indices \subseteq Int
    BY ObjListAssumption DEF Indices
  <1> QED BY <1>1, ListOperationsAgree DEF SameOperation

\* Every step of the buffer is a step of the sequence, or leaves it alone.
LEMMA ListStep == BufferInv /\ [ListNext]_listVars => [Abstract!Next]_Elements
  <1> SUFFICES ASSUME BufferInv, [ListNext]_listVars PROVE [Abstract!Next]_Elements
    OBVIOUS
  <1>1. ASSUME NEW v \in Value, Add(v) PROVE Abstract!Next
    BY <1>1, ListOperationsAgree DEF Abstract!Next
  <1>2. ASSUME NEW v \in Value, NEW at \in Int, Insert(at, v) PROVE Abstract!Next
    <2>1. PICK p \in 1..Len(Elements) + 1 : Abstract!Insert(p, v)
      BY <1>2, ListOperationsAgree
    <2> QED BY <2>1 DEF Abstract!Next
  <1>3. ASSUME NEW v \in Value, NEW at \in Int, Overwrite(at, v) PROVE Abstract!Next
    <2>1. PICK p \in 1..Len(Elements) + 1 : Abstract!Overwrite(p, v)
      BY <1>3, ListOperationsAgree
    <2> QED BY <2>1 DEF Abstract!Next
  <1>4. ASSUME NEW at \in Int, RemoveElement(at) PROVE Abstract!Next
    <2>1. PICK p \in 1..Len(Elements) : Abstract!RemoveAt(p)
      BY <1>4, ListOperationsAgree
    <2> QED BY <2>1 DEF Abstract!Next
  <1>5. CASE Clear
    BY <1>5, ListOperationsAgree DEF Abstract!Next
  <1>6. ASSUME NEW from \in Int, NEW to \in Int, Subscript(from, to) PROVE Abstract!Next
    <2>1. PICK p \in 1..Len(Elements), q \in 1..Len(Elements) : Abstract!Cut(p, q)
      BY <1>6, ListOperationsAgree
    <2> QED BY <2>1 DEF Abstract!Next
  <1>7. ASSUME UNCHANGED <<count, datas>> PROVE UNCHANGED Elements
    BY <1>7 DEF Elements
  <1>8. CASE \E v \in Value : \/ Add(v)
                               \/ \E at \in -MaxCount..MaxCount : Insert(at, v) \/ Overwrite(at, v)
    BY <1>1, <1>2, <1>3, <1>8, ObjListAssumption
  <1>9. CASE \E at \in -MaxCount..MaxCount : InsertAtEnd(at) \/ RemoveElement(at)
    <2>1. CASE \E at \in -MaxCount..MaxCount : InsertAtEnd(at)
      BY <1>7, <2>1 DEF InsertAtEnd
    <2>2. CASE \E at \in -MaxCount..MaxCount : RemoveElement(at)
      BY <1>4, <2>2, ObjListAssumption
    <2> QED BY <1>9, <2>1, <2>2
  <1>10. CASE \E from, to \in -MaxCount..MaxCount :
                Subscript(from, to) \/ SubscriptOutOfBounds(from, to)
    <2>1. CASE \E from, to \in -MaxCount..MaxCount : Subscript(from, to)
      BY <1>6, <2>1, ObjListAssumption
    <2>2. CASE \E from, to \in -MaxCount..MaxCount : SubscriptOutOfBounds(from, to)
      BY <1>7, <2>2 DEF SubscriptOutOfBounds
    <2> QED BY <1>10, <2>1, <2>2
  <1>11. CASE IterateFirst \/ IterateNext \/ UNCHANGED listVars
    BY <1>7, <1>11 DEF IterateFirst, IterateNext, listVars
  <1> QED BY <1>5, <1>8, <1>9, <1>10, <1>11 DEF ListNext

\* The buffer implements the sequence: every primitive is the operation of that name, with
\* the same value and at the position its index stands for.
THEOREM ListImplemented == ListSpec => ImplementsList
  <1>1. ListInit => Abstract!Init
    BY DEF ListInit, Elements, Abstract!Init
  <1>2. BufferInv /\ [ListNext]_listVars => [Abstract!Next]_Elements
    BY ListStep
  <1>3. BufferInv /\ [ListNext]_listVars => [SameOperation]_listVars
    BY ListSameOperation
  <1> QED BY <1>1, <1>2, <1>3, BufferInvInit, BufferInvNext, PTL
          DEF ListSpec, ImplementsList, Abstract!Spec

-----------------------------------------------------------------------------
(***************************************************************************)
(* Modules and imports, for every number of files, variables and lines,    *)
(* and for sources of every length.                                        *)
(***************************************************************************)
\* The fields of an instruction.
LEMMA InstrFields ==
  ASSUME NEW t \in Instr
  PROVE  /\ t.op \in {"var", "use", "import", "get"}
         /\ t.op = "var" => t.var \in Var /\ t.value \in {"null", "number", "object"}
         /\ t.op = "use" => t.var \in Var
         /\ t.op = "import" => t.from \in File
         /\ t.op = "get" => t.from \in File /\ t.var \in Var
BY DEF Instr

-----------------------------------------------------------------------------
(***************************************************************************)
(* The compiler.  A table maps some variables to what they hold; one       *)
(* without "line" is the table of a module whose code has been compiled.   *)
(***************************************************************************)
Tables == UNION {[D -> Values] : D \in SUBSET Var}
SoundTables == UNION {[D -> Values \ {"line"}] : D \in SUBSET Var}

LEMMA DeclaredProperties ==
  ASSUME NEW table \in Tables, NEW t \in Instr
  PROVE  /\ Declared(table, t) \in Tables
         /\ DOMAIN table \subseteq DOMAIN Declared(table, t)
         /\ Defines(t) \/ Uses(t) => t.var \in DOMAIN Declared(table, t)
         /\ \A x \in DOMAIN table : table[x] # "line" => Declared(table, t)[x] # "line"
<1>1. PICK D \in SUBSET Var : table \in [D -> Values]
  BY DEF Tables
<1>2. ASSUME NEW x \in Var, NEW v \in Values
      PROVE  /\ Put(table, x, v) \in [D \union {x} -> Values]
             /\ Put(table, x, v)[x] = v
             /\ \A y \in D \ {x} : Put(table, x, v)[y] = table[y]
  BY <1>1, <1>2 DEF Put
<1>3. \A E \in SUBSET Var : [E -> Values] \subseteq Tables
  BY DEF Tables
<1>4. CASE Defines(t) /\ ~Redefined(table, t.var)
  <2>1. t.var \in Var /\ "null" \in Values
    BY <1>4, InstrFields DEF Defines, Values
  <2>2. Declared(table, t) = Put(table, t.var, "null")
    BY <1>4 DEF Declared, Defines, Uses
  <2>3. D \union {t.var} \in SUBSET Var /\ "null" # "line"
    BY <2>1
  <2> DEFINE q == Put(table, t.var, "null")
  <2>4. /\ q \in [D \union {t.var} -> Values]
        /\ q[t.var] = "null"
        /\ \A y \in D \ {t.var} : q[y] = table[y]
    BY <1>2, <2>1
  <2> HIDE DEF q
  <2>5. /\ q \in Tables
        /\ DOMAIN table \subseteq DOMAIN q
        /\ t.var \in DOMAIN q
        /\ \A x \in DOMAIN table : table[x] # "line" => q[x] # "line"
    BY <1>1, <1>3, <2>3, <2>4
  <2> QED
    BY <2>2, <2>5 DEF q
<1>5. CASE Uses(t) /\ t.var \notin DOMAIN table
  <2>1. t.var \in Var /\ "line" \in Values
    BY <1>5, InstrFields DEF Uses, Values
  <2>2. ~Defines(t)
    BY <1>5 DEF Defines, Uses
  <2>3. Declared(table, t) = Put(table, t.var, "line")
    BY <1>5, <2>2 DEF Declared
  <2>4. D \union {t.var} \in SUBSET Var
    BY <2>1
  <2> DEFINE q == Put(table, t.var, "line")
  <2>5. /\ q \in [D \union {t.var} -> Values]
        /\ \A y \in D \ {t.var} : q[y] = table[y]
    BY <1>2, <2>1
  <2> HIDE DEF q
  <2>6. /\ q \in Tables
        /\ DOMAIN table \subseteq DOMAIN q
        /\ t.var \in DOMAIN q
        /\ \A x \in DOMAIN table : table[x] # "line" => q[x] # "line"
    BY <1>1, <1>3, <1>5, <2>4, <2>5
  <2> QED
    BY <2>3, <2>6 DEF q
<1>6. CASE ~(Defines(t) /\ ~Redefined(table, t.var)) /\ ~(Uses(t) /\ t.var \notin DOMAIN table)
  <2>1. Declared(table, t) = table
    BY <1>6 DEF Declared
  <2> QED
    BY <1>6, <2>1 DEF Redefined
<1> QED
  BY <1>4, <1>5, <1>6

\* What the function Known is, and what holds of the table of every prefix.
LEMMA KnownProperties ==
  ASSUME NEW table \in Tables, NEW text \in Seq(Instr)
  PROVE  \A i \in 0..Len(text) :
           /\ Known(table, text)[i] \in Tables
           /\ DOMAIN table \subseteq DOMAIN Known(table, text)[i]
           /\ \A x \in DOMAIN table : table[x] # "line" => Known(table, text)[i][x] # "line"
           /\ \A j \in 1..i : Defines(text[j]) \/ Uses(text[j])
                => text[j].var \in DOMAIN Known(table, text)[i]
<1> DEFINE K == Len(text)
           Body(f) == [i \in 0..K |-> IF i = 0 THEN table ELSE Declared(f[i - 1], text[i])]
           known == CHOOSE f : f = Body(f)
           step == [i \in Nat |-> [x \in Tables |->
                      IF i \in 1..K THEN Declared(x, text[i]) ELSE x]]
           Good(i, r) ==
             /\ r \in Tables
             /\ DOMAIN table \subseteq DOMAIN r
             /\ \A x \in DOMAIN table : table[x] # "line" => r[x] # "line"
             /\ \A j \in 1..i : Defines(text[j]) \/ Uses(text[j]) => text[j].var \in DOMAIN r
<1>1. K \in Nat /\ \A i \in 1..K : text[i] \in Instr
  BY LenProperties, ElementOfSeq
<1>2. Known(table, text) = known
  BY DEF Known
<1>3. step \in [Nat -> [Tables -> Tables]]
  BY <1>1, DeclaredProperties
<1>4. \E f : f = Body(f)
  <2>0. PICK f \in [0..K -> Tables] : Iterates(f, K, table, step)
    <3> HIDE DEF step, K
    <3> QED
      BY <1>1, <1>3, RecursionUpTo
  <2>1. f[0] = table /\ \A i \in 1..K : f[i] = step[i][f[i - 1]]
    BY <2>0 DEF Iterates
  <2>2. f = Body(f)
    <3>2. ASSUME NEW i \in 1..K PROVE step[i][f[i - 1]] = Declared(f[i - 1], text[i])
      <4>1. f[i - 1] \in Tables /\ i \in Nat
        BY <1>1
      <4> QED
        BY <4>1
    <3> HIDE DEF step, K
    <3>3. \A i \in 0..K : f[i] = IF i = 0 THEN table ELSE Declared(f[i - 1], text[i])
      <4> TAKE i \in 0..K
      <4>1. i = 0 \/ i \in 1..K
        BY <1>1
      <4> QED
        BY <2>1, <3>2, <4>1
    <3> QED
      BY <3>3
  <2> QED
    BY <2>2
<1>5. known = Body(known)
  BY <1>4
<1> HIDE DEF known, step, K
<1>6. known[0] = table /\ \A i \in 1..K : known[i] = Declared(known[i - 1], text[i])
  <2> DEFINE f == known
  <2>1. f = Body(f)
    BY <1>5
  <2> HIDE DEF f
  <2>2. \A i \in 0..K : f[i] = IF i = 0 THEN table ELSE Declared(f[i - 1], text[i])
    BY <2>1
  <2> QED
    BY <1>1, <2>2 DEF f
<1>7. Good(0, known[0])
  BY <1>6
<1>8. ASSUME NEW i \in 0..(K - 1), Good(i, known[i]) PROVE Good(i + 1, known[i + 1])
  <2>1. i + 1 \in 1..K /\ (i + 1) - 1 = i
    BY <1>1
  <2>2. known[i + 1] = Declared(known[i], text[i + 1]) /\ text[i + 1] \in Instr
    BY <1>1, <1>6, <2>1
  <2> DEFINE r == known[i]
             q == Declared(r, text[i + 1])
  <2>3. /\ q \in Tables
        /\ DOMAIN r \subseteq DOMAIN q
        /\ Defines(text[i + 1]) \/ Uses(text[i + 1]) => text[i + 1].var \in DOMAIN q
        /\ \A x \in DOMAIN r : r[x] # "line" => q[x] # "line"
    BY <1>8, <2>2, DeclaredProperties
  <2> HIDE DEF r, q
  <2>4. Good(i, r)
    BY <1>8 DEF r
  <2>5. \A j \in 1..(i + 1) : j \in 1..i \/ j = i + 1
    OBVIOUS
  <2>6. Good(i + 1, q)
    BY <2>3, <2>4, <2>5
  <2> QED
    BY <2>2, <2>6 DEF q, r
<1> HIDE DEF Good
<1>9. 0..K \subseteq {i \in 0..K : Good(i, known[i])}
  <2> DEFINE S == {i \in 0..K : Good(i, known[i])}
  <2>1. 0 \in S
    BY <1>1, <1>7
  <2>2. ASSUME NEW i \in 0..(K - 1), i \in S PROVE i + 1 \in S
    BY <1>1, <1>8, <2>2
  <2> HIDE DEF S
  <2>3. 0..K \subseteq S
    BY <1>1, <2>1, <2>2, InductionUpTo
  <2> QED
    BY <2>3 DEF S
<1>10. \A i \in 0..K : Good(i, Known(table, text)[i])
  BY <1>2, <1>9
<1> QED
  BY <1>10 DEF Good, K

\* A source that compiles leaves a table without line numbers, which has the
\* variables of the table before it and every variable the source names.
LEMMA CompiledTable ==
  ASSUME NEW table \in SoundTables, NEW text \in Text, Compiles(table, text)
  PROVE  /\ Known(table, text)[Len(text)] \in SoundTables
         /\ DOMAIN table \subseteq DOMAIN Known(table, text)[Len(text)]
         /\ \A j \in 1..Len(text) : Defines(text[j]) \/ Uses(text[j])
              => text[j].var \in DOMAIN Known(table, text)[Len(text)]
<1> DEFINE after == Known(table, text)[Len(text)]
<1>1. text \in Seq(Instr) /\ Len(text) \in 0..Len(text)
  BY TextAssumption, LenProperties
<1>2. table \in Tables /\ \A x \in DOMAIN table : table[x] # "line"
  BY DEF SoundTables, Tables
<1>3. /\ after \in Tables
      /\ DOMAIN table \subseteq DOMAIN after
      /\ \A x \in DOMAIN table : after[x] # "line"
      /\ \A j \in 1..Len(text) : Defines(text[j]) \/ Uses(text[j]) => text[j].var \in DOMAIN after
  BY <1>1, <1>2, KnownProperties
<1>4. \A x \in DOMAIN after \ DOMAIN table : after[x] # "line"
  BY DEF Compiles, AllDefined, VALUE_IS_NUM
<1> HIDE DEF after
<1>5. after \in SoundTables
  <2>1. PICK D \in SUBSET Var : after \in [D -> Values]
    BY <1>3 DEF Tables
  <2>2. after \in [D -> Values \ {"line"}]
    BY <1>3, <1>4, <2>1
  <2> QED
    BY <2>2 DEF SoundTables
<1> QED
  BY <1>3, <1>5 DEF after

-----------------------------------------------------------------------------
(***************************************************************************)
(* The inductive invariant.  A thread is ready when its module is loaded,  *)
(* the variables its code names exist, the modules it has imported so far  *)
(* are loaded, and what is left on its stack comes from its own imports.   *)
(***************************************************************************)
Threads == [module : Module, code : Text, pc : Nat \ {0}, error : BOOLEAN, stray : Nat]
ModuleTables == UNION {[D -> SoundTables] : D \in SUBSET Module}

Ready(t, loaded, faults) ==
  /\ t.module \in DOMAIN loaded
  /\ t.pc <= Len(t.code) + 1
  /\ \A j \in 1..Len(t.code) : Defines(t.code[j]) \/ Uses(t.code[j])
       => t.code[j].var \in DOMAIN loaded[t.module]
  /\ \A j \in 1..(t.pc - 1) : t.code[j].op = "import" => t.code[j].from \in DOMAIN loaded
  /\ t.error => "missing" \in faults
  /\ t.error \/ t.stray > 0 => faults # {} /\ Executed(t, "get") # {}
  /\ t.stray <= 2 * Cardinality(Executed(t, "get")) + Cardinality(Executed(t, "import"))

Waiting == {running[i].module : i \in 1..Len(running)}

Types ==
  /\ allModules \in ModuleTables
  /\ running \in Seq(Threads)
  /\ lines \in 0..MaxLines
  /\ status \in {"idle", "running", "error"}
  /\ status = "idle" => running = <<>>
  /\ status = "running" => running # <<>>
  /\ runs \in [Module -> Nat] /\ finished \subseteq Module /\ failed \subseteq {"missing", "null"}

ThreadsReady == \A i \in 1..Len(running) : Ready(running[i], allModules, failed)
Distinct == \A i, j \in 1..Len(running) : running[i].module = running[j].module => i = j

\* Every file that is loaded has been started once; unless an error was
\* recorded, it has finished or its thread is among those that run or wait.
FileRuns ==
  \A m \in File :
    /\ m \notin DOMAIN allModules => runs[m] = 0
    /\ runs[m] <= 1
    /\ m \in DOMAIN allModules /\ "missing" \notin failed => runs[m] = 1 /\ m \in finished \union Waiting

LastRead ==
  /\ last.value # "line" /\ (last.op = "get" => last.got # "line")
  /\ last.op = "get" /\ "missing" \notin failed => last.from \in finished \union Waiting

ModInv == Types /\ ThreadsReady /\ Distinct /\ WaitingChain /\ FileRuns /\ LastRead

-----------------------------------------------------------------------------
(***************************************************************************)
(* Tables and threads.                                                     *)
(***************************************************************************)

\* a grows to b: no module and no variable disappears.
Grows(a, b) ==
  DOMAIN a \subseteq DOMAIN b /\ \A m \in DOMAIN a : DOMAIN a[m] \subseteq DOMAIN b[m]

LEMMA StaysReady ==
  ASSUME NEW t, NEW a, NEW b, NEW f, NEW g, Ready(t, a, f), Grows(a, b), f \subseteq g
  PROVE  Ready(t, b, g)
BY DEF Ready, Grows

LEMMA TablesOf ==
  ASSUME NEW a \in ModuleTables
  PROVE  DOMAIN a \subseteq Module /\ \A m \in DOMAIN a : a[m] \in SoundTables
BY DEF ModuleTables

LEMMA AssignKeepsTables ==
  ASSUME NEW a \in ModuleTables, NEW m \in DOMAIN a, NEW x \in DOMAIN a[m],
         NEW v \in Values \ {"line"}
  PROVE  /\ [a EXCEPT ![m][x] = v] \in ModuleTables
         /\ DOMAIN [a EXCEPT ![m][x] = v] = DOMAIN a
         /\ Grows(a, [a EXCEPT ![m][x] = v])
<1>1. PICK D \in SUBSET Module : a \in [D -> SoundTables]
  BY DEF ModuleTables
<1>2. PICK E \in SUBSET Var : a[m] \in [E -> Values \ {"line"}]
  BY <1>1 DEF SoundTables
<1> DEFINE t == [a[m] EXCEPT ![x] = v]
           b == [a EXCEPT ![m] = t]
<1>3. t \in [E -> Values \ {"line"}] /\ [a EXCEPT ![m][x] = v] = b
  BY <1>2
<1>4. t \in SoundTables /\ DOMAIN t = DOMAIN a[m]
  BY <1>2, <1>3 DEF SoundTables
<1> HIDE DEF t
<1>5. b \in [D -> SoundTables] /\ \A n \in DOMAIN a : b[n] = IF n = m THEN t ELSE a[n]
  BY <1>1, <1>4
<1> HIDE DEF b
<1>6. b \in ModuleTables /\ DOMAIN b = DOMAIN a /\ Grows(a, b)
  BY <1>1, <1>4, <1>5 DEF ModuleTables, Grows
<1> QED
  BY <1>3, <1>6

\* What loadModule() leaves: the module is there, with the variables of its code.
LEMMA LoadKeepsTables ==
  ASSUME allModules \in ModuleTables, NEW m \in Module, NEW text \in Text,
         Compiles(TableOf(m), text)
  PROVE  /\ Loaded(m, text) \in ModuleTables
         /\ DOMAIN Loaded(m, text) = DOMAIN allModules \union {m}
         /\ Grows(allModules, Loaded(m, text))
         /\ \A j \in 1..Len(text) : Defines(text[j]) \/ Uses(text[j])
              => text[j].var \in DOMAIN Loaded(m, text)[m]
<1>1. PICK D \in SUBSET Module : allModules \in [D -> SoundTables]
  BY DEF ModuleTables
<1> DEFINE old == TableOf(m)
           new == Known(old, text)[Len(text)]
           b == Loaded(m, text)
<1>2. old \in SoundTables /\ (m \in DOMAIN allModules => old = allModules[m])
  <2>1. CASE m \in DOMAIN allModules
    BY <1>1, <2>1 DEF TableOf
  <2>2. CASE m \notin DOMAIN allModules
    <3>1. [x \in {} |-> "null"] \in [{} -> Values \ {"line"}] /\ {} \in SUBSET Var
      OBVIOUS
    <3>2. TableOf(m) = [x \in {} |-> "null"]
      BY <2>2 DEF TableOf
    <3> QED
      BY <2>2, <3>1, <3>2 DEF SoundTables
  <2> QED
    BY <2>1, <2>2
<1>3. /\ new \in SoundTables
      /\ DOMAIN old \subseteq DOMAIN new
      /\ \A j \in 1..Len(text) : Defines(text[j]) \/ Uses(text[j]) => text[j].var \in DOMAIN new
  BY <1>2, CompiledTable
<1>4. b = Put(allModules, m, new)
  BY DEF Loaded
<1> HIDE DEF old, new, b
<1>5. /\ b \in [D \union {m} -> SoundTables] /\ D \union {m} \in SUBSET Module
      /\ b[m] = new /\ \A n \in D \ {m} : b[n] = allModules[n]
  BY <1>1, <1>3, <1>4 DEF Put
<1>6. b \in ModuleTables /\ DOMAIN b = DOMAIN allModules \union {m} /\ Grows(allModules, b)
  BY <1>1, <1>2, <1>3, <1>5 DEF ModuleTables, Grows
<1> QED
  BY <1>3, <1>5, <1>6 DEF b

\* The last thread, and the sequences without it and with another in its place.
LEMMA LastThread ==
  ASSUME running \in Seq(Threads), running # <<>>
  PROVE  /\ Len(running) \in Nat \ {0} /\ cur = running[Len(running)] /\ cur \in Threads
         /\ Front(running) \in Seq(Threads) /\ Len(Front(running)) = Len(running) - 1
         /\ \A i \in 1..(Len(running) - 1) : Front(running)[i] = running[i]
         /\ \A th \in Threads :
              /\ Replaced(th) \in Seq(Threads) /\ Len(Replaced(th)) = Len(running)
              /\ Replaced(th)[Len(running)] = th
              /\ \A i \in 1..(Len(running) - 1) : Replaced(th)[i] = running[i]
<1> DEFINE n == Len(running)
           front == Front(running)
<1>1. n \in Nat \ {0} /\ \A i \in 1..n : running[i] \in Threads
  BY EmptySeq, ElementOfSeq
<1>2. cur = running[n]
  BY DEF cur, Last
<1>3. front \in Seq(Threads) /\ Len(front) = n - 1 /\ \A i \in 1..(n - 1) : front[i] = running[i]
  <2>1. \A i \in 1..(n - 1) : running[i] \in Threads
    BY <1>1
  <2>2. front = SubSeq(running, 1, n - 1)
    BY DEF Front
  <2> HIDE DEF n, front
  <2>3. 1 \in Int /\ n - 1 \in Int
    BY <1>1
  <2>4. /\ SubSeq(running, 1, n - 1) \in Seq(Threads)
        /\ Len(SubSeq(running, 1, n - 1)) = IF 1 <= n - 1 THEN (n - 1) - 1 + 1 ELSE 0
        /\ \A i \in 1..((n - 1) - 1 + 1) : SubSeq(running, 1, n - 1)[i] = running[1 + i - 1]
    BY <2>1, <2>3, SubSeqProperties
  <2> QED
    BY <1>1, <2>2, <2>4
<1>4. ASSUME NEW th \in Threads
      PROVE  /\ Replaced(th) \in Seq(Threads) /\ Len(Replaced(th)) = n
             /\ Replaced(th)[n] = th
             /\ \A i \in 1..(n - 1) : Replaced(th)[i] = running[i]
  <2>1. Replaced(th) = Append(front, th)
    BY DEF Replaced
  <2> HIDE DEF n, front
  <2> QED
    BY <1>1, <1>3, <2>1
<1> QED
  BY <1>1, <1>2, <1>3, <1>4

-----------------------------------------------------------------------------
(***************************************************************************)
(* The steps.                                                              *)
(***************************************************************************)
LEMMA ModInvInit == Init => ModInv
<1> SUFFICES ASSUME Init PROVE ModInv
  OBVIOUS
<1>1. allModules \in [{} -> SoundTables] /\ {} \in SUBSET Module
  BY DEF Init
<1>2. allModules \in ModuleTables /\ DOMAIN allModules = {}
  BY <1>1 DEF ModuleTables
<1>3. running = <<>> /\ Len(running) = 0 /\ running \in Seq(Threads)
  BY DEF Init
<1>4. Types
  BY <1>2, <1>3, ModulesAssumption DEF Types, Init
<1>5. ThreadsReady /\ Distinct /\ WaitingChain
  BY <1>3 DEF ThreadsReady, Distinct, WaitingChain
<1>6. FileRuns
  BY <1>2 DEF FileRuns, Init, Module
<1>7. LastRead
  BY DEF LastRead, Init, NothingRead
<1> QED
  BY <1>4, <1>5, <1>6, <1>7 DEF ModInv

\* The running thread goes on: its record changes, and no thread comes or goes.
LEMMA GoesOn ==
  ASSUME ModInv, status = "running", NEW th \in Threads, th.module = cur.module,
         running' = Replaced(th), allModules' \in ModuleTables, Grows(allModules, allModules'),
         Ready(th, allModules', failed'),
         failed \subseteq failed', failed' \subseteq {"missing", "null"},
         DOMAIN allModules' = DOMAIN allModules \/ "missing" \in failed',
         UNCHANGED <<lines, status, runs, finished>>,
         last'.value # "line", last'.op = "get" => last'.got # "line",
         last'.op = "get" /\ "missing" \notin failed' => last'.from \in finished \union Waiting
  PROVE  ModInv'
<1>1. Types /\ ThreadsReady /\ Distinct /\ FileRuns
  BY DEF ModInv
<1> DEFINE n == Len(running)
<1>2. /\ n \in Nat \ {0} /\ cur = running[n]
      /\ running' \in Seq(Threads) /\ Len(running') = n /\ running'[n] = th
      /\ \A i \in 1..(n - 1) : running'[i] = running[i]
  BY <1>1, LastThread DEF Types
<1> HIDE DEF n
<1>3. \A i \in 1..n : i = n \/ i \in 1..(n - 1)
  BY <1>2
<1>4. \A i \in 1..n : running'[i].module = running[i].module
  BY <1>2, <1>3
<1>5. Types'
  <2>1. running' # <<>>
    BY <1>2, EmptySeq
  <2> QED
    BY <1>1, <1>2, <2>1 DEF Types
<1>6. ThreadsReady'
  <2>1. \A i \in 1..n : Ready(running[i], allModules, failed)
    BY <1>1 DEF ThreadsReady, n
  <2>2. \A i \in 1..(n - 1) : i \in 1..n
    BY <1>2
  <2>3. \A i \in 1..(n - 1) : Ready(running'[i], allModules', failed')
    BY <1>2, <2>1, <2>2, StaysReady
  <2>4. \A i \in 1..n : Ready(running'[i], allModules', failed')
    BY <1>2, <1>3, <2>3
  <2> QED
    BY <1>2, <2>4 DEF ThreadsReady
<1>7. Distinct'
  <2>1. \A i, j \in 1..n : running[i].module = running[j].module => i = j
    BY <1>1 DEF Distinct, n
  <2> QED
    BY <1>2, <1>4, <2>1 DEF Distinct
<1>11. WaitingChain'
  <2>1. WaitingChain /\ Len(running) = n
    BY DEF ModInv, n
  <2>2. running'[1].module = Cli
    <3>1. running # <<>> /\ 1 \in 1..n
      BY <1>1, <1>2 DEF Types
    <3> QED
      BY <1>4, <2>1, <3>1 DEF WaitingChain
  <2>3. ASSUME NEW i \in 1..n - 1
        PROVE  /\ running'[i].pc > 1
               /\ running'[i].code[running'[i].pc - 1].op = "import"
               /\ running'[i].code[running'[i].pc - 1].from = running'[i + 1].module
    <3>1. running'[i] = running[i] /\ i + 1 \in 1..n
      BY <1>2
    <3>2. running'[i + 1].module = running[i + 1].module
      BY <1>4, <3>1
    <3> QED
      BY <2>1, <3>1, <3>2 DEF WaitingChain
  <2> QED
    BY <1>2, <2>2, <2>3 DEF WaitingChain
<1>8. Waiting' = Waiting
  BY <1>2, <1>4 DEF Waiting, n
<1>9. FileRuns'
  <2>1. ASSUME NEW m \in File
        PROVE  /\ m \notin DOMAIN allModules' => runs[m] = 0
               /\ runs[m] <= 1
               /\ m \in DOMAIN allModules' /\ "missing" \notin failed'
                    => runs[m] = 1 /\ m \in finished \union Waiting
    BY <1>1, <2>1 DEF FileRuns, Grows
  <2> QED
    BY <1>8, <2>1 DEF FileRuns
<1>10. LastRead'
  BY <1>8 DEF LastRead
<1> QED
  BY <1>5, <1>6, <1>7, <1>9, <1>10, <1>11 DEF ModInv

\* What a thread has behind it when it has executed one more instruction.
LEMMA ExecutedOneMore ==
  ASSUME NEW t \in Threads, NEW s \in Threads, s.code = t.code, s.pc = t.pc + 1, NEW op
  PROVE  /\ Executed(s, op) = IF t.code[t.pc].op = op THEN Executed(t, op) \union {t.pc} ELSE Executed(t, op)
         /\ Cardinality(Executed(t, op)) \in Nat
         /\ Cardinality(Executed(s, op)) =
              Cardinality(Executed(t, op)) + IF t.code[t.pc].op = op THEN 1 ELSE 0
<1>1. t.pc \in Nat \ {0} /\ s.pc - 1 = t.pc
  BY DEF Threads
<1>2. Executed(s, op) = IF t.code[t.pc].op = op THEN Executed(t, op) \union {t.pc} ELSE Executed(t, op)
  <2>1. 1..s.pc - 1 = (1..t.pc - 1) \union {t.pc}
    BY <1>1
  <2> QED
    BY <2>1 DEF Executed
<1>3. IsFiniteSet(Executed(t, op)) /\ t.pc \notin Executed(t, op)
  <2>1. IsFiniteSet(1..t.pc - 1)
    BY <1>1, FS_Interval
  <2>2. Executed(t, op) \in SUBSET (1..t.pc - 1)
    BY DEF Executed
  <2>3. IsFiniteSet(Executed(t, op))
    BY <2>1, <2>2, FS_Subset
  <2> QED
    BY <1>1, <2>3 DEF Executed
<1>4. Cardinality(Executed(t, op)) \in Nat
  BY <1>3, FS_CardinalityType
<1>5. Cardinality(Executed(t, op) \union {t.pc}) = Cardinality(Executed(t, op)) + 1
  BY <1>3, FS_AddElement
<1> QED
  BY <1>2, <1>4, <1>5

\* A thread that has executed one instruction is still ready.
LEMMA AdvancedReady ==
  ASSUME NEW t \in Threads, NEW a, NEW f, Ready(t, a, f), t.pc <= Len(t.code),
         t.code[t.pc].op = "import" => t.code[t.pc].from \in DOMAIN a
  PROVE  Advanced(t) \in Threads /\ Advanced(t).module = t.module /\ Ready(Advanced(t), a, f)
<1> DEFINE s == Advanced(t)
<1>1. /\ s \in Threads /\ s.module = t.module /\ s.code = t.code /\ s.pc = t.pc + 1
      /\ s.error = t.error /\ s.stray = t.stray
  BY DEF Threads, Advanced
<1>2. t.pc \in Nat \ {0} /\ Len(t.code) \in Nat
  BY TextAssumption, LenProperties DEF Threads
<1> HIDE DEF s
<1>3. \A j \in 1..(s.pc - 1) : j = t.pc \/ j \in 1..(t.pc - 1)
  BY <1>1, <1>2
<1>5. \A op : /\ Executed(t, op) \subseteq Executed(s, op)
               /\ Cardinality(Executed(t, op)) \in Nat /\ Cardinality(Executed(s, op)) \in Nat
               /\ Cardinality(Executed(t, op)) <= Cardinality(Executed(s, op))
  BY <1>1, ExecutedOneMore
<1>6. s.stray \in Nat
  BY <1>1 DEF Threads
<1>7. s.stray <= 2 * Cardinality(Executed(s, "get")) + Cardinality(Executed(s, "import"))
  <2>1. t.stray <= 2 * Cardinality(Executed(t, "get")) + Cardinality(Executed(t, "import"))
    BY DEF Ready
  <2> QED
    BY <1>1, <1>5, <1>6, <2>1
<1>8. s.error \/ s.stray > 0 => f # {} /\ Executed(s, "get") # {}
  BY <1>1, <1>5 DEF Ready
<1>9. /\ s.module \in DOMAIN a /\ s.pc <= Len(s.code) + 1
      /\ \A j \in 1..Len(s.code) : Defines(s.code[j]) \/ Uses(s.code[j]) => s.code[j].var \in DOMAIN a[s.module]
      /\ \A j \in 1..(s.pc - 1) : s.code[j].op = "import" => s.code[j].from \in DOMAIN a
  <2>1. /\ t.module \in DOMAIN a
        /\ \A j \in 1..Len(t.code) : Defines(t.code[j]) \/ Uses(t.code[j]) => t.code[j].var \in DOMAIN a[t.module]
        /\ \A j \in 1..(t.pc - 1) : t.code[j].op = "import" => t.code[j].from \in DOMAIN a
    BY DEF Ready
  <2>2. s.pc <= Len(s.code) + 1
    BY <1>1, <1>2
  <2>3. \A j \in 1..(s.pc - 1) : s.code[j].op = "import" => s.code[j].from \in DOMAIN a
    BY <1>1, <1>3, <2>1
  <2> QED
    BY <1>1, <2>1, <2>2, <2>3
<1>10. s.error => "missing" \in f
  BY <1>1 DEF Ready
<1>4. Ready(s, a, f)
  BY <1>7, <1>8, <1>9, <1>10 DEF Ready
<1> QED
  BY <1>1, <1>4 DEF s

\* What holds of the running thread at an instruction.
LEMMA AtInstr ==
  ASSUME ModInv, NEW op, At(op)
  PROVE  /\ status = "running" /\ cur \in Threads /\ cur.code \in Text
         /\ Ready(cur, allModules, failed)
         /\ cur.module \in DOMAIN allModules
         /\ cur.pc <= Len(cur.code) /\ cur.pc \in 1..Len(cur.code)
         /\ instr \in Instr /\ instr = cur.code[cur.pc] /\ instr.op = op
         /\ Defines(instr) \/ Uses(instr) => instr.var \in DOMAIN allModules[cur.module]
         /\ instr.op = "get" => instr.from \in DOMAIN allModules
<1>1. Types /\ ThreadsReady /\ status = "running"
  BY DEF ModInv, At
<1>2. cur \in Threads /\ Len(running) \in Nat \ {0} /\ cur = running[Len(running)]
  BY <1>1, LastThread DEF Types
<1>3. Ready(cur, allModules, failed)
  BY <1>1, <1>2 DEF ThreadsReady
<1>4. cur.code \in Text /\ cur.code \in Seq(Instr) /\ Len(cur.code) \in Nat /\ cur.pc \in Nat \ {0}
  BY <1>2, TextAssumption, LenProperties DEF Threads
<1>5. /\ cur.pc <= Len(cur.code) /\ cur.pc \in 1..Len(cur.code)
      /\ instr = cur.code[cur.pc] /\ instr.op = op /\ instr \in Instr
  BY <1>4, ElementOfSeq DEF At, instr
<1>6. Defines(instr) \/ Uses(instr) => instr.var \in DOMAIN allModules[cur.module]
  BY <1>3, <1>5 DEF Ready
<1>7. ASSUME instr.op = "get" PROVE instr.from \in DOMAIN allModules
  <2>1. PICK j \in 1..(cur.pc - 1) : cur.code[j].op = "import" /\ cur.code[j].from = instr.from
    BY <1>4, <1>5, <1>7, TextAssumption
  <2> QED
    BY <1>3, <2>1 DEF Ready
<1>8. cur.module \in DOMAIN allModules
  BY <1>3 DEF Ready
<1> QED
  BY <1>1, <1>2, <1>3, <1>4, <1>5, <1>6, <1>7, <1>8

LEMMA DefineStep == ASSUME ModInv, Define PROVE ModInv'
<1> DEFINE m == cur.module
           x == instr.var
           v == instr.value
<1>1. At("var")
  BY DEF Define
<1>2. /\ status = "running" /\ cur \in Threads /\ Ready(cur, allModules, failed)
      /\ m \in DOMAIN allModules /\ cur.pc <= Len(cur.code)
      /\ instr \in Instr /\ instr = cur.code[cur.pc] /\ instr.op = "var"
      /\ x \in DOMAIN allModules[m]
  BY <1>1, AtInstr DEF Defines
<1>3. v \in Values \ {"line"}
  BY <1>2, InstrFields DEF Values
<1>4. allModules' = [allModules EXCEPT ![m][x] = v]
  BY DEF Define, Assigned
<1>5. allModules \in ModuleTables /\ failed \subseteq {"missing", "null"}
  BY DEF ModInv, Types
<1> HIDE DEF m, x, v
<1>6. /\ allModules' \in ModuleTables /\ DOMAIN allModules' = DOMAIN allModules
      /\ Grows(allModules, allModules')
  BY <1>2, <1>3, <1>4, <1>5, AssignKeepsTables
<1>7. Ready(cur, allModules', failed)
  BY <1>2, <1>6, StaysReady
<1>8. /\ Advanced(cur) \in Threads /\ Advanced(cur).module = cur.module
      /\ Ready(Advanced(cur), allModules', failed)
  BY <1>2, <1>7, AdvancedReady
<1>9. /\ running' = Replaced(Advanced(cur)) /\ last' = NothingRead
      /\ UNCHANGED <<lines, status, runs, finished, failed>>
  BY DEF Define, Keep, log
<1> QED
  BY <1>2, <1>5, <1>6, <1>8, <1>9, GoesOn DEF NothingRead

LEMMA UseStep == ASSUME ModInv, Use PROVE ModInv'
<1>1. At("use")
  BY DEF Use
<1>2. /\ status = "running" /\ cur \in Threads /\ Ready(cur, allModules, failed)
      /\ cur.module \in DOMAIN allModules /\ cur.pc <= Len(cur.code)
      /\ instr = cur.code[cur.pc] /\ instr.op = "use"
      /\ instr.var \in DOMAIN allModules[cur.module]
  BY <1>1, AtInstr DEF Uses
<1>3. allModules \in ModuleTables /\ failed \subseteq {"missing", "null"}
  BY DEF ModInv, Types
<1>4. allModules[cur.module][instr.var] \in Values \ {"line"}
  BY <1>2, <1>3, TablesOf DEF SoundTables
<1>5. /\ Advanced(cur) \in Threads /\ Advanced(cur).module = cur.module
      /\ Ready(Advanced(cur), allModules, failed)
  BY <1>2, AdvancedReady
<1>6. /\ running' = Replaced(Advanced(cur))
      /\ UNCHANGED <<allModules, lines, status, runs, finished, failed>>
  BY DEF Use, Keep, log
<1>7. last'.value # "line" /\ last'.op = "use"
  BY <1>4 DEF Use, NothingRead
<1>8. Grows(allModules, allModules')
  BY <1>6 DEF Grows
<1> QED
  BY <1>2, <1>3, <1>5, <1>6, <1>7, <1>8, GoesOn

LEMMA ImportAgainStep == ASSUME ModInv, ImportAgain PROVE ModInv'
<1>1. At("import") /\ instr.from \in DOMAIN allModules
  BY DEF ImportAgain, IsLoaded
<1>2. /\ status = "running" /\ cur \in Threads /\ Ready(cur, allModules, failed)
      /\ cur.pc <= Len(cur.code) /\ instr = cur.code[cur.pc]
  BY <1>1, AtInstr
<1>3. allModules \in ModuleTables /\ failed \subseteq {"missing", "null"}
  BY DEF ModInv, Types
<1>4. /\ Advanced(cur) \in Threads /\ Advanced(cur).module = cur.module
      /\ Ready(Advanced(cur), allModules, failed)
  BY <1>1, <1>2, AdvancedReady
<1>5. /\ running' = Replaced(Advanced(cur)) /\ last' = NothingRead
      /\ UNCHANGED <<allModules, lines, status, runs, finished, failed>>
  BY DEF ImportAgain, Keep, log
<1>6. Grows(allModules, allModules')
  BY <1>5 DEF Grows
<1> QED
  BY <1>2, <1>3, <1>4, <1>5, <1>6, GoesOn DEF NothingRead

\* The compiled code of a new module does not run when an error was recorded before.
LEMMA ImportBlockedStep ==
  ASSUME ModInv, NEW text \in Text, ImportBlocked(text) PROVE ModInv'
<1> DEFINE m == instr.from
<1>1. At("import") /\ m \notin DOMAIN allModules /\ cur.error /\ Compiles(TableOf(m), text)
  BY DEF ImportBlocked, IsLoaded, Blocked
<1>2. /\ status = "running" /\ cur \in Threads /\ Ready(cur, allModules, failed)
      /\ cur.pc <= Len(cur.code) /\ instr = cur.code[cur.pc] /\ m \in Module
  <2>1. instr \in Instr /\ instr.op = "import"
    BY <1>1, AtInstr
  <2>2. m \in Module
    BY <2>1, InstrFields DEF Module
  <2> QED
    BY <1>1, <2>2, AtInstr
<1>3. allModules \in ModuleTables /\ failed \subseteq {"missing", "null"}
  BY DEF ModInv, Types
<1>4. allModules' = Loaded(m, text)
  BY DEF ImportBlocked
<1>5. /\ allModules' \in ModuleTables /\ Grows(allModules, allModules')
      /\ m \in DOMAIN allModules'
  BY <1>1, <1>2, <1>3, <1>4, LoadKeepsTables
<1>6. Ready(cur, allModules', failed)
  BY <1>2, <1>5, StaysReady
<1> DEFINE next == Advanced(cur)
           th == [next EXCEPT !.stray = @ + 1]
<1>7. next \in Threads /\ next.module = cur.module /\ Ready(next, allModules', failed)
  BY <1>2, <1>5, <1>6, AdvancedReady
<1>8. "missing" \in failed
  BY <1>1, <1>2 DEF Ready
<1>9. /\ running' = Replaced(th) /\ last' = NothingRead
      /\ UNCHANGED <<lines, status, runs, finished, failed>>
  BY DEF ImportBlocked, Keep, log
<1>12. next.code = cur.code /\ next.pc = cur.pc + 1 /\ next.stray = cur.stray /\ cur.stray \in Nat
  BY <1>2 DEF Advanced, Threads
<1> HIDE DEF next
<1>10. /\ th \in Threads /\ th.module = next.module /\ th.code = next.code /\ th.pc = next.pc
       /\ th.error = next.error /\ th.stray = next.stray + 1
  BY <1>7 DEF Threads
<1> HIDE DEF th, m
<1>13. th.stray <= 2 * Cardinality(Executed(th, "get")) + Cardinality(Executed(th, "import"))
  <2>1. cur.stray <= 2 * Cardinality(Executed(cur, "get")) + Cardinality(Executed(cur, "import"))
    BY <1>2 DEF Ready
  <2>2. cur.code[cur.pc].op = "import"
    BY <1>1, AtInstr
  <2>3. /\ Cardinality(Executed(cur, "get")) \in Nat /\ Cardinality(Executed(cur, "import")) \in Nat
        /\ Cardinality(Executed(th, "get")) = Cardinality(Executed(cur, "get"))
        /\ Cardinality(Executed(th, "import")) = Cardinality(Executed(cur, "import")) + 1
    BY <1>2, <1>10, <1>12, <2>2, ExecutedOneMore
  <2> QED
    BY <1>10, <1>12, <2>1, <2>3
<1>14. Executed(th, "get") # {}
  <2>1. Executed(next, "get") # {}
    BY <1>1, <1>2, <1>7, <1>12, ExecutedOneMore DEF Ready
  <2> QED
    BY <1>10, <2>1 DEF Executed
<1>11. Ready(th, allModules', failed)
  BY <1>7, <1>8, <1>10, <1>13, <1>14 DEF Ready
<1> QED
  BY <1>2, <1>3, <1>5, <1>7, <1>8, <1>9, <1>10, <1>11, GoesOn DEF NothingRead

\* A variable is imported: into the variable of the importing module goes what was read, or
\* what is left on the stack.
LEMMA GetSteps == ASSUME ModInv, Get \/ GetNull \/ GetMissing PROVE ModInv'
<1> DEFINE from == instr.from
           x == instr.var
           m == cur.module
           next == Advanced(cur)
<1>1. At("get")
  BY DEF Get, GetNull, GetMissing
<1>2. /\ status = "running" /\ cur \in Threads /\ Ready(cur, allModules, failed)
      /\ m \in DOMAIN allModules /\ cur.pc <= Len(cur.code)
      /\ instr \in Instr /\ instr = cur.code[cur.pc] /\ instr.op = "get"
      /\ x \in DOMAIN allModules[m] /\ from \in DOMAIN allModules
  BY <1>1, AtInstr DEF Defines
<1>3. /\ allModules \in ModuleTables /\ failed \subseteq {"missing", "null"}
      /\ FileRuns
  BY DEF ModInv, Types
<1>14. next.code = cur.code /\ next.pc = cur.pc + 1 /\ next.stray = cur.stray /\ cur.stray \in Nat
  BY <1>2 DEF Advanced, Threads
<1>4. /\ next \in Threads /\ next.module = m /\ next.error = cur.error
      /\ \A f : Ready(cur, allModules, f) => Ready(next, allModules, f)
  <2>1. next.error = cur.error
    BY <1>2 DEF Threads, Advanced
  <2> QED
    BY <1>2, <2>1, AdvancedReady
<1>5. from \in File /\ ("missing" \notin failed => from \in finished \union Waiting)
  BY <1>2, <1>3, InstrFields DEF FileRuns
<1>6. \A v \in Values \ {"line"} : Assigned(x, v) = [allModules EXCEPT ![m][x] = v]
  BY DEF Assigned
<1>7. UNCHANGED <<lines, status, runs, finished>>
  BY DEF Get, GetNull, GetMissing, Keep, log
<1>8. \A v \in DOMAIN allModules[from] : allModules[from][v] \in Values \ {"line"}
  BY <1>2, <1>3, TablesOf DEF SoundTables
<1> HIDE DEF from, x, m, next
\* What the three steps have in common.
<1>9. ASSUME NEW v \in Values \ {"line"}, allModules' = Assigned(x, v), NEW th \in Threads,
             th.module = m, running' = Replaced(th), failed \subseteq failed',
             failed' \subseteq {"missing", "null"}, Ready(th, allModules, failed'),
             last'.value # "line", last'.op = "get" => last'.got # "line" /\ last'.from = from
      PROVE  ModInv'
  <2>1. allModules' = [allModules EXCEPT ![m][x] = v]
    BY <1>6, <1>9
  <2>2. /\ allModules' \in ModuleTables /\ DOMAIN allModules' = DOMAIN allModules
        /\ Grows(allModules, allModules')
    BY <1>2, <1>3, <2>1, AssignKeepsTables
  <2>3. Ready(th, allModules', failed')
    BY <1>9, <2>2, StaysReady
  <2> QED
    BY <1>2, <1>5, <1>7, <1>9, <2>2, <2>3, GoesOn DEF m
\* What two of them leave: two slots more, and perhaps an error.
<1>10. ASSUME NEW g \in SUBSET {"missing", "null"}, g # {}, failed \subseteq g, NEW th \in Threads,
              th.module = next.module, th.code = next.code, th.pc = next.pc,
              th.stray = next.stray + 2, th.error => "missing" \in g
       PROVE  Ready(th, allModules, g)
  <2>1. Ready(next, allModules, g)
    BY <1>2, <1>4, <1>10, StaysReady DEF Grows
  <2>4. /\ Executed(th, "get") = Executed(cur, "get") \union {cur.pc}
        /\ Cardinality(Executed(cur, "get")) \in Nat /\ Cardinality(Executed(cur, "import")) \in Nat
        /\ Cardinality(Executed(th, "get")) = Cardinality(Executed(cur, "get")) + 1
        /\ Cardinality(Executed(th, "import")) = Cardinality(Executed(cur, "import"))
    BY <1>2, <1>10, <1>14, ExecutedOneMore
  <2>5. th.stray <= 2 * Cardinality(Executed(th, "get")) + Cardinality(Executed(th, "import"))
    <3>1. cur.stray <= 2 * Cardinality(Executed(cur, "get")) + Cardinality(Executed(cur, "import"))
      BY <1>2 DEF Ready
    <3> QED
      BY <1>10, <1>14, <2>4, <3>1
  <2>3. Executed(th, "get") # {}
    BY <2>4
  <2> QED
    BY <1>10, <2>1, <2>3, <2>5 DEF Ready
<1>11. CASE Get
  <2> DEFINE v == allModules[from][x]
  <2>1. /\ x \in DOMAIN allModules[from] /\ allModules' = Assigned(x, v)
        /\ running' = Replaced(next) /\ last' = ReadValue(v, v) /\ failed' = failed
    BY <1>11 DEF Get, log, from, x, next
  <2>2. v \in Values \ {"line"}
    BY <1>8, <2>1
  <2> HIDE DEF v
  <2>3. last'.value = v /\ last'.got = v /\ last'.from = from
    BY <2>1 DEF ReadValue, from
  <2> QED
    BY <1>2, <1>3, <1>4, <1>9, <2>1, <2>2, <2>3
<1>12. CASE GetNull
  <2> DEFINE v == IF cur.error THEN "null" ELSE "name"
             th == [next EXCEPT !.stray = @ + 2]
             g == failed \union {"null"}
  <2>1. /\ x \in DOMAIN allModules[from] /\ IsNull(allModules[from][x])
        /\ allModules' = Assigned(x, v) /\ running' = Replaced(th)
        /\ last' = ReadValue(allModules[from][x], v)
        /\ failed' = IF allModules[from][x] = "null" THEN failed \union {"null"} ELSE failed
    BY <1>12 DEF GetNull, from, x, next
  <2>2. failed' = g
    BY <2>1 DEF IsNull
  <2>3. v \in Values \ {"line"}
    BY DEF Values
  <2>4. last'.value = "null" /\ last'.got = v /\ last'.from = from
    BY <2>1 DEF ReadValue, from, IsNull
  <2>5. /\ th \in Threads /\ th.module = next.module /\ th.code = next.code /\ th.pc = next.pc
        /\ th.stray = next.stray + 2 /\ th.error = cur.error
    BY <1>4 DEF Threads
  <2>6. cur.error \in BOOLEAN /\ (cur.error => "missing" \in g)
    BY <1>2 DEF Ready, Threads
  <2>7. g \in SUBSET {"missing", "null"} /\ g # {} /\ failed \subseteq g
    BY <1>3
  <2> HIDE DEF v, th, g
  <2>8. th.module = m /\ Ready(th, allModules, g)
    BY <1>4, <1>10, <2>5, <2>6, <2>7
  <2> QED
    BY <1>9, <2>1, <2>2, <2>3, <2>4, <2>5, <2>7, <2>8
<1>13. CASE GetMissing
  <2> DEFINE th == [next EXCEPT !.stray = @ + 2, !.error = TRUE]
             g == failed \union {"missing"}
  <2>1. /\ allModules' = Assigned(x, "null") /\ running' = Replaced(th)
        /\ last' = NothingRead /\ failed' = g
    BY <1>13 DEF GetMissing, x, next
  <2>2. "null" \in Values \ {"line"}
    BY DEF Values
  <2>3. g \in SUBSET {"missing", "null"} /\ g # {} /\ failed \subseteq g /\ "missing" \in g
    BY <1>3
  <2>6. /\ th \in Threads /\ th.module = next.module /\ th.code = next.code /\ th.pc = next.pc
        /\ th.stray = next.stray + 2 /\ th.error = TRUE
    <3> DEFINE left == [next EXCEPT !.stray = @ + 2]
    <3>1. /\ left \in Threads /\ left.module = next.module /\ left.code = next.code
          /\ left.pc = next.pc /\ left.stray = next.stray + 2
      BY <1>4 DEF Threads
    <3>2. th = [left EXCEPT !.error = TRUE]
      BY <1>4 DEF Threads
    <3> HIDE DEF left, th
    <3> QED
      BY <3>1, <3>2 DEF Threads
  <2> HIDE DEF g, th
  <2>5. th.module = m /\ Ready(th, allModules, g)
    BY <1>4, <1>10, <2>3, <2>6
  <2> QED
    BY <1>9, <2>1, <2>2, <2>3, <2>5, <2>6 DEF NothingRead
<1> QED
  BY <1>11, <1>12, <1>13

\* A new thread, ready for the code that was compiled.
LEMMA NewThread ==
  ASSUME allModules \in ModuleTables, NEW m \in Module, NEW text \in Text,
         Compiles(TableOf(m), text), NEW g
  PROVE  /\ ThreadOf(m, text) \in Threads /\ ThreadOf(m, text).module = m
         /\ Ready(ThreadOf(m, text), Loaded(m, text), g)
<1> DEFINE t == ThreadOf(m, text)
<1>1. /\ t \in Threads /\ t.module = m /\ t.code = text /\ t.pc = 1
      /\ t.error = FALSE /\ t.stray = 0
  BY DEF Threads, ThreadOf
<1>2. Len(text) \in Nat
  BY TextAssumption, LenProperties
<1>3. /\ m \in DOMAIN Loaded(m, text)
      /\ \A j \in 1..Len(text) : Defines(text[j]) \/ Uses(text[j])
           => text[j].var \in DOMAIN Loaded(m, text)[m]
  BY LoadKeepsTables
<1> HIDE DEF t
<1>5. \A op : Executed(t, op) = {}
  BY <1>1 DEF Executed
<1>6. Cardinality({}) = 0
  BY FS_EmptySet
<1>7. t.stray <= 2 * Cardinality(Executed(t, "get")) + Cardinality(Executed(t, "import"))
  BY <1>1, <1>5, <1>6
<1>8. ~(t.error \/ t.stray > 0) /\ ~t.error
  BY <1>1
<1>4. Ready(t, Loaded(m, text), g)
  BY <1>1, <1>2, <1>3, <1>7, <1>8 DEF Ready
<1> QED
  BY <1>1, <1>4 DEF t

LEMMA ImportStep == ASSUME ModInv, NEW text \in Text, Import(text) PROVE ModInv'
<1> DEFINE m == instr.from
           next == Advanced(cur)
           new == ThreadOf(m, text)
           n == Len(running)
           waiting == Replaced(next)
<1>1. /\ At("import") /\ m \notin DOMAIN allModules /\ Compiles(TableOf(m), text)
      /\ allModules' = Loaded(m, text) /\ running' = Append(waiting, new)
      /\ runs' = [runs EXCEPT ![m] = @ + 1] /\ last' = NothingRead
      /\ UNCHANGED <<lines, status, finished, failed>>
  BY DEF Import, IsLoaded, Keep
<1>2. /\ status = "running" /\ cur \in Threads /\ Ready(cur, allModules, failed)
      /\ cur.pc <= Len(cur.code) /\ instr = cur.code[cur.pc] /\ m \in File /\ m \in Module
  <2>1. instr \in Instr /\ instr.op = "import"
    BY <1>1, AtInstr
  <2>2. m \in File /\ m \in Module
    BY <2>1, InstrFields DEF Module
  <2> QED
    BY <1>1, <2>2, AtInstr
<1>3. Types /\ ThreadsReady /\ Distinct /\ FileRuns
  BY DEF ModInv
<1>4. /\ allModules' \in ModuleTables /\ Grows(allModules, allModules')
      /\ DOMAIN allModules' = DOMAIN allModules \union {m}
  BY <1>1, <1>2, <1>3, LoadKeepsTables DEF Types
<1>5. new \in Threads /\ new.module = m /\ Ready(new, allModules', failed)
  BY <1>1, <1>2, <1>3, NewThread DEF Types
<1>6. Ready(cur, allModules', failed)
  BY <1>2, <1>4, StaysReady
<1>7. next \in Threads /\ next.module = cur.module /\ Ready(next, allModules', failed)
  BY <1>2, <1>4, <1>6, AdvancedReady
<1>8. /\ n \in Nat \ {0} /\ cur = running[n]
      /\ waiting \in Seq(Threads) /\ Len(waiting) = n /\ waiting[n] = next
      /\ \A i \in 1..(n - 1) : waiting[i] = running[i]
  BY <1>2, <1>3, <1>7, LastThread DEF Types
<1> HIDE DEF m, next, new, n, waiting
<1>9. /\ running' \in Seq(Threads) /\ Len(running') = n + 1
      /\ \A i \in 1..(n - 1) : running'[i] = running[i]
      /\ running'[n] = next /\ running'[n + 1] = new
  <2>1. /\ running' \in Seq(Threads) /\ Len(running') = n + 1
        /\ \A i \in 1..n : running'[i] = waiting[i]
        /\ running'[n + 1] = new
    BY <1>1, <1>5, <1>8
  <2>2. n \in 1..n /\ \A i \in 1..(n - 1) : i \in 1..n
    BY <1>8
  <2> QED
    BY <1>8, <2>1, <2>2
<1>10. \A i \in 1..(n + 1) : i = n + 1 \/ i = n \/ i \in 1..(n - 1)
  BY <1>8
<1>11. \A i \in 1..n : i \in 1..(n + 1) /\ running'[i].module = running[i].module
  BY <1>7, <1>8, <1>9
<1>12. \A i \in 1..n : running[i].module \in DOMAIN allModules /\ running[i].module # m
  <2>1. \A i \in 1..n : Ready(running[i], allModules, failed)
    BY <1>3 DEF ThreadsReady, n
  <2> QED
    BY <1>1, <2>1 DEF Ready
<1>13. Types'
  <2>1. running' # <<>>
    BY <1>8, <1>9, EmptySeq
  <2> QED
    BY <1>1, <1>2, <1>3, <1>4, <1>9, <2>1 DEF Types
<1>14. ThreadsReady'
  <2>1. \A i \in 1..n : Ready(running[i], allModules, failed)
    BY <1>3 DEF ThreadsReady, n
  <2>2. \A i \in 1..(n - 1) : i \in 1..n
    BY <1>8
  <2>3. \A i \in 1..(n - 1) : Ready(running'[i], allModules', failed)
    BY <1>4, <1>9, <2>1, <2>2, StaysReady
  <2>4. \A i \in 1..(n + 1) : Ready(running'[i], allModules', failed)
    BY <1>5, <1>7, <1>9, <1>10, <2>3
  <2> QED
    BY <1>1, <1>9, <2>4 DEF ThreadsReady
<1>15. Distinct'
  <2>1. \A i, j \in 1..n : running[i].module = running[j].module => i = j
    BY <1>3 DEF Distinct, n
  <2>2. \A i \in 1..(n + 1) : i = n + 1 \/ i \in 1..n
    BY <1>8
  <2>3. \A i, j \in 1..(n + 1) : running'[i].module = running'[j].module => i = j
    BY <1>5, <1>9, <1>11, <1>12, <2>1, <2>2
  <2> QED
    BY <1>9, <2>3 DEF Distinct
<1>19. WaitingChain'
  <2>1. WaitingChain /\ Len(running) = n
    BY DEF ModInv, n
  <2>2. running'[1].module = Cli
    <3>1. running # <<>> /\ 1 \in 1..n
      BY <1>2, <1>3, <1>8 DEF Types
    <3> QED
      BY <1>11, <2>1, <3>1 DEF WaitingChain
  <2>3. ASSUME NEW i \in 1..(n - 1)
        PROVE  /\ running'[i].pc > 1
               /\ running'[i].code[running'[i].pc - 1].op = "import"
               /\ running'[i].code[running'[i].pc - 1].from = running'[i + 1].module
    <3>1. running'[i] = running[i] /\ i + 1 \in 1..n
      BY <1>8, <1>9
    <3>2. running'[i + 1].module = running[i + 1].module
      BY <1>11, <3>1
    <3> QED
      BY <2>1, <3>1, <3>2 DEF WaitingChain
  <2>4. /\ next.pc > 1 /\ next.code[next.pc - 1].op = "import"
        /\ next.code[next.pc - 1].from = m
    <3>1. next.code = cur.code /\ next.pc = cur.pc + 1 /\ cur.pc \in Nat \ {0}
      BY <1>2 DEF next, Advanced, Threads
    <3>2. instr.op = "import"
      BY <1>1, AtInstr
    <3> QED
      BY <1>2, <3>1, <3>2 DEF m
  <2>5. \A i \in 1..n : i = n \/ i \in 1..(n - 1)
    BY <1>8
  <2>6. ASSUME NEW i \in 1..n
        PROVE  /\ running'[i].pc > 1
               /\ running'[i].code[running'[i].pc - 1].op = "import"
               /\ running'[i].code[running'[i].pc - 1].from = running'[i + 1].module
    BY <1>5, <1>9, <2>3, <2>4, <2>5
  <2>7. (n + 1) - 1 = n
    BY <1>8
  <2> QED
    BY <1>9, <2>2, <2>6, <2>7 DEF WaitingChain
<1>16. Waiting \union {m} \subseteq Waiting'
  <2>1. n + 1 \in 1..(n + 1)
    BY <1>8
  <2>2. m \in Waiting'
    BY <1>5, <1>9, <2>1 DEF Waiting
  <2>3. \A i \in 1..n : running[i].module \in Waiting'
    BY <1>9, <1>11 DEF Waiting
  <2> QED
    BY <2>2, <2>3 DEF Waiting, n
<1>17. FileRuns'
  <2>1. runs \in [Module -> Nat]
    BY <1>3 DEF Types
  <2>2. runs'[m] = runs[m] + 1 /\ \A k \in File \ {m} : runs'[k] = runs[k]
    BY <1>1, <1>2, <2>1 DEF Module
  <2>3. runs[m] = 0
    BY <1>1, <1>2, <1>3 DEF FileRuns, m
  <2>4. ASSUME NEW k \in File
        PROVE  /\ k \notin DOMAIN allModules' => runs'[k] = 0
               /\ runs'[k] <= 1
               /\ k \in DOMAIN allModules' /\ "missing" \notin failed'
                    => runs'[k] = 1 /\ k \in finished' \union Waiting'
    <3>1. CASE k = m
      BY <1>4, <1>16, <2>2, <2>3, <3>1
    <3>2. CASE k # m
      BY <1>1, <1>3, <1>4, <1>16, <2>2, <2>4, <3>2 DEF FileRuns
    <3> QED
      BY <3>1, <3>2
  <2> QED
    BY <2>4 DEF FileRuns
<1>18. LastRead'
  BY <1>1 DEF LastRead, NothingRead
<1> QED
  BY <1>13, <1>14, <1>15, <1>17, <1>18, <1>19 DEF ModInv

LEMMA ExecuteStep == ASSUME ModInv, NEW text \in Text, Execute(text) PROVE ModInv'
<1> DEFINE new == ThreadOf(Cli, text)
<1>1. /\ status = "idle" /\ lines < MaxLines /\ Compiles(TableOf(Cli), text)
      /\ allModules' = Loaded(Cli, text) /\ running' = <<new>> /\ status' = "running"
      /\ runs' = [runs EXCEPT ![Cli] = @ + 1] /\ last' = NothingRead
      /\ lines' = lines + 1 /\ UNCHANGED <<finished, failed>>
  BY DEF Execute
<1>2. Types /\ FileRuns /\ Cli \in Module
  BY DEF ModInv, Module
<1>3. /\ allModules' \in ModuleTables /\ Grows(allModules, allModules')
      /\ DOMAIN allModules' = DOMAIN allModules \union {Cli}
  BY <1>1, <1>2, LoadKeepsTables DEF Types
<1>4. new \in Threads /\ new.module = Cli /\ Ready(new, allModules', failed)
  BY <1>1, <1>2, NewThread DEF Types
<1> HIDE DEF new
<1>5. running' \in Seq(Threads) /\ Len(running') = 1 /\ running'[1] = new /\ running' # <<>>
  BY <1>1, <1>4
<1>6. Types'
  BY <1>1, <1>2, <1>3, <1>5, ModulesAssumption DEF Types
<1>7. ThreadsReady' /\ Distinct' /\ WaitingChain'
  BY <1>1, <1>4, <1>5 DEF ThreadsReady, Distinct, WaitingChain
<1>8. FileRuns'
  <2>1. \A k \in File : k # Cli /\ runs'[k] = runs[k]
    BY <1>1, <1>2, ModulesAssumption DEF Types, Module
  <2>2. \A k \in File : k \in DOMAIN allModules' <=> k \in DOMAIN allModules
    BY <1>3, <2>1
  <2>3. Waiting = {}
    <3>1. Len(running) = 0
      BY <1>1, <1>2 DEF Types
    <3> QED
      BY <3>1 DEF Waiting
  <2>4. \A k \in File :
          /\ k \notin DOMAIN allModules => runs[k] = 0
          /\ runs[k] <= 1
          /\ k \in DOMAIN allModules /\ "missing" \notin failed => runs[k] = 1 /\ k \in finished
    BY <1>2, <2>3 DEF FileRuns
  <2>5. \A k \in File :
          /\ k \notin DOMAIN allModules' => runs'[k] = 0
          /\ runs'[k] <= 1
          /\ k \in DOMAIN allModules' /\ "missing" \notin failed' => runs'[k] = 1 /\ k \in finished'
    BY <1>1, <2>1, <2>2, <2>4
  <2> QED
    BY <2>5 DEF FileRuns
<1>9. LastRead'
  BY <1>1 DEF LastRead, NothingRead
<1> QED
  BY <1>6, <1>7, <1>8, <1>9 DEF ModInv

LEMMA ReturnStep == ASSUME ModInv, Return PROVE ModInv'
<1> DEFINE n == Len(running)
<1>1. /\ status = "running" /\ running' = Front(running)
      /\ finished' = finished \union {cur.module}
      /\ status' = IF Len(running) = 1 THEN "idle" ELSE status
      /\ last' = NothingRead /\ UNCHANGED <<allModules, lines, runs, failed>>
  BY DEF Return
<1>2. Types /\ ThreadsReady /\ Distinct /\ FileRuns
  BY DEF ModInv
<1>3. /\ n \in Nat \ {0} /\ cur = running[n] /\ cur \in Threads
      /\ running' \in Seq(Threads) /\ Len(running') = n - 1
      /\ \A i \in 1..(n - 1) : running'[i] = running[i]
  BY <1>1, <1>2, LastThread DEF Types
<1>4. cur.module \in Module
  BY <1>3 DEF Threads
<1> HIDE DEF n
<1>5. \A i \in 1..n : i = n \/ i \in 1..(n - 1)
  BY <1>3
<1>6. \A i \in 1..(n - 1) : i \in 1..n
  BY <1>3
<1>7. Types'
  <2>1. status' = "idle" => running' = <<>>
    <3>1. ASSUME status' = "idle" PROVE n = 1
      BY <1>1, <3>1 DEF n
    <3>2. ASSUME n = 1 PROVE running' = <<>>
      BY <1>3, <3>2, EmptySeq
    <3> QED
      BY <3>1, <3>2
  <2>2. status' = "running" => running' # <<>>
    <3>1. ASSUME status' = "running" PROVE n # 1
      BY <1>1, <3>1 DEF n
    <3>2. ASSUME n # 1 PROVE running' # <<>>
      BY <1>3, <3>2, EmptySeq
    <3> QED
      BY <3>1, <3>2
  <2>3. status' \in {"idle", "running", "error"}
    BY <1>1
  <2> QED
    BY <1>1, <1>2, <1>3, <1>4, <2>1, <2>2, <2>3 DEF Types
<1>8. ThreadsReady' /\ Distinct'
  BY <1>1, <1>2, <1>3, <1>6 DEF ThreadsReady, Distinct, n
<1>12. WaitingChain'
  <2>1. WaitingChain /\ Len(running) = n
    BY DEF ModInv, n
  <2>2. ASSUME running' # <<>> PROVE running'[1].module = Cli
    <3>1. n - 1 # 0
      BY <1>3, <2>2, EmptySeq
    <3>2. 1 \in 1..(n - 1) /\ running # <<>>
      BY <1>2, <1>1, <1>3, <3>1 DEF Types
    <3> QED
      BY <1>3, <2>1, <3>2 DEF WaitingChain
  <2>3. ASSUME NEW i \in 1..(n - 1) - 1
        PROVE  /\ running'[i].pc > 1
               /\ running'[i].code[running'[i].pc - 1].op = "import"
               /\ running'[i].code[running'[i].pc - 1].from = running'[i + 1].module
    <3>1. i \in 1..(n - 1) /\ i + 1 \in 1..(n - 1)
      BY <1>3
    <3> QED
      BY <1>3, <2>1, <3>1 DEF WaitingChain
  <2> QED
    BY <1>3, <2>2, <2>3 DEF WaitingChain
<1>9. finished \union Waiting = finished' \union Waiting'
  <2>1. Waiting = Waiting' \union {cur.module}
    <3>1. ASSUME NEW i \in 1..n PROVE running[i].module \in Waiting' \union {cur.module}
      BY <1>3, <1>5 DEF Waiting
    <3>2. Waiting' \subseteq Waiting
      BY <1>3, <1>6 DEF Waiting, n
    <3>3. cur.module \in Waiting
      BY <1>3 DEF Waiting, n
    <3> QED
      BY <3>1, <3>2, <3>3 DEF Waiting, n
  <2> QED
    BY <1>1, <2>1
<1>10. FileRuns'
  BY <1>1, <1>2, <1>9 DEF FileRuns
<1>11. LastRead'
  BY <1>1 DEF LastRead, NothingRead
<1> QED
  BY <1>7, <1>8, <1>10, <1>11, <1>12 DEF ModInv

\* A source that does not compile ends everything; nothing else changes.
LEMMA FailSteps ==
  ASSUME ModInv, NEW text \in Text, ExecuteFails(text) \/ ImportFails(text) PROVE ModInv'
<1>1. status' = "error" /\ UNCHANGED <<allModules, running, lines, runs, finished, failed, last>>
  BY DEF ExecuteFails, ImportFails, log
<1> QED
  BY <1>1 DEF ModInv, Types, ThreadsReady, Distinct, WaitingChain, FileRuns, LastRead, Waiting

LEMMA ModInvNext == ModInv /\ [Next]_vars => ModInv'
<1> SUFFICES ASSUME ModInv, [Next]_vars PROVE ModInv'
  OBVIOUS
<1>1. CASE \E text \in Text : Execute(text)
  BY <1>1, ExecuteStep
<1>2. CASE \E text \in Text : ExecuteFails(text) \/ ImportFails(text)
  BY <1>2, FailSteps
<1>3. CASE Define
  BY <1>3, DefineStep
<1>4. CASE Use
  BY <1>4, UseStep
<1>5. CASE ImportAgain
  BY <1>5, ImportAgainStep
<1>6. CASE Get \/ GetNull \/ GetMissing
  BY <1>6, GetSteps
<1>7. CASE Return
  BY <1>7, ReturnStep
<1>8. CASE \E text \in Text : Import(text)
  BY <1>8, ImportStep
<1>9. CASE \E text \in Text : ImportBlocked(text)
  BY <1>9, ImportBlockedStep
<1>10. CASE UNCHANGED vars
  BY <1>10 DEF vars, log, ModInv, Types, ThreadsReady, Distinct, WaitingChain, FileRuns, LastRead, Waiting
<1> QED
  BY <1>1, <1>2, <1>3, <1>4, <1>5, <1>6, <1>7, <1>8, <1>9, <1>10 DEF Next, Host, Loop

LEMMA ModInvAlways == Spec => []ModInv
BY ModInvInit, ModInvNext, PTL DEF Spec

-----------------------------------------------------------------------------
(***************************************************************************)
(* What follows from the invariant.                                        *)
(***************************************************************************)

\* However the files import each other: the code of each is started at most once, and
\* when the file is loaded unless an error was recorded before; and no two threads that
\* wait for an import run the code of the same module.
THEOREM FilesRunOnceOnly == Spec => []EachFileOnce
<1>1. ModInv => EachFileOnce
  <2> SUFFICES ASSUME ModInv PROVE EachFileOnce
    OBVIOUS
  <2>1. FilesRunOnce
    BY DEF ModInv, FileRuns, FilesRunOnce
  <2>2. DOMAIN running = 1..Len(running)
    BY LenProperties DEF ModInv, Types
  <2>3. NoModuleAwaitsItself
    BY <2>2 DEF ModInv, Distinct, NoModuleAwaitsItself
  <2> QED
    BY <2>1, <2>3 DEF EachFileOnce
<1> QED
  BY <1>1, ModInvAlways, PTL

\* A variable is imported from a module that has run to its end or waits for this one, and
\* no instruction reads the line number that stands for a variable not yet defined.
THEOREM ReadsAreDefined == Spec => []ImportsAreComputed
<1>1. ModInv => ImportsAreComputed
  <2> SUFFICES ASSUME ModInv PROVE ImportsAreComputed
    OBVIOUS
  <2>1. DOMAIN running = 1..Len(running)
    BY LenProperties DEF ModInv, Types
  <2>2. ImportsFromFinished
    BY <2>1 DEF ModInv, LastRead, Waiting, ImportsFromFinished
  <2>3. LinesNeverRead
    BY DEF ModInv, LastRead, LinesNeverRead
  <2> QED
    BY <2>2, <2>3 DEF ImportsAreComputed
<1> QED
  BY <1>1, ModInvAlways, PTL

\* The variables have their types; the threads of imports in progress form a chain that begins
\* at the prompt's, each having just executed the import of the next one's module; and the
\* error and the leftover slots of a thread come from its own imports of variables.
THEOREM ModuleThreadsOK == Spec => []ThreadsOK
<1>1. ModInv => ThreadsOK
  <2> SUFFICES ASSUME ModInv PROVE ThreadsOK
    OBVIOUS
  <2>1. /\ Types /\ ThreadsReady
        /\ DOMAIN running = 1..Len(running) /\ \A i \in 1..Len(running) : running[i] \in Threads
    BY LenProperties, ElementOfSeq DEF ModInv, Types
  <2>2. WaitingChain /\ LeftoversExplained
    BY <2>1 DEF ModInv, ThreadsReady, Ready, LeftoversExplained
  <2>3. \A m \in DOMAIN allModules : DOMAIN allModules[m] \subseteq Var /\ Range(allModules[m]) \subseteq Values
    BY <2>1, TablesOf DEF Types, SoundTables, Range
  <2>4. DOMAIN allModules \subseteq Module
    BY <2>1, TablesOf DEF Types
  <2>5. ASSUME NEW i \in 1..Len(running)
        PROVE  /\ running[i].module \in Module /\ Range(running[i].code) \subseteq Instr
               /\ running[i].pc \in 1..Len(running[i].code) + 1
               /\ running[i].error \in BOOLEAN /\ running[i].stray \in Nat
    <3> DEFINE t == running[i]
    <3>1. t \in Threads /\ Ready(t, allModules, failed)
      BY <2>1 DEF ThreadsReady
    <3> HIDE DEF t
    <3>2. /\ t.module \in Module /\ t.error \in BOOLEAN /\ t.stray \in Nat
          /\ t.pc \in Nat \ {0} /\ t.code \in Seq(Instr)
      BY <3>1, TextAssumption DEF Threads
    <3>3. Len(t.code) \in Nat /\ DOMAIN t.code = 1..Len(t.code)
      BY <3>2, LenProperties
    <3>4. Range(t.code) \subseteq Instr
      BY <3>2, <3>3, ElementOfSeq DEF Range
    <3>5. t.pc \in 1..Len(t.code) + 1
      BY <3>1, <3>2, <3>3 DEF Ready
    <3> QED
      BY <3>2, <3>4, <3>5 DEF t
  <2>6. status = "running" <=> running # <<>> /\ status # "error"
    BY <2>1 DEF Types
  <2>7. TypeOK
    BY <2>1, <2>3, <2>4, <2>5, <2>6 DEF TypeOK, Types
  <2> QED
    BY <2>2, <2>7 DEF ThreadsOK
<1> QED
  BY <1>1, ModInvAlways, PTL
=============================================================================
