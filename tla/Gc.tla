--------------------------------- MODULE Gc ---------------------------------
(***************************************************************************)
(* The garbage collector (gc/gc.c): a stop-the-world mark and sweep over   *)
(* the list vm->allObjects, started by memManager() or System.gc().        *)
(*                                                                         *)
(* The heap is a graph.  Of an object the model keeps the set of objects   *)
(* it refers to.  Threads and upvalues are told apart: an open upvalue     *)
(* points into the stack of a thread, and a thread heads the list of its   *)
(* open upvalues.  Between collections the running thread works on the     *)
(* objects its stack holds, and native code on what it pushed on           *)
(* vm->tmpRoots.                                                           *)
(***************************************************************************)
EXTENDS Integers, Sequences

CONSTANTS
  Plain,        \* objects of the other types: lists, maps, closures, classes, modules, ...
  Thread,       \* thread objects
  Upvalue,      \* upvalue objects
  Modules,      \* vm->allModules, the map that is never released
  Main,         \* the thread that runs at first
  NULL,
  MaxTmpRoots   \* MAX_TEMP_ROOTS_NUM, the capacity of vm->tmpRoots

Obj == Plain \union Thread \union Upvalue

ASSUME GcAssumption ==
  /\ Modules \in Plain /\ Main \in Thread /\ NULL \notin Obj
  /\ Plain \intersect Thread = {} /\ Plain \intersect Upvalue = {}
  /\ Thread \intersect Upvalue = {}
  /\ MaxTmpRoots \in Nat

VARIABLES
  heap,       \* vm->allObjects
  fields,     \* per object, the objects its fields, elements, slots, frames or closed
              \* value refer to
  caller,     \* per thread, its caller or NULL
  open,       \* per thread, the upvalues on its openUpvalues list
  slotOf,     \* per upvalue, the thread whose stack localVarPtr points into, or NULL
  curThread,  \* vm->curThread
  tmpRoots,   \* vm->tmpRoots[0 .. tmpRootNum - 1]
  phase,      \* "run", "mark" or "sweep"
  dark,       \* the objects with isDark
  grays,      \* vm->grays; the order in which it is emptied is left open
  unswept     \* the part of vm->allObjects the sweep has not visited

mutatorVars == <<heap, fields, caller, open, slotOf, curThread, tmpRoots>>
collectorVars == <<phase, dark, grays, unswept>>
gcVars == <<mutatorVars, collectorVars>>

GcTypeOK ==
  /\ heap \subseteq Obj
  /\ fields \in [Obj -> SUBSET Obj]
  /\ caller \in [Thread -> Thread \union {NULL}]
  /\ open \in [Thread -> SUBSET Upvalue]
  /\ slotOf \in [Upvalue -> Thread \union {NULL}]
  /\ curThread \in Thread
  /\ tmpRoots \in Seq(Obj) /\ Len(tmpRoots) <= MaxTmpRoots
  /\ phase \in {"run", "mark", "sweep"}
  /\ dark \subseteq Obj /\ grays \subseteq Obj /\ unswept \subseteq Obj

GcInit ==
  /\ heap = {Modules, Main}
  /\ fields = [o \in Obj |-> {}]
  /\ caller = [t \in Thread |-> NULL]
  /\ open = [t \in Thread |-> {}]
  /\ slotOf = [u \in Upvalue |-> NULL]
  /\ curThread = Main
  /\ tmpRoots = <<>>
  /\ phase = "run"
  /\ dark = {} /\ grays = {} /\ unswept = {}

\* What startGC() grays first.
Roots == {Modules, curThread} \union {tmpRoots[i] : i \in 1..Len(tmpRoots)}

\* What blackThread() grays besides the slots and the frames.
ThreadLinks(t) == open[t] \union ({caller[t]} \ {NULL})

\* Fault: the caller and the open upvalues of a thread are not traced.
FieldsOnly(o) == fields[o]

\* blackObject(): what is grayed when o is blackened.  An upvalue, open or
\* closed, grays its own value and never the thread it points into.
Children(o) == fields[o] \union (IF o \in Thread THEN ThreadLinks(o) ELSE {})

\* What every set of objects that contains the roots and is closed under
\* Children contains.
Reachable ==
  {o \in Obj : \A S \in SUBSET Obj :
     Roots \subseteq S /\ (\A x \in S : Children(x) \subseteq S) => o \in S}

-----------------------------------------------------------------------------
(* The collector *)

\* startGC() up to the loop that empties the gray list.
StartMark ==
  /\ phase = "run"
  /\ phase' = "mark"
  /\ grays' = Roots \ dark
  /\ dark' = dark \union Roots
  /\ UNCHANGED <<mutatorVars, unswept>>

\* Fault: the children are marked but not queued.
BlackenShallow(o) ==
  /\ phase = "mark"
  /\ o \in grays
  /\ grays' = grays \ {o}
  /\ dark' = dark \union Children(o)
  /\ UNCHANGED <<mutatorVars, phase, unswept>>

\* Fault: children that are dark already are queued again.
BlackenAgain(o) ==
  /\ phase = "mark"
  /\ o \in grays
  /\ grays' = (grays \ {o}) \union Children(o)
  /\ dark' = dark \union Children(o)
  /\ UNCHANGED <<mutatorVars, phase, unswept>>

\* One round of blackObjectInGray(): grayObject() on every child.
Blacken(o) ==
  /\ phase = "mark"
  /\ o \in grays
  /\ grays' = (grays \ {o}) \union (Children(o) \ dark)
  /\ dark' = dark \union Children(o)
  /\ UNCHANGED <<mutatorVars, phase, unswept>>

StartSweep ==
  /\ phase = "mark"
  /\ grays = {}
  /\ phase' = "sweep"
  /\ unswept' = heap
  /\ UNCHANGED <<mutatorVars, dark, grays>>

\* Fault: the mark of a surviving object is not taken back.
SweepKeepsMark(o) ==
  /\ phase = "sweep"
  /\ o \in unswept
  /\ unswept' = unswept \ {o}
  /\ heap' = IF o \in dark THEN heap ELSE heap \ {o}
  /\ UNCHANGED <<fields, caller, open, slotOf, curThread, tmpRoots, phase, dark, grays>>

\* One round of the sweep: a white object is released, a dark one made white.
Sweep(o) ==
  /\ phase = "sweep"
  /\ o \in unswept
  /\ unswept' = unswept \ {o}
  /\ IF o \in dark THEN dark' = dark \ {o} /\ heap' = heap
                   ELSE dark' = dark /\ heap' = heap \ {o}
  /\ UNCHANGED <<fields, caller, open, slotOf, curThread, tmpRoots, phase, grays>>

EndSweep ==
  /\ phase = "sweep"
  /\ unswept = {}
  /\ phase' = "run"
  /\ UNCHANGED <<mutatorVars, dark, grays, unswept>>

Collect ==
  \/ StartMark
  \/ \E o \in Obj : Blacken(o) \/ Sweep(o)
  \/ StartSweep
  \/ EndSweep

-----------------------------------------------------------------------------
(* The running thread and the native code it calls *)

\* What the running thread has on its stack; module variables are always in reach.
Held == fields[curThread] \union {Modules}

Push(o) == fields' = [fields EXCEPT ![curThread] = @ \union {o}]

\* A new object, left on the stack.  newObjX() allocates, and so collects, before
\* the object exists.
Allocate(o) ==
  /\ o \in (Plain \union Thread) \ heap
  /\ heap' = heap \union {o}
  /\ fields' = [fields EXCEPT ![o] = {}, ![curThread] = @ \union {o}]
  /\ caller' = [t \in Thread |-> IF t = o THEN NULL ELSE caller[t]]
  /\ open' = [t \in Thread |-> IF t = o THEN {} ELSE open[t]]
  /\ UNCHANGED <<slotOf, curThread, tmpRoots>>

\* Native code that goes on to allocate keeps a new object on vm->tmpRoots:
\* newObjX() followed by pushTmpRoot().
AllocatePinned(o) ==
  /\ o \in Plain \ heap
  /\ Len(tmpRoots) < MaxTmpRoots
  /\ heap' = heap \union {o}
  /\ fields' = [fields EXCEPT ![o] = {}]
  /\ tmpRoots' = Append(tmpRoots, o)
  /\ UNCHANGED <<caller, open, slotOf, curThread>>

\* Fault: the capacity of vm->tmpRoots is not checked.
PinUnchecked(o) ==
  /\ o \in fields[curThread]
  /\ tmpRoots' = Append(tmpRoots, o)
  /\ UNCHANGED <<heap, fields, caller, open, slotOf, curThread>>

\* pushTmpRoot() on a value that native code is about to move: insertElement(),
\* removeElement(), removeKey(), defineModuleVar().
Pin(o) ==
  /\ o \in fields[curThread]
  /\ Len(tmpRoots) < MaxTmpRoots
  /\ tmpRoots' = Append(tmpRoots, o)
  /\ UNCHANGED <<heap, fields, caller, open, slotOf, curThread>>

\* The object is linked to p, and popTmpRoot() follows.
LinkPinned(p) ==
  /\ tmpRoots # <<>>
  /\ p \in {curThread} \union (Plain \intersect Held)
  /\ fields' = [fields EXCEPT ![p] = @ \union {tmpRoots[Len(tmpRoots)]}]
  /\ tmpRoots' = SubSeq(tmpRoots, 1, Len(tmpRoots) - 1)
  /\ UNCHANGED <<heap, caller, open, slotOf, curThread>>

\* A field, an element or a module variable of p is pushed on the stack.
Load(p, o) ==
  /\ p \in Plain \intersect Held
  /\ o \in fields[p] \ Upvalue
  /\ Push(o)
  /\ UNCHANGED <<heap, caller, open, slotOf, curThread, tmpRoots>>

\* A value of the stack is stored in p.
Store(p, o) ==
  /\ p \in Plain \intersect Held
  /\ o \in fields[curThread]
  /\ fields' = [fields EXCEPT ![p] = @ \union {o}]
  /\ UNCHANGED <<heap, caller, open, slotOf, curThread, tmpRoots>>

\* The last reference to o in p is overwritten, removed or, if p is the running
\* thread, popped.
Erase(p, o) ==
  /\ p \in {curThread} \union (Plain \intersect Held)
  /\ o \in fields[p]
  /\ fields' = [fields EXCEPT ![p] = @ \ {o}]
  /\ UNCHANGED <<heap, caller, open, slotOf, curThread, tmpRoots>>

\* OPCODE_CREATE_CLOSURE with a captured local: createOpenUpvalue() on behalf of
\* a closure that is on the stack already.
Capture(closure, u) ==
  /\ u \in Upvalue \ heap
  /\ closure \in Plain \intersect fields[curThread]
  /\ heap' = heap \union {u}
  /\ fields' = [fields EXCEPT ![u] = {}, ![closure] = @ \union {u}]
  /\ slotOf' = [slotOf EXCEPT ![u] = curThread]
  /\ open' = [open EXCEPT ![curThread] = @ \union {u}]
  /\ UNCHANGED <<caller, curThread, tmpRoots>>

\* closeUpvalue(): the upvalue takes over the value of the slot.
Close(u, value) ==
  /\ u \in open[curThread]
  /\ value \subseteq fields[curThread]
  /\ fields' = [fields EXCEPT ![u] = value]
  /\ slotOf' = [slotOf EXCEPT ![u] = NULL]
  /\ open' = [open EXCEPT ![curThread] = @ \ {u}]
  /\ UNCHANGED <<heap, caller, curThread, tmpRoots>>

\* The values *localVarPtr can have.  The memory of a released thread holds
\* anything; see OpenUpvalueHasSlot for how a program gets there.
ValuesOf(u) == IF slotOf[u] = NULL THEN fields[u]
               ELSE IF slotOf[u] \in heap THEN fields[slotOf[u]] ELSE {}

\* OPCODE_LOAD_UPVALUE
LoadUpvalue(closure, u, o) ==
  /\ closure \in fields[curThread]
  /\ u \in Upvalue \intersect fields[closure]
  /\ o \in ValuesOf(u)
  /\ Push(o)
  /\ UNCHANGED <<heap, caller, open, slotOf, curThread, tmpRoots>>

\* OPCODE_STORE_UPVALUE into a closed upvalue.  Into an open one it changes a
\* stack slot, which Allocate, Load and Erase do as well.
StoreUpvalue(closure, u, o) ==
  /\ closure \in fields[curThread]
  /\ u \in Upvalue \intersect fields[closure]
  /\ slotOf[u] = NULL
  /\ o \in fields[curThread]
  /\ fields' = [fields EXCEPT ![u] = {o}]
  /\ UNCHANGED <<heap, caller, open, slotOf, curThread, tmpRoots>>

\* A thread on the stack is called.
SwitchTo(t) ==
  /\ t \in Thread \intersect fields[curThread]
  /\ t # curThread
  /\ caller[t] = NULL
  /\ curThread' = t
  /\ caller' = [caller EXCEPT ![t] = curThread]
  /\ UNCHANGED <<heap, fields, open, slotOf, tmpRoots>>

\* A thread yields or returns to its caller.
SwitchBack ==
  /\ caller[curThread] # NULL
  /\ curThread' = caller[curThread]
  /\ caller' = [caller EXCEPT ![curThread] = NULL]
  /\ UNCHANGED <<heap, fields, open, slotOf, tmpRoots>>

Mutate ==
  /\ phase = "run"
  /\ \/ \E o \in Obj : Allocate(o) \/ AllocatePinned(o) \/ Pin(o) \/ LinkPinned(o)
     \/ \E p, o \in Obj : Load(p, o) \/ Store(p, o) \/ Erase(p, o)
     \/ \E c \in Plain, u \in Upvalue :
          \/ Capture(c, u)
          \/ \E o \in Obj : LoadUpvalue(c, u, o) \/ StoreUpvalue(c, u, o)
     \/ \E u \in Upvalue, value \in SUBSET Obj : Close(u, value)
     \/ \E t \in Thread : SwitchTo(t)
     \/ SwitchBack
  /\ UNCHANGED collectorVars

GcNext == Mutate \/ Collect

GcSpec == GcInit /\ [][GcNext]_gcVars

\* A collection, once started, is run to its end by the thread that started it.
GcFairSpec == GcSpec /\ WF_gcVars(Collect /\ phase # "run")

-----------------------------------------------------------------------------
(* Properties *)

\* No object of the heap refers to a released one: what the collector releases
\* is out of reach of everything it keeps.
NoDangling ==
  phase = "run" => Roots \subseteq heap /\ \A o \in heap : Children(o) \subseteq heap

\* An object is released only if no script can get at it any more.
LiveSurvives == [][\A o \in heap \ heap' : o \notin Reachable]_gcVars

\* A collection is exact: when the sweep is over the heap consists of the objects
\* scripts can get at, and none of them is still marked (a mark left behind
\* would keep garbage alive in the next collection).
ExactCollection == phase = "sweep" /\ unswept = {} => heap = Reachable /\ dark = {}

\* Every collection comes to an end.
CollectionEnds == (phase # "run") ~> (phase = "run")

\* An open upvalue points to a local variable that exists: to a slot of the
\* stack of a thread that has not been released (obj_fn.h, localVarPtr; not so, since an
\* upvalue keeps no thread).
OpenUpvalueHasSlot ==
  phase = "run" => \A u \in Upvalue \intersect heap : slotOf[u] # NULL => slotOf[u] \in heap
=============================================================================
