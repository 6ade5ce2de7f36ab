--------------------------- MODULE OpenUpvalues ---------------------------
(***************************************************************************)
(* The stacks of threads, the frames on them, and the upvalues by which    *)
(* closures reach variables of frames below or of frames that have         *)
(* returned (vm/vm.c, object/obj_thread.c, object/obj_fn.c).               *)
(*                                                                         *)
(* A pointer is a number: the heap consists of regions of REGION slots,    *)
(* and a stack lies at the beginning of one.  realloc() extends a stack    *)
(* in place or moves it to another region; the region it leaves may be     *)
(* the next one another stack moves to.  What a stack holds above esp      *)
(* counts as unwritten: nothing may read it.  Any thread with a frame may  *)
(* be running: module Threads says which.  Threads with open upvalues are  *)
(* not released here: module Gc says when they are.                        *)
(***************************************************************************)
EXTENDS Integers, Sequences, SequencesExt, FiniteSets

CONSTANTS
  Thread,
  Value,
  Junk,         \* what a slot holds that nobody has written
  Needs,        \* maxStackSlotUsedNum of the functions there are
  Regions,      \* bound: the number of regions of the heap
  REGION,       \* bound: slots of a region
  MaxFrames,    \* bound: frames of a thread
  MaxUpvalues,  \* bound: upvalues ever created
  MaxVars       \* bound: variables and temporaries at a time, those that live on included

ASSUME OpenUpvaluesAssumption ==
  /\ Junk \notin Value
  /\ Needs \subseteq Nat \ {0}
  /\ Regions \in Nat /\ REGION \in Nat /\ MaxFrames \in Nat /\ MaxUpvalues \in Nat /\ MaxVars \in Nat

Address == 0..Regions * REGION - 1
Upvalue == 1..MaxUpvalues
NoClosure == 0
Closed == -1   \* localVarPtr points at closedUpvalue in the upvalue itself
Var == 1..MaxVars

VARIABLES
  mem,           \* the slots of all stacks
  stack,         \* per thread: stack, stackCapacity, esp
  frames,        \* per thread: stackStart, closure, and the needs of its function
  openUpvalues,  \* per thread: its open upvalues, the first one first
  upvalue,       \* the upvalues created: localVarPtr, closedUpvalue
  slots,         \* which variable is in each slot of a thread, from the bottom
  captured       \* which variable each upvalue was created for

memory == <<mem, stack>>
ghosts == <<slots, captured>>
vars == <<memory, frames, openUpvalues, upvalue, ghosts>>

NoStack == [base |-> 0, capacity |-> 0, esp |-> 0]

Init ==
  /\ mem = [a \in Address |-> Junk]
  /\ stack = [t \in Thread |-> NoStack]
  /\ frames = [t \in Thread |-> <<>>]
  /\ openUpvalues = [t \in Thread |-> <<>>]
  /\ upvalue = <<>>
  /\ slots = [t \in Thread |-> <<>>]
  /\ captured = <<>>

Size(t) == stack[t].esp - stack[t].base
Top(t) == Last(frames[t])

\* The variables that a slot or an upvalue holds.
LiveVars == (UNION {ToSet(slots[t]) : t \in Thread}) \union ToSet(captured)
Fresh(live) == CHOOSE x \in Var \ live : \A y \in Var \ live : x <= y
RoomForVar == Var \ LiveVars # {}

InUse(r) == \E t \in Thread : stack[t].capacity > 0 /\ stack[t].base = r * REGION
FreeBases == {r * REGION : r \in {r \in 0..Regions - 1 : ~InUse(r)}}

CeilToPowerOf2(n) == Min({p \in {2 ^ i : i \in 0..n} : p >= n})

-----------------------------------------------------------------------------
(* Threads, calls and returns *)

Frame(start, need, closure) == [start |-> start, need |-> need, closure |-> closure]

Closures == DOMAIN upvalue \union {NoClosure}

\* newObjThread() and primThreadNew(): the function gets a stack, slot 0 is taken.  One
\* free region is as good as another.
NewThread(t, need, c) ==
  /\ stack[t].capacity = 0 /\ RoomForVar
  /\ FreeBases # {} /\ CeilToPowerOf2(need + 1) <= REGION
  /\ \E b \in {Min(FreeBases)}, v \in Value :
       /\ stack' = [stack EXCEPT ![t] = [base |-> b, capacity |-> CeilToPowerOf2(need + 1), esp |-> b + 1]]
       /\ frames' = [frames EXCEPT ![t] = <<Frame(b, need, c)>>]
       /\ mem' = [mem EXCEPT ![b] = v]
  /\ slots' = [slots EXCEPT ![t] = <<Fresh(LiveVars)>>]
  /\ UNCHANGED <<openUpvalues, upvalue, captured>>

\* Fault: the open upvalues stay where they are.
ShiftedFramesOnly(t, offset) == upvalue

\* ensureStack(): the open upvalues of a thread follow its stack.
ShiftedUpvalues(t, offset) ==
  [u \in DOMAIN upvalue |->
     IF u \in ToSet(openUpvalues[t])
     THEN [upvalue[u] EXCEPT !.localVarPtr = @ + offset] ELSE upvalue[u]]

ShiftedFrames(t, offset) ==
  [i \in DOMAIN frames[t] |-> [frames[t][i] EXCEPT !.start = @ + offset]]

\* realloc(): the stack lies at base afterwards, and what was in it has been copied.
Reallocated(t, base, capacity) ==
  LET old == stack[t].base
      Within(a, b, n) == b <= a /\ a < b + n
  IN  [a \in Address |->
         IF Within(a, base, stack[t].capacity) THEN mem[old + a - base]
         ELSE IF Within(a, old, stack[t].capacity) \/ Within(a, base, capacity) THEN Junk
         ELSE mem[a]]

\* Fault: without the slots that are in use already.
CapacityOfFunction(t, need) ==
  IF stack[t].capacity >= need THEN stack[t].capacity ELSE CeilToPowerOf2(need)

\* ensureStack() for a function that is entered on top of what the stack holds.
CapacityFor(t, need) ==
  LET needed == Size(t) + need
  IN  IF stack[t].capacity >= needed THEN stack[t].capacity ELSE CeilToPowerOf2(needed)

\* The top of the stack is not the function's own slot, and no variable that a closure refers
\* to: a temporary, or a variable the compiler has not marked as captured.
TopIsPlain(t) ==
  /\ frames[t] # <<>> /\ Top(t).start < stack[t].esp - 1
  /\ \A u \in ToSet(openUpvalues[t]) : upvalue[u].localVarPtr # stack[t].esp - 1

\* A closure is called, its receiver on top of the stack: createFrame() makes room for the
\* slots of the function, and the frame begins at the receiver.
Call(t, need, c) ==
  LET capacity == CapacityFor(t, need)
      bases == {stack[t].base} \union (IF capacity = stack[t].capacity THEN {} ELSE FreeBases)
  IN  /\ TopIsPlain(t)
      /\ Len(frames[t]) < MaxFrames /\ capacity <= REGION
      /\ \E b \in bases :
           LET offset == b - stack[t].base
               esp == stack[t].esp + offset
           IN  /\ mem' = Reallocated(t, b, capacity)
               /\ stack' = [stack EXCEPT ![t] = [base |-> b, capacity |-> capacity, esp |-> esp]]
               /\ frames' = [frames EXCEPT ![t] = Append(ShiftedFrames(t, offset), Frame(esp - 1, need, c))]
               /\ upvalue' = ShiftedUpvalues(t, offset)
      /\ UNCHANGED <<openUpvalues, ghosts>>

-----------------------------------------------------------------------------
(* Closing *)

\* Fault: the variable in the slot itself stays open.
ToCloseAbove(t, slot) ==
  LET below == {i \in DOMAIN openUpvalues[t] : upvalue[openUpvalues[t][i]].localVarPtr <= slot}
  IN  IF below = {} THEN Len(openUpvalues[t]) ELSE Min(below) - 1

\* closeUpvalue() closes from the head of the list on and stops at the first upvalue below
\* the slot: how many it closes.
ToClose(t, slot) ==
  LET below == {i \in DOMAIN openUpvalues[t] : upvalue[openUpvalues[t][i]].localVarPtr < slot}
  IN  IF below = {} THEN Len(openUpvalues[t]) ELSE Min(below) - 1

CloseUpvalues(t, slot) ==
  LET n == ToClose(t, slot)
      closing == ToSet(SubSeq(openUpvalues[t], 1, n))
  IN  /\ openUpvalues' = [openUpvalues EXCEPT ![t] = SubSeq(@, n + 1, Len(@))]
      /\ upvalue' = [u \in DOMAIN upvalue |->
                       IF u \in closing
                       THEN [localVarPtr |-> Closed, closedUpvalue |-> mem[upvalue[u].localVarPtr]]
                       ELSE upvalue[u]]

\* A block ends with a captured variable on the top: OPCODE_CLOSE_UPVALUE.
CloseUpvalue(t) ==
  /\ frames[t] # <<>> /\ Top(t).start < stack[t].esp - 1
  /\ CloseUpvalues(t, stack[t].esp - 1)
  /\ stack' = [stack EXCEPT ![t].esp = @ - 1]
  /\ slots' = [slots EXCEPT ![t] = Front(@)]
  /\ mem' = [mem EXCEPT ![stack[t].esp - 1] = Junk]
  /\ UNCHANGED <<frames, captured>>

\* OPCODE_RETURN: the value on the top is popped, the upvalues of the frame are closed, and
\* the value takes the place of the receiver; with no frame left the thread is at its end.
Return(t) ==
  LET start == Top(t).start
      bottom == IF Len(frames[t]) = 1 THEN stack[t].base ELSE start
      below == SubSeq(slots[t], 1, bottom - stack[t].base)
      gone == (ToSet(slots[t]) \ ToSet(below)) \ ToSet(captured)
  IN  /\ TopIsPlain(t)
      /\ CloseUpvalues(t, start)
      /\ frames' = [frames EXCEPT ![t] = Front(@)]
      /\ mem' = [a \in Address |-> IF a = bottom THEN mem[stack[t].esp - 1]
                                   ELSE IF bottom < a /\ a < stack[t].esp THEN Junk ELSE mem[a]]
      /\ stack' = [stack EXCEPT ![t].esp = bottom + 1]
      /\ slots' = [slots EXCEPT ![t] = Append(below, Fresh(LiveVars \ gone))]
      /\ UNCHANGED captured

-----------------------------------------------------------------------------
(* Variables *)

\* A value is pushed: a variable is declared, or a temporary comes to be.  The function
\* does not take more slots than it needs (StackWithinMax of module Codegen).
Push(t, v) ==
  /\ frames[t] # <<>> /\ stack[t].esp - Top(t).start < Top(t).need /\ RoomForVar
  /\ mem' = [mem EXCEPT ![stack[t].esp] = v]
  /\ stack' = [stack EXCEPT ![t].esp = @ + 1]
  /\ slots' = [slots EXCEPT ![t] = Append(@, Fresh(LiveVars))]
  /\ UNCHANGED <<frames, openUpvalues, upvalue, captured>>

Pop(t) ==
  /\ TopIsPlain(t)
  /\ stack' = [stack EXCEPT ![t].esp = @ - 1]
  /\ slots' = [slots EXCEPT ![t] = Front(@)]
  /\ mem' = [mem EXCEPT ![stack[t].esp - 1] = Junk]
  /\ UNCHANGED <<frames, openUpvalues, upvalue, captured>>

\* OPCODE_STORE_LOCAL_VAR
StoreLocalVar(t, i, v) ==
  /\ frames[t] # <<>> /\ Top(t).start + i < stack[t].esp
  /\ mem' = [mem EXCEPT ![Top(t).start + i] = v]
  /\ UNCHANGED <<stack, frames, openUpvalues, upvalue, ghosts>>

Deref(u) == IF upvalue[u].localVarPtr = Closed THEN upvalue[u].closedUpvalue
            ELSE mem[upvalue[u].localVarPtr]

\* OPCODE_LOAD_UPVALUE
LoadUpvalue(t) == frames[t] # <<>> /\ Top(t).closure # NoClosure /\ Push(t, Deref(Top(t).closure))

\* OPCODE_STORE_UPVALUE
StoreUpvalue(t, v) ==
  LET u == Top(t).closure
  IN  /\ frames[t] # <<>> /\ u # NoClosure
      /\ IF upvalue[u].localVarPtr = Closed
         THEN upvalue' = [upvalue EXCEPT ![u].closedUpvalue = v] /\ UNCHANGED mem
         ELSE mem' = [mem EXCEPT ![upvalue[u].localVarPtr] = v] /\ UNCHANGED upvalue
      /\ UNCHANGED <<stack, frames, openUpvalues, ghosts>>

\* Fault: the new upvalue becomes the first one.
InsertedFirst(t, u, slot) == <<u>> \o openUpvalues[t]

\* createOpenUpvalue(): behind those of higher slots.
Inserted(t, u, slot) ==
  LET above == {i \in DOMAIN openUpvalues[t] : upvalue[openUpvalues[t][i]].localVarPtr > slot}
  IN  InsertAt(openUpvalues[t], Cardinality(above) + 1, u)

\* Fault: the upvalue there is for the slot is not looked for.
NoneAt(t, slot) == FALSE

\* createOpenUpvalue() finds the upvalue of the slot.
HasOpenUpvalue(t, slot) ==
  \E u \in ToSet(openUpvalues[t]) : upvalue[u].localVarPtr = slot

\* OPCODE_CREATE_CLOSURE that captures a variable of the running function.  A closure that
\* only inherits upvalues, or finds the one there is, adds nothing to the state.
Capture(t, i) ==
  LET slot == Top(t).start + i
      u == Len(upvalue) + 1
  IN  /\ frames[t] # <<>> /\ slot < stack[t].esp
      /\ ~HasOpenUpvalue(t, slot) /\ u \in Upvalue
      /\ upvalue' = Append(upvalue, [localVarPtr |-> slot, closedUpvalue |-> Junk])
      /\ openUpvalues' = [openUpvalues EXCEPT ![t] = Inserted(t, u, slot)]
      /\ captured' = Append(captured, slots[t][slot - stack[t].base + 1])
      /\ UNCHANGED <<memory, frames, slots>>

Next == \E t \in Thread :
  \/ \E need \in Needs, c \in Closures : NewThread(t, need, c) \/ Call(t, need, c)
  \/ CloseUpvalue(t) \/ Return(t) \/ Pop(t) \/ LoadUpvalue(t)
  \/ \E v \in Value : Push(t, v) \/ StoreUpvalue(t, v)
  \/ \E i \in 0..REGION - 1 : Capture(t, i) \/ \E v \in Value : StoreLocalVar(t, i, v)

Spec == Init /\ [][Next]_vars

-----------------------------------------------------------------------------
(* Properties *)

\* The variables have the expected types; a slot in use and a closed upvalue hold values
\* somebody has written.
TypeOK ==
  /\ mem \in [Address -> Value \union {Junk}]
  /\ \A t \in Thread : \A a \in stack[t].base..stack[t].esp - 1 : mem[a] \in Value
  /\ \A t \in Thread : \A f \in ToSet(frames[t]) : f.closure \in Closures /\ f.need \in Needs
  /\ \A t \in Thread : openUpvalues[t] \in Seq(DOMAIN upvalue) /\ Len(slots[t]) = Size(t)
  /\ \A u \in DOMAIN upvalue : upvalue[u].localVarPtr = Closed => upvalue[u].closedUpvalue \in Value

\* The frames of a thread follow each other on its stack, which has room for all that the
\* running function needs, and no two stacks share memory, wherever ensureStack() put them.
FramesOnTheirStack ==
  /\ \A t \in Thread : frames[t] # <<>> =>
       /\ frames[t][1].start = stack[t].base
       /\ \A i \in 2..Len(frames[t]) : frames[t][i].start > frames[t][i - 1].start
       /\ Top(t).start < stack[t].esp
       /\ Top(t).start + Top(t).need <= stack[t].base + stack[t].capacity
  /\ \A t, s \in Thread : t # s /\ stack[t].capacity > 0 /\ stack[s].capacity > 0 =>
       stack[t].base # stack[s].base

\* The list of open upvalues is strictly descending: what closeUpvalue() and
\* createOpenUpvalue() rely on when they stop at the first one below a slot.
DescendingUpvalues ==
  \A t \in Thread : \A i, j \in DOMAIN openUpvalues[t] :
    i < j => upvalue[openUpvalues[t][i]].localVarPtr > upvalue[openUpvalues[t][j]].localVarPtr

\* An upvalue refers to the variable it was created for, on the stack of its thread while
\* the variable is in scope there, and in itself afterwards; and there is no second one for
\* the variable, so that all closures share it.
UpvaluesFollowVariables ==
  \A t \in Thread, u \in DOMAIN upvalue :
    /\ u \in ToSet(openUpvalues[t]) =>
         /\ upvalue[u].localVarPtr \in stack[t].base..stack[t].esp - 1
         /\ slots[t][upvalue[u].localVarPtr - stack[t].base + 1] = captured[u]
    /\ captured[u] \in ToSet(slots[t]) => u \in ToSet(openUpvalues[t])
    /\ \A w \in DOMAIN upvalue : captured[w] = captured[u] => w = u

\* Frames, lists and pointers are where closures and the running function look for them.
UpvaluesOK == TypeOK /\ FramesOnTheirStack /\ DescendingUpvalues /\ UpvaluesFollowVariables

\* Where a variable is: on a stack, or in the upvalue that outlived it.
ValueOf(x) ==
  IF \E t \in Thread : x \in ToSet(slots[t])
  THEN LET t == CHOOSE t \in Thread : x \in ToSet(slots[t])
       IN  mem[stack[t].base + (CHOOSE i \in DOMAIN slots[t] : slots[t][i] = x) - 1]
  ELSE upvalue[CHOOSE u \in DOMAIN captured : captured[u] = x].closedUpvalue

Cells == INSTANCE CapturedVariables WITH value <- [x \in LiveVars |-> ValueOf(x)]

\* Variables are cells, whatever is called, returns, moves or is closed meanwhile.
VariablesAreCells == Cells!Spec
=============================================================================
