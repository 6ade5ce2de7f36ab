------------------------------ MODULE Threads ------------------------------
(***************************************************************************)
(* The coroutine scheduler of the interpreter: thread objects              *)
(* (object/obj_thread.c), the Thread primitives (vm/core.c) and the parts  *)
(* of the instruction loop (vm/vm.c) that move control from one thread to  *)
(* another.  Exactly one thread runs at a time; `cur` is vm->curThread.    *)
(*                                                                         *)
(* The script that the threads execute is left open: in every state in     *)
(* which the loop fetches an instruction, any operation may come next.     *)
(* Values are abstracted away.  Of a runtime stack the model keeps, for    *)
(* every frame, the number of slots that lie on the stack beyond those     *)
(* the compiled code accounts for ("stray" slots).                         *)
(***************************************************************************)
EXTENDS Integers, Sequences, FiniteSets

CONSTANTS
  HostThread,    \* objects of the threads executeModule() starts, one per line or file
  ScriptThread,  \* objects of the threads Thread.new and System.importModule create
  NULL,          \* the null thread pointer
  RootEscapes,   \* may code hand the running host thread (Thread.current) to other code?
  MaxFrames,     \* bound: frames on one thread
  MaxStray       \* bound: stray slots in one frame

Thread == HostThread \union ScriptThread

ASSUME ThreadAssumption ==
  /\ HostThread \intersect ScriptThread = {}
  /\ NULL \notin Thread
  /\ RootEscapes \in BOOLEAN
  /\ MaxFrames \in Nat \ {0}
  /\ MaxStray \in Nat

VARIABLES
  vm,       \* "idle": the host has control, "running": inside the loop, "exited": exit(1)
  cur,      \* vm->curThread
  created,  \* the thread objects allocated so far
  frames,   \* per thread, the stray slots of each frame, newest frame first;
            \* usedFrameNum is the length of the sequence
  caller,   \* per thread, objThread->caller
  failed,   \* per thread, whether errorObj differs from null
  shared    \* the threads a script value refers to

vars == <<vm, cur, created, frames, caller, failed, shared>>

TypeOK ==
  /\ vm \in {"idle", "running", "exited"}
  /\ cur \in Thread \union {NULL}
  /\ created \subseteq Thread
  /\ frames \in [Thread -> Seq(Nat)]
  /\ caller \in [Thread -> Thread \union {NULL}]
  /\ failed \in [Thread -> BOOLEAN]
  /\ shared \subseteq created

Init ==
  /\ vm = "idle"
  /\ cur = NULL
  /\ created = {}
  /\ frames = [t \in Thread |-> <<>>]
  /\ caller = [t \in Thread |-> NULL]
  /\ failed = [t \in Thread |-> FALSE]
  /\ shared = {}

-----------------------------------------------------------------------------
(* Helpers *)

\* Fault: the object is not registered as allocated.
NewThreadUnlisted(t) ==
  /\ t \notin created
  /\ created' = created
  /\ frames' = [frames EXCEPT ![t] = <<0>>]

\* newObjThread, resetThread and prepareFrame: one frame, no caller, no error.
NewThread(t) ==
  /\ t \notin created
  /\ created' = created \union {t}
  /\ frames' = [frames EXCEPT ![t] = <<0>>]

Finished(t) == frames[t] = <<>>

\* Fault: threads that have returned are not recognised.
AbortedOnly(t) == failed[t]

\* Thread.isDone, and the two tests of switchThread() that refuse a thread.
IsDone(t) == Finished(t) \/ failed[t]

\* Fault: the caller of the next thread is not looked at.
AlwaysFree(t) == TRUE

\* The first test of switchThread(): nobody has called the thread.
Free(t) == caller[t] = NULL

\* The loop is about to execute an instruction of `cur`.  A thread without a
\* frame makes it read frames[-1]; the model does not go past such a state.
Running == vm = "running" /\ cur # NULL /\ ~Finished(cur)

\* The stack of `cur` keeps n slots that the compiled code does not expect.
LeaveStray(n) ==
  /\ Head(frames[cur]) + n <= MaxStray
  /\ frames' = [frames EXCEPT ![cur] = <<Head(@) + n>> \o Tail(@)]

\* Fault: esp-- is forgotten.
PoppedNothing(argNum) == 0

\* call(arg) and yield(arg) pop the argument, call() and yield() pop nothing.
Popped(argNum) == IF argNum = 2 THEN 1 ELSE 0

\* A primitive called with argNum slots returned false and left an error object:
\* the loop stores null in the top slot and pops none of the argNum - 1 others.
RaiseError(argNum) ==
  /\ failed' = [failed EXCEPT ![cur] = TRUE]
  /\ LeaveStray(argNum - 1)

-----------------------------------------------------------------------------
(* The host *)

\* executeModule(): a new thread for the compiled code becomes current.
Execute(t) ==
  /\ vm = "idle"
  /\ t \in HostThread
  /\ NewThread(t)
  /\ vm' = "running"
  /\ cur' = t
  /\ UNCHANGED <<caller, failed, shared>>

-----------------------------------------------------------------------------
(* Operations of the running thread that stay on it *)

\* Thread.new(fn)
New(t) ==
  /\ Running
  /\ t \in ScriptThread
  /\ NewThread(t)
  /\ shared' = shared \union {t}
  /\ UNCHANGED <<vm, cur, caller, failed>>

\* Thread.current
Current ==
  /\ Running
  /\ cur \in HostThread => RootEscapes
  /\ shared' = shared \union {cur}
  /\ UNCHANGED <<vm, cur, created, frames, caller, failed>>

\* createFrame(): a script method or a function object is called.
EnterFunction ==
  /\ Running
  /\ Len(frames[cur]) < MaxFrames
  /\ frames' = [frames EXCEPT ![cur] = <<0>> \o @]
  /\ UNCHANGED <<vm, cur, created, caller, failed, shared>>

\* Thread.abort(null) clears the error object and returns normally.
AbortWithNull ==
  /\ Running
  /\ failed' = [failed EXCEPT ![cur] = FALSE]
  /\ UNCHANGED <<vm, cur, created, frames, caller, shared>>

\* Thread.abort(err) sets the error object, and nothing else.
Abort ==
  /\ Running
  /\ RaiseError(2)
  /\ UNCHANGED <<vm, cur, created, caller, shared>>

\* SET_ERROR_FALSE in any other primitive, called with argNum slots.
PrimitiveError(argNum) ==
  /\ Running
  /\ RaiseError(argNum)
  /\ UNCHANGED <<vm, cur, created, caller, shared>>

\* System.getModuleVariable(module, name) of a variable that holds null: false is returned as
\* for an error, but there is no error object and no other thread.  The loop goes on with the
\* three slots of the call, two more than the compiled code expects.
GetNullVariable ==
  /\ Running
  /\ LeaveStray(2)
  /\ UNCHANGED <<vm, cur, created, caller, failed, shared>>

\* RUN_ERROR anywhere in the loop or in a primitive: exit(1).
RunError ==
  /\ Running
  /\ vm' = "exited"
  /\ UNCHANGED <<cur, created, frames, caller, failed, shared>>

-----------------------------------------------------------------------------
(* Operations that switch threads *)

\* switchThread() when nextThread already has a caller: RUN_ERROR.
CallBusy(next) ==
  /\ Running
  /\ next \in shared
  /\ ~Free(next)
  /\ vm' = "exited"
  /\ UNCHANGED <<cur, created, frames, caller, failed, shared>>

\* switchThread() to a finished or aborted thread: `caller` is already set when
\* the test fails, and the calling thread goes on with an error object.
CallRefused(next, argNum) ==
  /\ Running
  /\ next \in shared
  /\ Free(next)
  /\ IsDone(next)
  /\ caller' = [caller EXCEPT ![next] = cur]
  /\ RaiseError(argNum)
  /\ UNCHANGED <<vm, cur, created, shared>>

\* switchThread() that succeeds.  The calling thread's result slot is what is
\* left of the argNum slots: with an argument one slot is popped.
Call(next, argNum) ==
  /\ Running
  /\ next \in shared
  /\ Free(next)
  /\ ~IsDone(next)
  /\ caller' = [caller EXCEPT ![next] = cur]
  /\ LeaveStray(argNum - Popped(argNum) - 1)
  /\ cur' = next
  /\ UNCHANGED <<vm, created, failed, shared>>

\* Fault: the thread that yields stays connected with its caller.
YieldKeepsCaller(argNum) ==
  /\ Running
  /\ caller[cur] # NULL
  /\ LeaveStray(argNum - Popped(argNum) - 1)
  /\ cur' = caller[cur]
  /\ UNCHANGED <<vm, created, caller, failed, shared>>

\* Thread.yield() and Thread.yield(arg), back to the caller.
Yield(argNum) ==
  /\ Running
  /\ caller[cur] # NULL
  /\ caller' = [caller EXCEPT ![cur] = NULL]
  /\ LeaveStray(argNum - Popped(argNum) - 1)
  /\ cur' = caller[cur]
  /\ UNCHANGED <<vm, created, failed, shared>>

\* The same without a caller: the loop returns to the host, the argument stays.
YieldToHost(argNum) ==
  /\ Running
  /\ caller[cur] = NULL
  /\ LeaveStray(argNum - 1)
  /\ cur' = NULL
  /\ vm' = "idle"
  /\ UNCHANGED <<created, caller, failed, shared>>

\* Thread.suspend(): the whole VM returns to the host, callers stay set.
Suspend ==
  /\ Running
  /\ cur' = NULL
  /\ vm' = "idle"
  /\ UNCHANGED <<created, frames, caller, failed, shared>>

\* System.importModule(name) of a module not yet loaded: the thread of the
\* module body is called.  Of the two slots one is popped.
Import(t) ==
  /\ Running
  /\ ~failed[cur]
  /\ t \in ScriptThread
  /\ t \notin created
  /\ created' = created \union {t}
  /\ frames' = [frames EXCEPT ![t] = <<0>>]
  /\ caller' = [caller EXCEPT ![t] = cur]
  /\ cur' = t
  /\ UNCHANGED <<vm, failed, shared>>

\* The same while the importing thread holds an error object from earlier: the
\* module is compiled, its body never runs and its thread is dropped.
ImportWithStaleError ==
  /\ Running
  /\ failed[cur]
  /\ LeaveStray(1)
  /\ UNCHANGED <<vm, cur, created, caller, failed, shared>>

\* OPCODE_RETURN from a frame that is not the thread's last.
ReturnToFrame ==
  /\ Running
  /\ Len(frames[cur]) > 1
  /\ frames' = [frames EXCEPT ![cur] = Tail(@)]
  /\ UNCHANGED <<vm, cur, created, caller, failed, shared>>

\* Fault: the frame of the caller is not loaded.
ReturnKeepsThread ==
  /\ Running
  /\ Len(frames[cur]) = 1
  /\ caller[cur] # NULL
  /\ frames' = [frames EXCEPT ![cur] = Tail(@)]
  /\ caller' = [caller EXCEPT ![cur] = NULL]
  /\ UNCHANGED <<vm, cur, created, failed, shared>>

\* OPCODE_RETURN from the last frame of a thread that was called.
ReturnToCaller ==
  /\ Running
  /\ Len(frames[cur]) = 1
  /\ caller[cur] # NULL
  /\ frames' = [frames EXCEPT ![cur] = Tail(@)]
  /\ caller' = [caller EXCEPT ![cur] = NULL]
  /\ cur' = caller[cur]
  /\ UNCHANGED <<vm, created, failed, shared>>

\* OPCODE_RETURN from the last frame of a thread nobody called.
\* vm->curThread keeps pointing at it.
ReturnToHost ==
  /\ Running
  /\ Len(frames[cur]) = 1
  /\ caller[cur] = NULL
  /\ frames' = [frames EXCEPT ![cur] = Tail(@)]
  /\ vm' = "idle"
  /\ UNCHANGED <<cur, created, caller, failed, shared>>

-----------------------------------------------------------------------------
(* Steps after which the running thread has one frame less. *)
Return == ReturnToFrame \/ ReturnToCaller \/ ReturnToHost

(* Every other operation of a script. *)
Operate ==
  \/ \E t \in ScriptThread : New(t) \/ Import(t)
  \/ Current
  \/ EnterFunction
  \/ AbortWithNull
  \/ Abort
  \/ \E argNum \in 1..3 : PrimitiveError(argNum)
  \/ GetNullVariable
  \/ RunError
  \/ \E next \in shared : CallBusy(next)
  \/ \E next \in shared, argNum \in 1..2 : CallRefused(next, argNum) \/ Call(next, argNum)
  \/ \E argNum \in 1..2 : Yield(argNum) \/ YieldToHost(argNum)
  \/ Suspend
  \/ ImportWithStaleError

Next ==
  \/ \E t \in HostThread : Execute(t)
  \/ Operate
  \/ Return

Spec == Init /\ [][Next]_vars

-----------------------------------------------------------------------------
(* Properties *)

\* s is the call stack of threads: it starts at the running thread, every thread
\* in it waits for the one before it, the last one was started by the host, no
\* thread occurs twice and each has a frame to continue in.
IsCallStack(s) ==
  /\ s # <<>>
  /\ s[1] = cur
  /\ \A i \in 1..(Len(s) - 1) : caller[s[i]] = s[i + 1]
  /\ caller[s[Len(s)]] = NULL
  /\ s[Len(s)] \in HostThread
  /\ \A i, j \in 1..Len(s) : s[i] = s[j] => i = j
  /\ \A i \in 1..Len(s) : ~Finished(s[i])

\* The caller pointers followed from the running thread, cut off after as many
\* links as there are thread objects.
CallStack ==
  LET follow[n \in 0..Cardinality(created)] ==
        IF n = 0 THEN <<cur>>
        ELSE LET s == follow[n - 1]
                 up == caller[s[Len(s)]]
             IN  IF up = NULL THEN s ELSE Append(s, up)
  IN  follow[Cardinality(created)]

\* The threads waiting for the running one form a list without repetition that
\* ends at a thread the host started, and all of them can be continued: however
\* threads call, yield, fail, import and return, no thread waits for itself.
CallStackOK == vm = "running" => cur # NULL /\ IsCallStack(CallStack)

\* Within one run of the host, a thread that has given up control can be called
\* again unless it is done: no caller is left in it that blocks it for good.
ParkedCanBeCalled ==
  vm = "running" =>
    \A t \in created \ {CallStack[i] : i \in 1..Len(CallStack)} : Free(t) \/ IsDone(t)

Abstract == INSTANCE ControlStack WITH
  stack <- IF vm = "running" THEN CallStack ELSE <<>>,
  done  <- {t \in created : Finished(t)}

\* The scheduler implements the control stack: nested transfer of control, and
\* no second run of a finished thread.
ControlIsNested == Abstract!Spec

\* The loop never runs a thread that has no frame left (switchThread and
\* OPCODE_RETURN only ever continue a thread that can be continued).
FinishedNeverRuns == vm = "running" => cur # NULL /\ ~Finished(cur)

\* A switch leaves the stacks of both threads exactly as the compiled code expects them, with one
\* slot for the result of the call or yield, and the others are not touched: slots nobody expects
\* appear only on the running thread, in a step that stays on it or that leaves the loop.
SwitchesKeepStacks ==
  [][\A t \in Thread : \A i \in 1..Len(frames[t]) :
       LET depth == Len(frames'[t]) - Len(frames[t])
       IN  i + depth \in 1..Len(frames'[t])
             /\ frames'[t][i + depth] # frames[t][i]
           => t = cur /\ cur' \in {cur, NULL}]_vars
=============================================================================
