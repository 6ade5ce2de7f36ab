---------------------------- MODULE RuntimeProof ----------------------------
(***************************************************************************)
(* Two components of the running program, the coroutine scheduler and the  *)
(* hash table.  Each theorem is about the specification of one of them.    *)
(***************************************************************************)
EXTENDS Threads, MapLoop, Induction, SequenceTheorems, FiniteSetTheorems, TLAPS

-----------------------------------------------------------------------------
(***************************************************************************)
(* The scheduler, for every number of threads, frames and stray slots.     *)
(***************************************************************************)
\* What LeaveStray does to the stack of the running thread.
LEMMA LeaveStrayFrames ==
  ASSUME TypeOK, Running, NEW n \in Nat, LeaveStray(n)
  PROVE  /\ frames' \in [Thread -> Seq(Nat)]
         /\ \A t \in Thread : frames'[t] = <<>> <=> frames[t] = <<>>
<1> DEFINE f == frames[cur]
           g == <<Head(f) + n>> \o Tail(f)
<1>1. cur \in Thread /\ f \in Seq(Nat) /\ f # <<>>
  BY DEF TypeOK, Running, Finished
<1>2. Head(f) \in Nat /\ Tail(f) \in Seq(Nat)
  BY <1>1, HeadTailProperties
<1>3. <<Head(f) + n>> \in Seq(Nat) /\ Len(<<Head(f) + n>>) = 1
  BY <1>2
<1>4. g \in Seq(Nat) /\ Len(g) = 1 + Len(Tail(f))
  BY <1>2, <1>3, ConcatProperties
<1>5. g # <<>>
  BY <1>2, <1>4, EmptySeq, LenProperties
<1>6. frames' = [frames EXCEPT ![cur] = g]
  BY DEF LeaveStray
<1> QED
  BY <1>1, <1>4, <1>5, <1>6 DEF TypeOK

\* What pushing a frame does to the running thread, and popping one.
LEMMA PushFrame ==
  ASSUME NEW f \in Seq(Nat)
  PROVE  <<0>> \o f \in Seq(Nat) /\ <<0>> \o f # <<>>
<1>1. <<0>> \in Seq(Nat) /\ Len(<<0>>) = 1
  OBVIOUS
<1>2. <<0>> \o f \in Seq(Nat) /\ Len(<<0>> \o f) = 1 + Len(f)
  BY <1>1, ConcatProperties
<1> QED
  BY <1>2, EmptySeq, LenProperties

-----------------------------------------------------------------------------
\* An object that is not allocated yet is in no state a script could have left.
Fresh ==
  \A t \in Thread \ created : frames[t] = <<>> /\ caller[t] = NULL /\ ~failed[t]

TypeInv == TypeOK /\ Fresh

LEMMA TypeInvInit == Init => TypeInv
BY EmptySeq DEF Init, TypeInv, TypeOK, Fresh

LEMMA TypeInvNext == TypeInv /\ [Next]_vars => TypeInv'
<1> SUFFICES ASSUME TypeInv, [Next]_vars
             PROVE  TypeInv'
  OBVIOUS
<1> USE DEF TypeInv
<1>z. <<0>> \in Seq(Nat) /\ <<>> \in Seq(Nat) /\ <<0>> # <<>>
  OBVIOUS
<1>1. ASSUME NEW t \in HostThread, Execute(t) PROVE TypeInv'
  BY <1>1, <1>z DEF TypeOK, Fresh, Execute, NewThread, Thread
<1>2. ASSUME NEW t \in ScriptThread, New(t) PROVE TypeInv'
  BY <1>2, <1>z DEF TypeOK, Fresh, New, NewThread, Thread
<1>3. ASSUME NEW t \in ScriptThread, Import(t) PROVE TypeInv'
  BY <1>3, <1>z DEF TypeOK, Fresh, Import, Running, Thread
<1>4. CASE Current
  BY <1>4 DEF TypeOK, Fresh, Current, Running, Finished
<1>5. CASE EnterFunction
  <2>1. cur \in Thread /\ cur \in created
    BY <1>5 DEF TypeOK, Fresh, EnterFunction, Running, Finished
  <2>2. <<0>> \o frames[cur] \in Seq(Nat)
    BY <2>1, PushFrame DEF TypeOK
  <2> QED
    BY <1>5, <2>1, <2>2 DEF TypeOK, Fresh, EnterFunction
<1>6. CASE AbortWithNull
  BY <1>6 DEF TypeOK, Fresh, AbortWithNull, Running
<1>7. ASSUME NEW argNum \in 1..3, Running, RaiseError(argNum),
             UNCHANGED <<vm, cur, created, shared>>,
             \/ UNCHANGED caller
             \/ \E next \in shared : caller' = [caller EXCEPT ![next] = cur]
      PROVE  TypeInv'
  <2>1. argNum - 1 \in Nat
    OBVIOUS
  <2>2. /\ frames' \in [Thread -> Seq(Nat)]
        /\ \A t \in Thread : frames'[t] = <<>> <=> frames[t] = <<>>
    BY <1>7, <2>1, LeaveStrayFrames DEF RaiseError
  <2> QED
    BY <1>7, <2>2 DEF TypeOK, Fresh, RaiseError, Running, Finished
<1>8. CASE Abort
  BY <1>7, <1>8 DEF Abort
<1>9. ASSUME NEW argNum \in 1..3, PrimitiveError(argNum) PROVE TypeInv'
  BY <1>7, <1>9 DEF PrimitiveError
<1>10. CASE RunError
  BY <1>10 DEF TypeOK, Fresh, RunError
<1>11. ASSUME NEW next \in shared, CallBusy(next) PROVE TypeInv'
  BY <1>11 DEF TypeOK, Fresh, CallBusy
<1>12. ASSUME NEW next \in shared, NEW argNum \in 1..2, CallRefused(next, argNum)
       PROVE  TypeInv'
  <2>1. argNum \in 1..3
    OBVIOUS
  <2> QED
    BY <1>7, <1>12, <2>1 DEF CallRefused
<1>13. ASSUME NEW next \in shared, NEW argNum \in 1..2, Call(next, argNum)
       PROVE  TypeInv'
  <2>1. /\ frames' \in [Thread -> Seq(Nat)]
        /\ \A t \in Thread : frames'[t] = <<>> <=> frames[t] = <<>>
    BY <1>13, LeaveStrayFrames DEF Call, Popped
  <2> QED
    BY <1>13, <2>1 DEF TypeOK, Fresh, Call, Running
<1>14. ASSUME NEW argNum \in 1..2, Yield(argNum) PROVE TypeInv'
  <2>1. /\ frames' \in [Thread -> Seq(Nat)]
        /\ \A t \in Thread : frames'[t] = <<>> <=> frames[t] = <<>>
    BY <1>14, LeaveStrayFrames DEF Yield, Popped
  <2> QED
    BY <1>14, <2>1 DEF TypeOK, Fresh, Yield, Running
<1>15. ASSUME NEW argNum \in 1..2, YieldToHost(argNum) PROVE TypeInv'
  <2>1. /\ frames' \in [Thread -> Seq(Nat)]
        /\ \A t \in Thread : frames'[t] = <<>> <=> frames[t] = <<>>
    BY <1>15, LeaveStrayFrames DEF YieldToHost
  <2> QED
    BY <1>15, <2>1 DEF TypeOK, Fresh, YieldToHost, Running
<1>16. CASE Suspend
  BY <1>16 DEF TypeOK, Fresh, Suspend
<1>17. CASE ImportWithStaleError \/ GetNullVariable
  <2>1. /\ frames' \in [Thread -> Seq(Nat)]
        /\ \A t \in Thread : frames'[t] = <<>> <=> frames[t] = <<>>
    BY <1>17, LeaveStrayFrames DEF ImportWithStaleError, GetNullVariable
  <2> QED
    BY <1>17, <2>1 DEF TypeOK, Fresh, ImportWithStaleError, GetNullVariable
<1>18. CASE Return
  <2>1. cur \in Thread /\ frames[cur] \in Seq(Nat) /\ frames[cur] # <<>>
    BY <1>18 DEF TypeOK, Return, ReturnToFrame, ReturnToCaller, ReturnToHost, Running, Finished
  <2>2. Tail(frames[cur]) \in Seq(Nat) /\ cur \in created
    BY <2>1, HeadTailProperties DEF Fresh
  <2> QED
    BY <1>18, <2>1, <2>2 DEF TypeOK, Fresh, Return, ReturnToFrame, ReturnToCaller, ReturnToHost
<1>19. CASE UNCHANGED vars
  BY <1>19 DEF TypeOK, Fresh, vars
<1> QED
  BY <1>1, <1>2, <1>3, <1>4, <1>5, <1>6, <1>8, <1>9, <1>10, <1>11, <1>12, <1>13, <1>14,
     <1>15, <1>16, <1>17, <1>18, <1>19 DEF Next, Operate

\* Type correctness of the scheduler: every operation keeps vm->curThread, the
\* frames, callers and error objects of all threads within their types.
THEOREM TypeCorrect == Spec => []TypeOK
<1>1. TypeInv => TypeOK
  BY DEF TypeInv
<1> QED
  BY <1>1, TypeInvInit, TypeInvNext, PTL DEF Spec

-----------------------------------------------------------------------------
(***************************************************************************)
(* The call stack.  TypeInv and the fact that scripts hold no reference to *)
(* a host thread make the existence of a call stack inductive: only the    *)
(* last thread of the stack has no caller, and it is a host thread, so     *)
(* that switchThread accepts a thread only if it is not on the stack.      *)
(***************************************************************************)
HostHidden == shared \intersect HostThread = {}

HasCallStack == vm = "running" => \E s \in Seq(Thread) : IsCallStack(s)

StackInv == TypeInv /\ HostHidden /\ HasCallStack /\ IsFiniteSet(created)

\* A thread that switchThread accepts is not on the call stack.
LEMMA CalleeNotOnStack ==
  ASSUME TypeInv, HostHidden, NEW s \in Seq(Thread), IsCallStack(s),
         NEW next \in shared, caller[next] = NULL
  PROVE  \A i \in 1..Len(s) : s[i] # next
<1> SUFFICES ASSUME NEW i \in 1..Len(s), s[i] = next
             PROVE  FALSE
  OBVIOUS
<1>1. Len(s) \in Nat /\ \A j \in 1..Len(s) : s[j] \in Thread
  BY ElementOfSeq, LenProperties
<1>2. CASE i = Len(s)
  BY <1>2 DEF IsCallStack, HostHidden
<1>3. CASE i # Len(s)
  <2>1. i \in 1..(Len(s) - 1) /\ i + 1 \in 1..Len(s)
    BY <1>1, <1>3
  <2>2. caller[next] \in Thread
    BY <1>1, <2>1 DEF IsCallStack
  <2> QED
    BY <2>2, ThreadAssumption
<1> QED
  BY <1>2, <1>3

\* A step that leaves the running thread and the callers and frames of the
\* threads on the call stack alone leaves the call stack alone.
LEMMA SameStack ==
  ASSUME NEW s \in Seq(Thread), IsCallStack(s), cur' = cur,
         \A i \in 1..Len(s) :
           caller'[s[i]] = caller[s[i]] /\ (frames'[s[i]] = <<>> => frames[s[i]] = <<>>)
  PROVE  IsCallStack(s)'
<1>1. Len(s) \in Nat
  BY LenProperties
<1>2. s # <<>> => Len(s) \in 1..Len(s)
  BY <1>1, EmptySeq
<1>3. \A i \in 1..(Len(s) - 1) : i \in 1..Len(s)
  BY <1>1
<1> QED
  BY <1>2, <1>3 DEF IsCallStack, Finished

\* A call puts one thread on top of the stack.
LEMMA PushStack ==
  ASSUME NEW s \in Seq(Thread), IsCallStack(s), NEW next \in Thread,
         \A i \in 1..Len(s) : s[i] # next,
         cur' = next, caller'[next] = cur, frames'[next] # <<>>,
         \A i \in 1..Len(s) :
           caller'[s[i]] = caller[s[i]] /\ frames'[s[i]] # <<>>
  PROVE  <<next>> \o s \in Seq(Thread) /\ IsCallStack(<<next>> \o s)'
<1> DEFINE r == <<next>> \o s
<1>1. Len(s) \in Nat \ {0} /\ \A i \in 1..Len(s) : s[i] \in Thread
  BY EmptySeq, LenProperties, ElementOfSeq DEF IsCallStack
<1>2. <<next>> \in Seq(Thread) /\ Len(<<next>>) = 1 /\ <<next>>[1] = next
  OBVIOUS
<1>3. /\ r \in Seq(Thread)
      /\ Len(r) = 1 + Len(s)
      /\ r[1] = next
      /\ \A i \in 1..Len(s) : r[i + 1] = s[i]
  <2>1. /\ r \in Seq(Thread)
        /\ Len(r) = 1 + Len(s)
        /\ \A i \in 1..(1 + Len(s)) : r[i] = IF i <= 1 THEN <<next>>[i] ELSE s[i - 1]
    BY <1>2, ConcatProperties
  <2> QED
    BY <1>1, <1>2, <2>1
<1>4. r # <<>>
  BY <1>1, <1>3
<1>5. \A i \in 1..(Len(r) - 1) : caller'[r[i]] = r[i + 1]
  <2> TAKE i \in 1..(Len(r) - 1)
  <2>1. CASE i = 1
    BY <1>1, <1>3, <2>1 DEF IsCallStack
  <2>2. CASE i # 1
    <3>1. i - 1 \in 1..(Len(s) - 1) /\ i - 1 \in 1..Len(s) /\ i \in 1..Len(s)
      BY <1>1, <1>3, <2>2
    <3>2. r[(i - 1) + 1] = s[i - 1] /\ r[i + 1] = s[i] /\ (i - 1) + 1 = i
      BY <1>3, <3>1
    <3>3. caller[s[i - 1]] = s[(i - 1) + 1]
      BY <3>1 DEF IsCallStack
    <3> QED
      BY <3>1, <3>2, <3>3
  <2> QED
    BY <2>1, <2>2
<1>6. r[Len(r)] = s[Len(s)] /\ Len(s) \in 1..Len(s)
  BY <1>1, <1>3
<1>7. \A i \in 1..Len(r) : (i = 1 /\ r[i] = next) \/ \E k \in 1..Len(s) : i = k + 1 /\ r[i] = s[k]
  <2> TAKE i \in 1..Len(r)
  <2>1. CASE i = 1
    BY <1>3, <2>1
  <2>2. CASE i # 1
    <3>1. i - 1 \in 1..Len(s) /\ i = (i - 1) + 1
      BY <1>1, <1>3, <2>2
    <3> QED
      BY <1>3, <3>1
  <2> QED
    BY <2>1, <2>2
<1>8. \A i, j \in 1..Len(r) : r[i] = r[j] => i = j
  <2> SUFFICES ASSUME NEW i \in 1..Len(r), NEW j \in 1..Len(r), r[i] = r[j], i < j
               PROVE  FALSE
    BY <1>1, <1>3
  <2>1. PICK k \in 1..Len(s) : j = k + 1 /\ r[j] = s[k]
    <3>1. j # 1
      OBVIOUS
    <3> QED
      BY <1>7, <3>1
  <2>2. PICK l \in 1..Len(s) : i = l + 1 /\ r[i] = s[l]
    BY <1>7, <2>1
  <2> QED
    BY <1>1, <2>1, <2>2 DEF IsCallStack
<1>9. \A i \in 1..Len(r) : frames'[r[i]] # <<>>
  BY <1>7
<1> QED
  BY <1>3, <1>4, <1>5, <1>6, <1>8, <1>9 DEF IsCallStack, Finished

\* A yield or the end of a called thread takes it off the stack.
LEMMA PopStack ==
  ASSUME TypeInv, NEW s \in Seq(Thread), IsCallStack(s), caller[cur] # NULL,
         cur' = caller[cur],
         \A t \in Thread \ {cur} : caller'[t] = caller[t] /\ (frames'[t] = <<>> => frames[t] = <<>>)
  PROVE  Len(s) > 1 /\ Tail(s) \in Seq(Thread) /\ IsCallStack(Tail(s))'
<1> DEFINE r == Tail(s)
<1>1. Len(s) \in Nat \ {0} /\ \A i \in 1..Len(s) : s[i] \in Thread
  BY EmptySeq, LenProperties, ElementOfSeq DEF IsCallStack
<1>2. Len(s) > 1
  <2>1. Len(s) # 1
    BY DEF IsCallStack
  <2>2. Len(s) \in Nat /\ Len(s) # 0
    BY <1>1
  <2>3. \A n \in Nat : n # 0 /\ n # 1 => n > 1
    OBVIOUS
  <2> QED
    BY <2>1, <2>2, <2>3, Zenon
<1>3. /\ r \in Seq(Thread)
      /\ Len(r) = Len(s) - 1
      /\ \A i \in 1..(Len(s) - 1) : r[i] = s[i + 1]
  BY HeadTailProperties DEF IsCallStack
<1>4. r # <<>> /\ Len(r) \in Nat
  <2>1. Len(r) \in Nat /\ Len(r) # 0
    BY <1>1, <1>2, <1>3
  <2> QED
    BY <1>3, <2>1, EmptySeq
<1>5. \A i \in 1..Len(r) : /\ i + 1 \in 1..Len(s)
                           /\ r[i] = s[i + 1]
                           /\ r[i] \in Thread \ {cur}
  <2> TAKE i \in 1..Len(r)
  <2>1. i + 1 \in 1..Len(s) /\ 1 \in 1..Len(s) /\ i + 1 # 1
    BY <1>1, <1>3
  <2>2. s[i + 1] # s[1]
    BY <2>1 DEF IsCallStack
  <2> QED
    BY <1>1, <1>3, <2>1, <2>2 DEF IsCallStack
<1>6. r[1] = caller[cur]
  <2>1. 1 \in 1..(Len(s) - 1)
    BY <1>1, <1>2
  <2> QED
    BY <1>3, <2>1 DEF IsCallStack
<1>7. \A i \in 1..(Len(r) - 1) : caller'[r[i]] = r[i + 1]
  <2> TAKE i \in 1..(Len(r) - 1)
  <2>1. i \in 1..Len(r) /\ i + 1 \in 1..Len(r) /\ i + 1 \in 1..(Len(s) - 1)
    BY <1>1, <1>3
  <2>2. caller[s[i + 1]] = s[(i + 1) + 1]
    BY <2>1 DEF IsCallStack
  <2> QED
    BY <1>5, <2>1, <2>2
<1>8. Len(r) \in 1..Len(r) /\ r[Len(r)] = s[Len(s)]
  BY <1>1, <1>2, <1>3
<1>9. \A i, j \in 1..Len(r) : r[i] = r[j] => i = j
  <2> TAKE i, j \in 1..Len(r)
  <2>1. s[i + 1] = s[j + 1] => i + 1 = j + 1
    BY <1>5 DEF IsCallStack
  <2> QED
    BY <1>1, <1>3, <1>5, <2>1
<1>10. \A i \in 1..Len(r) : frames'[r[i]] # <<>>
  BY <1>5 DEF IsCallStack, Finished
<1>11. caller'[r[Len(r)]] = NULL /\ r[Len(r)] \in HostThread
  BY <1>5, <1>8 DEF IsCallStack
<1> QED
  BY <1>2, <1>3, <1>4, <1>6, <1>7, <1>9, <1>10, <1>11 DEF IsCallStack, Finished

\* Scripts never get hold of a host thread if none is handed out.
LEMMA HostHiddenNext ==
  ~RootEscapes /\ TypeInv /\ HostHidden /\ [Next]_vars => HostHidden'
BY ThreadAssumption DEF HostHidden, Next, Operate, Return, vars, Execute, New, Import, Current,
   EnterFunction, AbortWithNull, Abort, PrimitiveError, GetNullVariable, RunError, CallBusy, CallRefused, Call,
   Yield, YieldToHost, Suspend, ImportWithStaleError, ReturnToFrame, ReturnToCaller, ReturnToHost

\* The threads that have returned.
Done == {t \in created : Finished(t)}

\* What a step of the loop does to the call stack s and to the finished threads.
Stay(s) == vm' = "running" /\ cur' = cur /\ IsCallStack(s)' /\ Done' = Done
Push(s, next) ==
  /\ vm' = "running" /\ cur' = next
  /\ next \notin Done /\ \A i \in 1..Len(s) : s[i] # next
  /\ <<next>> \o s \in Seq(Thread) /\ IsCallStack(<<next>> \o s)'
  /\ Done' = Done
Pop(s) ==
  /\ vm' = "running"
  /\ Len(s) > 1 /\ Tail(s) \in Seq(Thread) /\ IsCallStack(Tail(s))'
  /\ caller'[cur] = NULL
  /\ Done' = Done \/ Done' = Done \union {cur}
Leave(s) ==
  /\ vm' # "running"
  /\ Done' = Done \/ (Len(s) = 1 /\ Done' = Done \union {cur})

\* Every step of the running VM leaves the call stack alone, pushes the thread
\* it passes control to, pops the running one, or returns to the host.
LEMMA StackStep ==
  ASSUME ~RootEscapes, TypeInv, HostHidden, vm = "running", [Next]_vars,
         NEW s \in Seq(Thread), IsCallStack(s)
  PROVE  Stay(s) \/ (\E next \in Thread : Push(s, next)) \/ Pop(s) \/ Leave(s)
<1> DEFINE Goal == Stay(s) \/ (\E next \in Thread : Push(s, next)) \/ Pop(s) \/ Leave(s)
<1> SUFFICES Goal
  OBVIOUS
<1> HIDE DEF Goal
<1>s. ASSUME Stay(s) PROVE Goal
  BY <1>s DEF Goal
<1>p. ASSUME NEW next \in Thread, Push(s, next) PROVE Goal
  BY <1>p DEF Goal
<1>q. ASSUME Pop(s) PROVE Goal
  BY <1>q DEF Goal
<1>l. ASSUME Leave(s) PROVE Goal
  BY <1>l DEF Goal
<1>b. \A i \in 1..Len(s) : s[i] \in Thread
  BY ElementOfSeq
<1>d. ASSUME NEW n \in Nat, Running, LeaveStray(n)
      PROVE  \A t \in Thread : frames'[t] = <<>> <=> frames[t] = <<>>
  BY <1>d, LeaveStrayFrames DEF TypeInv
<1>e. (cur \in Thread /\ frames[cur] \in Seq(Nat)) \/ ~Running
  BY DEF TypeInv, TypeOK, Running
<1>c. ASSUME Running, cur' = cur, UNCHANGED <<vm, caller, created>>,
             \A t \in Thread : frames'[t] = <<>> <=> frames[t] = <<>>
      PROVE  Goal
  <2>1. IsCallStack(s)'
    BY <1>b, <1>c, SameStack
  <2>2. Done' = Done
    BY <1>c DEF Done, Finished, TypeInv, TypeOK
  <2> QED
    BY <1>c, <2>1, <2>2, <1>s DEF Stay
<1>1. ASSUME NEW t \in HostThread, Execute(t) PROVE Goal
  BY <1>1 DEF Execute
<1>2. ASSUME NEW t \in ScriptThread, New(t) PROVE Goal
  <2>1. t \in Thread /\ t \notin created /\ frames[t] = <<>> /\ frames'[t] = <<0>>
    BY <1>2 DEF New, NewThread, Thread, TypeInv, TypeOK, Fresh
  <2>2. \A u \in Thread \ {t} : frames'[u] = frames[u]
    BY <1>2 DEF New, NewThread, TypeInv, TypeOK
  <2>3. IsCallStack(s)'
    BY <1>2, <1>b, <2>1, <2>2, SameStack DEF New
  <2>4. Done' = Done
    BY <1>2, <2>1, <2>2 DEF Done, Finished, New, NewThread, TypeInv, TypeOK
  <2> QED
    BY <1>2, <2>3, <2>4, <1>s DEF Stay, New
<1>3. ASSUME NEW t \in ScriptThread, Import(t) PROVE Goal
  <2>2. t \in Thread /\ t \notin created /\ frames[t] = <<>> /\ frames'[t] = <<0>>
    BY <1>3 DEF Import, Thread, TypeInv, TypeOK, Fresh
  <2>3. \A i \in 1..Len(s) : s[i] \in Thread /\ s[i] # t
    BY <1>b, <2>2 DEF IsCallStack, Finished
  <2>4. /\ cur' = t /\ caller'[t] = cur /\ frames'[t] # <<>>
        /\ \A i \in 1..Len(s) : caller'[s[i]] = caller[s[i]] /\ frames'[s[i]] # <<>>
    BY <1>3, <2>2, <2>3 DEF Import, IsCallStack, Finished, TypeInv, TypeOK
  <2>5. <<t>> \o s \in Seq(Thread) /\ IsCallStack(<<t>> \o s)'
    BY <2>2, <2>3, <2>4, PushStack
  <2>6. \A u \in Thread \ {t} : frames'[u] = frames[u]
    BY <1>3 DEF Import, TypeInv, TypeOK
  <2>7. Done' = Done /\ t \notin Done
    BY <1>3, <2>2, <2>6 DEF Done, Finished, Import, TypeInv, TypeOK
  <2> QED
    BY <1>3, <2>2, <2>3, <2>4, <2>5, <2>7, <1>p DEF Push, Import
<1>4. CASE Current
  BY <1>4, <1>c DEF Current
<1>5. CASE EnterFunction
  <2>1. <<0>> \o frames[cur] # <<>> /\ frames[cur] # <<>>
    BY <1>5, <1>e, PushFrame DEF EnterFunction, Running, Finished
  <2> QED
    BY <1>5, <1>c, <2>1 DEF EnterFunction, TypeInv, TypeOK
<1>6. CASE AbortWithNull
  BY <1>6, <1>c DEF AbortWithNull
<1>7. ASSUME NEW argNum \in 1..3, Running, RaiseError(argNum), cur' = cur,
             UNCHANGED <<vm, caller, created>>
      PROVE  Goal
  <2>1. argNum - 1 \in Nat
    OBVIOUS
  <2> QED
    BY <1>7, <1>c, <1>d, <2>1 DEF RaiseError
<1>8. CASE Abort
  BY <1>7, <1>8 DEF Abort
<1>9. ASSUME NEW argNum \in 1..3, PrimitiveError(argNum) PROVE Goal
  BY <1>7, <1>9 DEF PrimitiveError
<1>10. CASE RunError
  BY <1>10, <1>l DEF RunError, Leave, Done, Finished
<1>11. ASSUME NEW next \in shared, CallBusy(next) PROVE Goal
  BY <1>11, <1>l DEF CallBusy, Leave, Done, Finished
<1>12. ASSUME NEW next \in shared, NEW argNum \in 1..2, CallRefused(next, argNum)
       PROVE  Goal
  <2>2. \A i \in 1..Len(s) : s[i] # next /\ s[i] \in Thread
    BY <1>12, <1>b, CalleeNotOnStack DEF CallRefused, Free
  <2>3. argNum - 1 \in Nat
    OBVIOUS
  <2>4. \A t \in Thread : frames'[t] = <<>> <=> frames[t] = <<>>
    BY <1>12, <1>d, <2>3 DEF CallRefused, RaiseError
  <2>5. cur' = cur /\ \A i \in 1..Len(s) : caller'[s[i]] = caller[s[i]]
    BY <1>12, <2>2 DEF CallRefused, TypeInv, TypeOK
  <2>6. IsCallStack(s)'
    BY <2>2, <2>4, <2>5, SameStack
  <2>7. Done' = Done
    BY <1>12, <2>4 DEF Done, Finished, CallRefused, TypeInv, TypeOK
  <2> QED
    BY <1>12, <2>5, <2>6, <2>7, <1>s DEF Stay, CallRefused
<1>13. ASSUME NEW next \in shared, NEW argNum \in 1..2, Call(next, argNum)
       PROVE  Goal
  <2>2. \A i \in 1..Len(s) : s[i] # next /\ s[i] \in Thread
    BY <1>13, <1>b, CalleeNotOnStack DEF Call, Free
  <2>3. \A t \in Thread : frames'[t] = <<>> <=> frames[t] = <<>>
    BY <1>13, <1>d DEF Call, Popped
  <2>4. next \in Thread /\ cur' = next /\ caller'[next] = cur /\ frames[next] # <<>>
    BY <1>13 DEF Call, IsDone, Finished, TypeInv, TypeOK
  <2>5. \A i \in 1..Len(s) : caller'[s[i]] = caller[s[i]] /\ frames'[s[i]] # <<>>
    BY <1>13, <2>2, <2>3 DEF Call, IsCallStack, Finished, TypeInv, TypeOK
  <2>6. <<next>> \o s \in Seq(Thread) /\ IsCallStack(<<next>> \o s)'
    BY <2>2, <2>3, <2>4, <2>5, PushStack
  <2>7. Done' = Done /\ next \notin Done
    BY <1>13, <2>3, <2>4 DEF Done, Finished, Call, TypeInv, TypeOK
  <2> QED
    BY <1>13, <2>2, <2>4, <2>6, <2>7, <1>p DEF Push, Call
<1>14. ASSUME NEW argNum \in 1..2, Yield(argNum) PROVE Goal
  <2>2. \A t \in Thread : frames'[t] = <<>> <=> frames[t] = <<>>
    BY <1>14, <1>d DEF Yield, Popped
  <2>3. (\A t \in Thread \ {cur} : caller'[t] = caller[t]) /\ caller'[cur] = NULL
    BY <1>14, <1>e DEF Yield, TypeInv, TypeOK
  <2>4. Len(s) > 1 /\ Tail(s) \in Seq(Thread) /\ IsCallStack(Tail(s))'
    BY <1>14, <2>2, <2>3, PopStack DEF Yield
  <2>5. Done' = Done
    BY <1>14, <2>2 DEF Done, Finished, Yield, TypeInv, TypeOK
  <2> QED
    BY <1>14, <2>3, <2>4, <2>5, <1>q DEF Pop, Yield
<1>15. ASSUME NEW argNum \in 1..2, YieldToHost(argNum) PROVE Goal
  <2>1. \A t \in Thread : frames'[t] = <<>> <=> frames[t] = <<>>
    BY <1>15, <1>d DEF YieldToHost
  <2>2. Done' = Done
    BY <1>15, <2>1 DEF Done, Finished, YieldToHost, TypeInv, TypeOK
  <2> QED
    BY <1>15, <2>2, <1>l DEF YieldToHost, Leave
<1>16. CASE Suspend
  BY <1>16, <1>l DEF Suspend, Leave, Done, Finished
<1>17. CASE ImportWithStaleError \/ GetNullVariable
  BY <1>17, <1>c, <1>d DEF ImportWithStaleError, GetNullVariable
<1>f. ASSUME Running, Len(frames[cur]) = 1, frames' = [frames EXCEPT ![cur] = Tail(@)],
             created' = created
      PROVE  Done' = Done \union {cur} /\ \A t \in Thread \ {cur} : frames'[t] = frames[t]
  <2>1. cur \in created
    BY <1>e, <1>f DEF Running, Finished, TypeInv, Fresh
  <2>2. Tail(frames[cur]) = <<>>
    <3>1. /\ Tail(frames[cur]) \in Seq(Nat)
          /\ Len(Tail(frames[cur])) = Len(frames[cur]) - 1
      BY <1>e, <1>f, HeadTailProperties DEF Running, Finished
    <3>2. Len(Tail(frames[cur])) = 0
      BY <1>f, <3>1
    <3> QED
      BY <3>1, <3>2, EmptySeq
  <2>3. frames'[cur] = <<>> /\ \A t \in Thread \ {cur} : frames'[t] = frames[t]
    BY <1>e, <1>f, <2>2 DEF TypeInv, TypeOK
  <2> QED
    BY <1>f, <2>1, <2>3 DEF Done, Finished, TypeInv, TypeOK
<1>18. CASE ReturnToFrame
  <2>1. Tail(frames[cur]) # <<>>
    <3>1. Len(Tail(frames[cur])) = Len(frames[cur]) - 1
      BY <1>18, <1>e, HeadTailProperties DEF ReturnToFrame, Running, Finished
    <3>2. Len(frames[cur]) \in Nat /\ Len(frames[cur]) > 1
      BY <1>18, <1>e, LenProperties DEF ReturnToFrame
    <3>a. \A n \in Nat : n > 1 => n - 1 # 0
      OBVIOUS
    <3>3. Len(Tail(frames[cur])) # 0
      BY <3>1, <3>2, <3>a, Zenon
    <3>4. Len(<<>>) = 0
      OBVIOUS
    <3> QED
      BY <3>3, <3>4, Zenon
  <2>2. frames[cur] # <<>>
    BY <1>18 DEF ReturnToFrame, Running, Finished
  <2> QED
    BY <1>18, <1>c, <2>1, <2>2 DEF ReturnToFrame, TypeInv, TypeOK
<1>19. CASE ReturnToCaller
  <2>2. /\ \A t \in Thread \ {cur} : caller'[t] = caller[t] /\ frames'[t] = frames[t]
        /\ caller'[cur] = NULL
    BY <1>19, <1>e DEF ReturnToCaller, TypeInv, TypeOK
  <2>3. Len(s) > 1 /\ Tail(s) \in Seq(Thread) /\ IsCallStack(Tail(s))'
    BY <1>19, <2>2, PopStack DEF ReturnToCaller
  <2>4. Done' = Done \union {cur}
    BY <1>19, <1>f DEF ReturnToCaller
  <2> QED
    BY <1>19, <2>2, <2>3, <2>4, <1>q DEF Pop, ReturnToCaller
<1>20. CASE ReturnToHost
  <2>1. Done' = Done \union {cur}
    BY <1>20, <1>f DEF ReturnToHost
  <2>2. Len(s) = 1
    <3>1. Len(s) \in Nat \ {0}
      BY EmptySeq, LenProperties DEF IsCallStack
    <3>2. SUFFICES ASSUME Len(s) # 1 PROVE FALSE
      OBVIOUS
    <3>a. \A n \in Nat \ {0} : n # 1 => 1 \in 1..(n - 1) /\ 2 \in 1..n /\ 1 + 1 = 2
      OBVIOUS
    <3>3. 1 \in 1..(Len(s) - 1) /\ 2 \in 1..Len(s) /\ 1 + 1 = 2
      BY <3>1, <3>2, <3>a, Zenon
    <3>4. caller[s[1]] = s[2] /\ s[2] \in Thread
      BY <1>b, <3>3 DEF IsCallStack
    <3> QED
      BY <1>20, <3>4, ThreadAssumption DEF ReturnToHost, IsCallStack
  <2> QED
    BY <1>20, <2>1, <2>2, <1>l DEF ReturnToHost, Leave
<1>21. CASE UNCHANGED vars
  BY <1>21, <1>s DEF vars, Stay, Done, IsCallStack, Finished
<1> QED
  BY <1>1, <1>2, <1>3, <1>4, <1>5, <1>6, <1>8, <1>9, <1>10, <1>11, <1>12, <1>13, <1>14,
     <1>15, <1>16, <1>17, <1>18, <1>19, <1>20, <1>21 DEF Next, Operate, Return

LEMMA StackInvInit == Init => StackInv
BY TypeInvInit, FS_EmptySet DEF Init, StackInv, HostHidden, HasCallStack

LEMMA CreatedFinite == IsFiniteSet(created) /\ [Next]_vars => IsFiniteSet(created')
<1>1. [Next]_vars => created' = created \/ \E t : created' = created \union {t}
  BY DEF Next, Operate, Return, vars, Execute, New, NewThread, Import, Current,
   EnterFunction, AbortWithNull, Abort, PrimitiveError, GetNullVariable, RunError, CallBusy, CallRefused, Call,
   Yield, YieldToHost, Suspend, ImportWithStaleError, ReturnToFrame, ReturnToCaller, ReturnToHost
<1> QED
  BY <1>1, FS_AddElement

LEMMA StackInvNext == ~RootEscapes /\ StackInv /\ [Next]_vars => StackInv'
<1> SUFFICES ASSUME ~RootEscapes, StackInv, [Next]_vars
             PROVE  HasCallStack'
  BY TypeInvNext, HostHiddenNext, CreatedFinite DEF StackInv
<1>1. CASE vm = "running"
  <2>1. PICK s \in Seq(Thread) : IsCallStack(s)
    BY <1>1 DEF StackInv, HasCallStack
  <2>2. Stay(s) \/ (\E next \in Thread : Push(s, next)) \/ Pop(s) \/ Leave(s)
    BY <1>1, <2>1, StackStep DEF StackInv
  <2> QED
    BY <2>2 DEF Stay, Push, Pop, Leave, HasCallStack
<1>2. CASE vm # "running"
  <2>1. CASE \E t \in HostThread : Execute(t)
    <3>1. PICK t \in HostThread : Execute(t)
      BY <2>1
    <3>2. /\ t \in Thread /\ caller'[t] = NULL /\ frames'[t] = <<0>> /\ cur' = t
      BY <3>1 DEF Execute, NewThread, Thread, StackInv, TypeInv, TypeOK, Fresh
    <3>3. <<t>> \in Seq(Thread) /\ Len(<<t>>) = 1 /\ <<t>>[1] = t /\ <<t>> # <<>>
      BY <3>2
    <3>4. IsCallStack(<<t>>)'
      BY <3>2, <3>3 DEF IsCallStack, Finished
    <3> QED
      BY <3>3, <3>4 DEF HasCallStack
  <2>2. CASE ~ \E t \in HostThread : Execute(t)
    <3>1. ~Running
      BY <1>2 DEF Running
    <3>2. vm' = vm
      BY <2>2, <3>1 DEF Next, Operate, Return, vars, New, Import, Current, EnterFunction,
         AbortWithNull, Abort, PrimitiveError, GetNullVariable, RunError, CallBusy, CallRefused, Call, Yield,
         YieldToHost, Suspend, ImportWithStaleError, ReturnToFrame, ReturnToCaller, ReturnToHost
    <3> QED
      BY <1>2, <3>2 DEF HasCallStack
  <2> QED
    BY <2>1, <2>2
<1> QED
  BY <1>1, <1>2

-----------------------------------------------------------------------------
\* No call stack is longer than there are thread objects.
LEMMA StackBounded ==
  ASSUME TypeInv, IsFiniteSet(created), NEW s \in Seq(Thread), IsCallStack(s)
  PROVE  /\ Len(s) \in Nat \ {0}
         /\ Cardinality(created) \in Nat
         /\ Len(s) <= Cardinality(created)
<1>1. Len(s) \in Nat \ {0} /\ \A i \in 1..Len(s) : s[i] \in created
  BY EmptySeq, LenProperties, ElementOfSeq DEF IsCallStack, Finished, TypeInv, Fresh
<1>2. s \in [1..Len(s) -> created] /\ \A i, j \in 1..Len(s) : s[i] = s[j] => i = j
  BY <1>1, LenProperties DEF IsCallStack
<1>3. s \in Injection(1..Len(s), created)
  BY <1>2 DEF Injection, IsInjective
<1>4. Cardinality(1..Len(s)) <= Cardinality(created)
  BY <1>3, FS_Injection
<1>5. Cardinality(1..Len(s)) = Len(s)
  BY <1>1, FS_Interval
<1> QED
  BY <1>1, <1>4, <1>5, FS_CardinalityType

\* Following the caller pointers from the running thread finds the call stack.
LEMMA CallStackIs ==
  ASSUME TypeInv, IsFiniteSet(created), NEW s \in Seq(Thread), IsCallStack(s)
  PROVE  CallStack = s
<1> DEFINE K == Cardinality(created)
           Up(r) == caller[r[Len(r)]]
           Follows(f) == [n \in 0..K |->
                         IF n = 0 THEN <<cur>>
                         ELSE IF Up(f[n - 1]) = NULL THEN f[n - 1] ELSE Append(f[n - 1], Up(f[n - 1]))]
           follow == CHOOSE f : f = Follows(f)
           Prefix(n) == IF n < Len(s) THEN SubSeq(s, 1, n + 1) ELSE s
           p == [n \in 0..K |-> Prefix(n)]
<1>1. Len(s) \in Nat \ {0} /\ K \in Nat /\ Len(s) <= K
  BY StackBounded
<1>2. \A i \in 1..Len(s) : s[i] \in Thread
  BY ElementOfSeq
<1>3. CallStack = follow[K]
  BY DEF CallStack
<1>4. Prefix(0) = <<cur>>
  <2>1. SubSeq(s, 1, 1) \in Seq(Thread) /\ Len(SubSeq(s, 1, 1)) = 1 /\ SubSeq(s, 1, 1)[1] = s[1]
    BY <1>1, SubSeqProperties
  <2>2. cur \in Thread /\ s[1] = cur
    BY <1>1, <1>2 DEF IsCallStack
  <2>a. \A r \in Seq(Thread) : Len(r) = 1 => r = <<r[1]>>
    OBVIOUS
  <2>3. SubSeq(s, 1, 1) = <<cur>>
    BY <2>1, <2>2, <2>a, Zenon
  <2>4. Len(s) = 1 => s = <<cur>>
    BY <2>2, <2>a, Zenon
  <2> QED
    BY <1>1, <2>3, <2>4
<1>5. ASSUME NEW n \in 1..K
      PROVE  Prefix(n) = IF Up(Prefix(n - 1)) = NULL THEN Prefix(n - 1)
                         ELSE Append(Prefix(n - 1), Up(Prefix(n - 1)))
  <2>1. CASE n < Len(s)
    <3> DEFINE r == SubSeq(s, 1, n)
    <3>1. r \in Seq(Thread) /\ Len(r) = n /\ r[n] = s[n]
      BY <1>1, <2>1, SubSeqProperties
    <3>2. Up(r) = s[n + 1] /\ s[n + 1] \in Thread
      BY <1>1, <1>2, <2>1, <3>1 DEF IsCallStack
    <3>3. Append(r, s[n + 1]) = SubSeq(s, 1, n + 1)
      BY <1>1, <2>1, SubSeqRecursiveSecond
    <3>4. Prefix(n - 1) = r /\ Prefix(n) = SubSeq(s, 1, n + 1)
      BY <1>1, <2>1
    <3> HIDE DEF r, Prefix
    <3> QED
      BY <3>2, <3>3, <3>4, ThreadAssumption
  <2>2. CASE ~(n < Len(s))
    <3>1. n = Len(s) => SubSeq(s, 1, n) = s
      BY SubSeqFull
    <3>2. Prefix(n - 1) = s /\ Prefix(n) = s
      BY <1>1, <2>2, <3>1
    <3>3. Up(s) = NULL
      BY DEF IsCallStack
    <3> HIDE DEF Prefix
    <3> QED
      BY <3>2, <3>3
  <2> QED
    BY <2>1, <2>2
<1> HIDE DEF Prefix, Up
<1>6. p = Follows(p)
  BY <1>1, <1>4, <1>5
<1>7. follow = Follows(follow)
  BY <1>6, Zenon
<1> HIDE DEF follow, K
<1>8. 0..K \subseteq {n \in 0..K : follow[n] = Prefix(n)}
  <2> DEFINE S == {n \in 0..K : follow[n] = Prefix(n)}
  <2>1. 0 \in S
    BY <1>1, <1>4, <1>7
  <2>2. ASSUME NEW n \in 0..(K - 1), n \in S PROVE n + 1 \in S
    <3>1. n + 1 \in 1..K /\ (n + 1) - 1 = n
      BY <1>1
    <3>2. follow[n] = Prefix(n)
      BY <2>2
    <3>3. follow[n + 1] = IF Up(follow[n]) = NULL THEN follow[n]
                          ELSE Append(follow[n], Up(follow[n]))
      <4> DEFINE f == follow
      <4>1. n + 1 \in 0..K /\ n + 1 # 0
        BY <1>1, <3>1
      <4>2. f = Follows(f)
        BY <1>7
      <4> HIDE DEF f
      <4>3. f[n + 1] = IF Up(f[(n + 1) - 1]) = NULL THEN f[(n + 1) - 1]
                       ELSE Append(f[(n + 1) - 1], Up(f[(n + 1) - 1]))
        BY <4>1, <4>2
      <4> QED
        BY <3>1, <4>3 DEF f
    <3>4. Prefix(n + 1) = IF Up(Prefix(n)) = NULL THEN Prefix(n)
                          ELSE Append(Prefix(n), Up(Prefix(n)))
      BY <1>5, <3>1
    <3>5. follow[n + 1] = Prefix(n + 1)
      BY <3>2, <3>3, <3>4
    <3> QED
      BY <1>1, <3>1, <3>5
  <2> HIDE DEF S
  <2>3. 0..K \subseteq S
    BY <1>1, <2>1, <2>2, InductionUpTo
  <2> QED
    BY <2>3 DEF S
<1>9. Prefix(K) = s
  BY <1>1 DEF Prefix
<1> QED
  BY <1>1, <1>3, <1>8, <1>9

\* As long as no code hands out the host's thread, the threads that wait for
\* each other form a stack: from the running thread the caller pointers lead,
\* without repetition and through threads that can all be continued, to the
\* thread the host started.
THEOREM CallersFormAStack ==
  ASSUME ~RootEscapes
  PROVE  Spec => []CallStackOK
<1>1. Init => StackInv
  BY StackInvInit
<1>2. StackInv /\ [Next]_vars => StackInv'
  BY StackInvNext
<1>3. StackInv => CallStackOK
  <2> SUFFICES ASSUME StackInv, vm = "running"
               PROVE  cur # NULL /\ IsCallStack(CallStack)
    BY DEF CallStackOK
  <2>1. PICK s \in Seq(Thread) : IsCallStack(s)
    BY DEF StackInv, HasCallStack
  <2>2. CallStack = s
    BY <2>1, CallStackIs DEF StackInv
  <2>3. s[1] \in Thread
    BY <2>1, StackBounded, ElementOfSeq DEF StackInv
  <2> QED
    BY <2>1, <2>2, <2>3, ThreadAssumption DEF IsCallStack
<1> QED
  BY <1>1, <1>2, <1>3, PTL DEF Spec

\* Under the same condition the instruction loop always has a thread with a
\* frame to execute: OPCODE_RETURN, Thread.yield and Thread.call never leave
\* a finished thread in vm->curThread while the loop goes on.
THEOREM LoopHasAFrame ==
  ASSUME ~RootEscapes
  PROVE  Spec => []FinishedNeverRuns
<1>1. Init => StackInv
  BY StackInvInit
<1>2. StackInv /\ [Next]_vars => StackInv'
  BY StackInvNext
<1>3. StackInv => FinishedNeverRuns
  <2> SUFFICES ASSUME StackInv, vm = "running"
               PROVE  cur # NULL /\ ~Finished(cur)
    BY DEF FinishedNeverRuns
  <2>1. PICK s \in Seq(Thread) : IsCallStack(s)
    BY DEF StackInv, HasCallStack
  <2>2. 1 \in 1..Len(s) /\ s[1] \in Thread
    BY <2>1, StackBounded, ElementOfSeq DEF StackInv
  <2> QED
    BY <2>1, <2>2, ThreadAssumption DEF IsCallStack
<1> QED
  BY <1>1, <1>2, <1>3, PTL DEF Spec

-----------------------------------------------------------------------------
(***************************************************************************)
(* The refinement.  In a running state the call stack is the stack of the  *)
(* abstract module, and StackStep says which of its actions a step is.     *)
(***************************************************************************)
LEMMA CallStackUnique ==
  \A s \in Seq(Thread) : StackInv /\ IsCallStack(s) => CallStack = s
BY CallStackIs DEF StackInv

LEMMA CallStackUniqueNext ==
  (\A s \in Seq(Thread) : StackInv /\ IsCallStack(s) => CallStack = s)'
BY CallStackUnique, PTL

\* The stack of the abstract module.
Stack == IF vm = "running" THEN CallStack ELSE <<>>

LEMMA StackRefined ==
  ~RootEscapes /\ StackInv /\ [Next]_vars => [Abstract!Next]_<<Stack, Done>>
<1> SUFFICES ASSUME ~RootEscapes, StackInv, [Next]_vars
             PROVE  [Abstract!Next]_<<Stack, Done>>
  OBVIOUS
<1>1. StackInv'
  BY StackInvNext
<1>2. ASSUME NEW r \in Seq(Thread), IsCallStack(r)', vm' = "running" PROVE Stack' = r
  BY <1>1, <1>2, CallStackUniqueNext DEF Stack
<1>3. CASE vm = "running"
  <2>1. PICK s \in Seq(Thread) : IsCallStack(s)
    BY <1>3 DEF StackInv, HasCallStack
  <2>2. Stack = s /\ s # <<>> /\ s[1] = cur
    BY <1>3, <2>1, CallStackUnique DEF Stack, IsCallStack
  <2>3. Head(s) = cur
    BY <2>2
  <2>4. CASE Stay(s)
    BY <1>2, <2>2, <2>4 DEF Stay
  <2>5. ASSUME NEW next \in Thread, Push(s, next) PROVE Abstract!Push(next)
    <3>1. Stack' = <<next>> \o s /\ Done' = Done
      BY <1>2, <2>5 DEF Push
    <3>2. next \notin {s[i] : i \in 1..Len(s)} \union Done
      BY <2>5 DEF Push
    <3> QED
      BY <2>2, <3>1, <3>2 DEF Abstract!Push, Abstract!Pending, Stack, Done
  <2>6. ASSUME Pop(s) PROVE \E returned \in BOOLEAN : Abstract!Pop(returned)
    <3>1. Stack' = Tail(s) /\ Len(s) > 1
      BY <1>2, <2>6 DEF Pop
    <3>2. CASE Done' = Done
      BY <2>2, <3>1, <3>2 DEF Abstract!Pop, Stack, Done
    <3>3. CASE Done' = Done \union {cur}
      BY <2>2, <2>3, <3>1, <3>3 DEF Abstract!Pop, Stack, Done
    <3> QED
      BY <2>6, <3>2, <3>3 DEF Pop
  <2>7. ASSUME Leave(s) PROVE \E returned \in BOOLEAN : Abstract!Leave(returned)
    <3>1. Stack' = <<>>
      BY <2>7 DEF Leave, Stack
    <3>2. CASE Done' = Done
      BY <2>2, <3>1, <3>2 DEF Abstract!Leave, Stack, Done
    <3>3. CASE Len(s) = 1 /\ Done' = Done \union {cur}
      BY <2>2, <2>3, <3>1, <3>3 DEF Abstract!Leave, Stack, Done
    <3> QED
      BY <2>7, <3>2, <3>3 DEF Leave
  <2> QED
    BY <1>3, <2>1, <2>4, <2>5, <2>6, <2>7, StackStep DEF StackInv, Abstract!Next
<1>4. CASE vm # "running"
  <2>1. Stack = <<>>
    BY <1>4 DEF Stack
  <2>2. CASE UNCHANGED <<vm, created, frames>>
    BY <1>4, <2>2 DEF Stack, Done, Finished
  <2>3. CASE \E t \in HostThread : Execute(t)
    <3>1. PICK t \in HostThread : Execute(t)
      BY <2>3
    <3>2. /\ t \in Thread \ created /\ caller'[t] = NULL /\ frames'[t] = <<0>> /\ cur' = t
          /\ \A u \in Thread \ {t} : frames'[u] = frames[u]
          /\ created' = created \union {t} /\ vm' = "running"
      BY <3>1 DEF Execute, NewThread, Thread, StackInv, TypeInv, TypeOK, Fresh
    <3>3. <<t>> \in Seq(Thread) /\ Len(<<t>>) = 1 /\ <<t>>[1] = t /\ <<t>> # <<>>
      BY <3>2
    <3>4. IsCallStack(<<t>>)'
      BY <3>2, <3>3 DEF IsCallStack, Finished
    <3>5. Stack' = <<t>>
      BY <1>2, <3>2, <3>3, <3>4
    <3>6. Done' = Done /\ t \notin Done
      <4>1. <<0>> # <<>> /\ created \subseteq Thread /\ t \notin created
        BY <3>2 DEF StackInv, TypeInv, TypeOK
      <4>2. \A u \in created : frames'[u] = frames[u]
        BY <3>2, <4>1
      <4> QED
        BY <3>2, <4>1, <4>2 DEF Done, Finished
    <3>7. Abstract!Begin(t)
      BY <2>1, <3>5, <3>6 DEF Abstract!Begin, Stack, Done
    <3> QED
      BY <3>2, <3>7 DEF Abstract!Next
  <2>4. CASE ~ \E t \in HostThread : Execute(t)
    <3>1. ~Running
      BY <1>4 DEF Running
    <3>2. UNCHANGED <<vm, created, frames>>
      BY <2>4, <3>1 DEF Next, Operate, Return, vars, New, Import, Current, EnterFunction,
         AbortWithNull, Abort, PrimitiveError, GetNullVariable, RunError, CallBusy, CallRefused, Call, Yield,
         YieldToHost, Suspend, ImportWithStaleError, ReturnToFrame, ReturnToCaller, ReturnToHost
    <3> QED
      BY <2>2, <3>2
  <2> QED
    BY <2>3, <2>4
<1> QED
  BY <1>3, <1>4

\* The scheduler implements the control stack.
THEOREM ControlIsImplemented ==
  ASSUME ~RootEscapes
  PROVE  Spec => ControlIsNested
<1>1. Init => Abstract!Init
  BY DEF Init, Abstract!Init
<1>2. Init => StackInv
  BY StackInvInit
<1>3. StackInv /\ [Next]_vars => StackInv'
  BY StackInvNext
<1>4. StackInv /\ [Next]_vars
        => [Abstract!Next]_<<IF vm = "running" THEN CallStack ELSE <<>>, {t \in created : Finished(t)}>>
  BY StackRefined DEF Stack, Done
<1> QED
  BY <1>1, <1>2, <1>3, <1>4, PTL DEF Spec, ControlIsNested, Abstract!Spec

-----------------------------------------------------------------------------
(***************************************************************************)
(* Threads that are not on the call stack.  Within one run of the host a   *)
(* thread leaves the stack with its caller cleared, a refused call leaves  *)
(* a caller only on a thread that is done, and nobody clears the error of  *)
(* a thread that does not run.                                             *)
(***************************************************************************)
Callable(t) == Free(t) \/ IsDone(t)

ParkedInv ==
  /\ StackInv
  /\ created = {} \/ HostThread \subseteq created
  /\ \A s \in Seq(Thread) : vm = "running" /\ IsCallStack(s) =>
       \A t \in Thread : (\A i \in 1..Len(s) : s[i] # t) => Callable(t)

\* A step changes the caller, the frames and the error object only of the thread
\* that runs before it, of the thread that runs after it, or of one that is done.
LEMMA OthersStayCallable ==
  ASSUME TypeInv, vm = "running", [Next]_vars,
         NEW t \in Thread, t # cur, t # cur', Callable(t)
  PROVE  Callable(t)'
<1> USE DEF Callable, Free, IsDone, Finished
<1>s. ASSUME NEW n \in Nat, Running, LeaveStray(n)
      PROVE  \A u \in Thread : frames'[u] = <<>> <=> frames[u] = <<>>
  BY <1>s, LeaveStrayFrames DEF TypeInv
<1>1. ASSUME NEW u \in ScriptThread, New(u) PROVE Callable(t)'
  <2>1. u \in Thread /\ caller[u] = NULL
    BY <1>1 DEF New, NewThread, Thread, TypeInv, Fresh
  <2>2. t # u => frames'[t] = frames[t]
    BY <1>1 DEF New, NewThread, TypeInv, TypeOK
  <2> QED
    BY <1>1, <2>1, <2>2 DEF New
<1>2. ASSUME NEW u \in ScriptThread, Import(u) PROVE Callable(t)'
  BY <1>2 DEF Import, TypeInv, TypeOK
<1>3. CASE Current \/ AbortWithNull \/ EnterFunction \/ RunError \/ Suspend
  BY <1>3 DEF Current, AbortWithNull, EnterFunction, RunError, Suspend, TypeInv, TypeOK
<1>4. ASSUME NEW argNum \in 1..3, Running, RaiseError(argNum)
      PROVE  (failed[t] <=> failed'[t]) /\ (frames'[t] = <<>> <=> frames[t] = <<>>)
  <2>1. argNum - 1 \in Nat
    OBVIOUS
  <2>2. LeaveStray(argNum - 1)
    BY <1>4 DEF RaiseError
  <2>3. failed'[t] = failed[t]
    BY <1>4 DEF RaiseError, TypeInv, TypeOK
  <2> QED
    BY <1>4, <1>s, <2>1, <2>2, <2>3
<1>5. CASE Abort
  <2>1. 2 \in 1..3
    OBVIOUS
  <2> QED
    BY <1>4, <1>5, <2>1 DEF Abort
<1>6. ASSUME NEW argNum \in 1..3, PrimitiveError(argNum) PROVE Callable(t)'
  BY <1>4, <1>6 DEF PrimitiveError
<1>7. ASSUME NEW next \in shared, CallBusy(next) PROVE Callable(t)'
  BY <1>7 DEF CallBusy
<1>8. ASSUME NEW next \in shared, NEW argNum \in 1..2, CallRefused(next, argNum)
      PROVE  Callable(t)'
  <2>1. argNum \in 1..3
    OBVIOUS
  <2>2. (failed[t] <=> failed'[t]) /\ (frames'[t] = <<>> <=> frames[t] = <<>>)
    BY <1>4, <1>8, <2>1 DEF CallRefused
  <2>3. t # next => caller'[t] = caller[t]
    BY <1>8 DEF CallRefused, TypeInv, TypeOK
  <2>4. t = next => IsDone(t)
    BY <1>8 DEF CallRefused
  <2> QED
    BY <2>2, <2>3, <2>4
<1>9. ASSUME NEW next \in shared, NEW argNum \in 1..2, Call(next, argNum)
      PROVE  Callable(t)'
  <2>1. frames'[t] = <<>> <=> frames[t] = <<>>
    BY <1>9, <1>s DEF Call, Popped
  <2>2. caller'[t] = caller[t] /\ failed'[t] = failed[t]
    BY <1>9 DEF Call, TypeInv, TypeOK
  <2> QED
    BY <2>1, <2>2
<1>10. ASSUME NEW argNum \in 1..2, Yield(argNum) PROVE Callable(t)'
  <2>1. frames'[t] = <<>> <=> frames[t] = <<>>
    BY <1>10, <1>s DEF Yield, Popped
  <2>2. caller'[t] = caller[t] /\ failed'[t] = failed[t]
    BY <1>10 DEF Yield, TypeInv, TypeOK
  <2> QED
    BY <2>1, <2>2
<1>11. ASSUME NEW argNum \in 1..2, YieldToHost(argNum) PROVE Callable(t)'
  <2>1. frames'[t] = <<>> <=> frames[t] = <<>>
    BY <1>11, <1>s DEF YieldToHost
  <2> QED
    BY <1>11, <2>1 DEF YieldToHost
<1>12. CASE ImportWithStaleError \/ GetNullVariable
  <2>1. frames'[t] = <<>> <=> frames[t] = <<>>
    BY <1>12, <1>s DEF ImportWithStaleError, GetNullVariable
  <2> QED
    BY <1>12, <2>1 DEF ImportWithStaleError, GetNullVariable
<1>13. CASE Return
  <2>1. frames'[t] = frames[t] /\ caller'[t] = caller[t] /\ failed'[t] = failed[t]
    BY <1>13 DEF Return, ReturnToFrame, ReturnToCaller, ReturnToHost, TypeInv, TypeOK
  <2> QED
    BY <2>1
<1>14. CASE UNCHANGED vars
  BY <1>14 DEF vars
<1>15. ~ \E u \in HostThread : Execute(u)
  BY DEF Execute
<1> QED
  BY <1>1, <1>2, <1>3, <1>5, <1>6, <1>7, <1>8, <1>9, <1>10, <1>11, <1>12, <1>13, <1>14, <1>15
     DEF Next, Operate

LEMMA ParkedInvNext ==
  ASSUME ~RootEscapes, NEW h, HostThread = {h}, ParkedInv, [Next]_vars
  PROVE  ParkedInv'
<1>1. StackInv'
  BY StackInvNext DEF ParkedInv
<1>2. created' = {} \/ HostThread \subseteq created'
  <2>1. ASSUME Running PROVE created # {}
    BY <2>1 DEF Running, Finished, ParkedInv, StackInv, TypeInv, TypeOK, Fresh
  <2>2. ASSUME NEW t, Execute(t) PROVE h \in created'
    BY <2>2 DEF Execute, NewThread
  <2>3. \/ created' = created
        \/ Running /\ created \subseteq created'
        \/ \E t \in HostThread : Execute(t)
    BY DEF Next, Operate, Return, vars, New, NewThread, Import, Current, EnterFunction,
       AbortWithNull, Abort, PrimitiveError, GetNullVariable, RunError, CallBusy, CallRefused, Call, Yield,
       YieldToHost, Suspend, ImportWithStaleError, ReturnToFrame, ReturnToCaller, ReturnToHost
  <2> QED
    BY <2>1, <2>2, <2>3 DEF ParkedInv
<1>3. ASSUME NEW r \in Seq(Thread), vm' = "running", IsCallStack(r)',
             NEW t \in Thread, \A i \in 1..Len(r) : r[i] # t
      PROVE  Callable(t)'
  <2>u. ASSUME NEW q \in Seq(Thread), IsCallStack(q)' PROVE q = r
    BY <1>1, <1>3, <2>u, CallStackUniqueNext
  <2>n. t # cur'
    <3>1. Len(r) \in Nat \ {0} /\ r[1] = cur'
      BY <1>3, EmptySeq, LenProperties DEF IsCallStack
    <3> QED
      BY <1>3, <3>1
  <2>1. CASE vm = "running"
    <3>1. PICK s \in Seq(Thread) : IsCallStack(s)
      BY <2>1 DEF ParkedInv, StackInv, HasCallStack
    <3>2. /\ Len(s) \in Nat \ {0} /\ s[1] = cur
          /\ \A i \in 1..Len(s) : s[i] \in Thread
      BY <3>1, EmptySeq, LenProperties, ElementOfSeq DEF IsCallStack
    <3>3. ASSUME \A i \in 1..Len(s) : s[i] # t PROVE Callable(t)'
      <4>1. t # cur
        BY <3>2, <3>3
      <4>2. Callable(t)
        BY <2>1, <3>1, <3>3 DEF ParkedInv
      <4> QED
        BY <2>1, <2>n, <4>1, <4>2, OthersStayCallable DEF ParkedInv, StackInv
    <3>4. CASE Stay(s)
      BY <1>3, <2>u, <3>3, <3>4 DEF Stay
    <3>5. ASSUME NEW next \in Thread, Push(s, next) PROVE Callable(t)'
      <4>1. r = <<next>> \o s
        BY <2>u, <3>5 DEF Push
      <4>2. <<next>> \in Seq(Thread) /\ Len(<<next>>) = 1
        OBVIOUS
      <4>3. /\ Len(r) = 1 + Len(s)
            /\ \A i \in 1..(1 + Len(s)) : r[i] = IF i <= 1 THEN <<next>>[i] ELSE s[i - 1]
        BY <4>1, <4>2, ConcatProperties
      <4>4. \A i \in 1..Len(s) : i + 1 \in 1..Len(r) /\ r[i + 1] = s[i]
        BY <3>2, <4>3
      <4> QED
        BY <1>3, <3>3, <4>4
    <3>6. CASE Pop(s)
      <4>1. r = Tail(s) /\ caller'[cur] = NULL
        BY <2>u, <3>6 DEF Pop
      <4>2. CASE t = cur
        BY <4>1, <4>2 DEF Callable, Free
      <4>3. CASE t # cur
        <5>1. Len(r) = Len(s) - 1 /\ \A i \in 1..Len(r) : r[i] = s[i + 1]
          BY <3>1, <4>1, HeadTailProperties DEF IsCallStack
        <5>2. ASSUME NEW i \in 1..Len(s), s[i] = t PROVE FALSE
          <6>1. i # 1
            BY <3>2, <4>3, <5>2
          <6>2. i - 1 \in 1..Len(r) /\ (i - 1) + 1 = i
            BY <3>2, <5>1, <6>1
          <6>3. r[i - 1] = s[i]
            BY <5>1, <6>2
          <6> QED
            BY <1>3, <5>2, <6>2, <6>3
        <5> QED
          BY <3>3, <5>2
      <4> QED
        BY <4>2, <4>3
    <3>7. ~Leave(s)
      BY <1>3 DEF Leave
    <3> QED
      BY <2>1, <3>1, <3>4, <3>5, <3>6, <3>7, StackStep DEF ParkedInv, StackInv
  <2>2. CASE vm # "running"
    <3>1. ~Running
      BY <2>2 DEF Running
    <3>2. PICK u \in HostThread : Execute(u)
      BY <1>3, <2>2, <3>1 DEF Next, Operate, Return, vars, New, Import, Current, EnterFunction,
         AbortWithNull, Abort, PrimitiveError, GetNullVariable, RunError, CallBusy, CallRefused, Call, Yield,
         YieldToHost, Suspend, ImportWithStaleError, ReturnToFrame, ReturnToCaller, ReturnToHost
    <3>3. created = {} /\ caller' = caller
      BY <3>2 DEF Execute, NewThread, ParkedInv
    <3> QED
      BY <3>3 DEF Callable, Free, ParkedInv, StackInv, TypeInv, Fresh
  <2> QED
    BY <2>1, <2>2
<1> QED
  BY <1>1, <1>2, <1>3 DEF ParkedInv

\* In a program that is run from a file - the host executes one line or file,
\* its thread is not handed out - every thread that has given up control can be
\* called again until it is done.
THEOREM NoThreadIsBlocked ==
  ASSUME ~RootEscapes, NEW h, HostThread = {h}
  PROVE  Spec => []ParkedCanBeCalled
<1>1. Init => ParkedInv
  BY StackInvInit DEF Init, ParkedInv
<1>2. ParkedInv /\ [Next]_vars => ParkedInv'
  BY ParkedInvNext
<1>3. ParkedInv => ParkedCanBeCalled
  <2> SUFFICES ASSUME ParkedInv, vm = "running",
                      NEW t \in created \ {CallStack[i] : i \in 1..Len(CallStack)}
               PROVE  Free(t) \/ IsDone(t)
    BY DEF ParkedCanBeCalled
  <2>1. PICK s \in Seq(Thread) : IsCallStack(s)
    BY DEF ParkedInv, StackInv, HasCallStack
  <2>2. CallStack = s
    BY <2>1, CallStackUnique DEF ParkedInv
  <2>3. t \in Thread /\ \A i \in 1..Len(s) : s[i] # t
    BY <2>2 DEF ParkedInv, StackInv, TypeInv, TypeOK
  <2> QED
    BY <2>1, <2>3 DEF ParkedInv, Callable
<1> QED
  BY <1>1, <1>2, <1>3, PTL DEF Spec

-----------------------------------------------------------------------------
(***************************************************************************)
(* Stray slots.                                                            *)
(***************************************************************************)
\* LeaveStray changes the newest frame of the running thread, and not even that
\* when no slot is left.
LEMMA LeaveStrayKeepsFrames ==
  ASSUME TypeOK, Running, NEW n \in Nat, LeaveStray(n)
  PROVE  /\ \A t \in Thread \ {cur} : frames'[t] = frames[t]
         /\ n = 0 => frames'[cur] = frames[cur]
<1> DEFINE f == frames[cur]
<1>1. cur \in Thread /\ f \in Seq(Nat) /\ f # <<>>
  BY DEF TypeOK, Running, Finished
<1>2. frames' = [frames EXCEPT ![cur] = <<Head(f) + n>> \o Tail(f)]
  BY DEF LeaveStray
<1>3. n = 0 => <<Head(f) + n>> \o Tail(f) = f
  <2>1. Head(f) \in Nat /\ Tail(f) \in Seq(Nat)
    BY <1>1, HeadTailProperties
  <2>2. <<Head(f)>> \o Tail(f) = f
    BY <1>1
  <2> QED
    BY <2>1, <2>2
<1> QED
  BY <1>1, <1>2, <1>3 DEF TypeOK

\* Slot counts of frames that f and g have in common, counted from the bottom.
Agree(f, g) ==
  \A i \in 1..Len(f) :
    LET depth == Len(g) - Len(f) IN i + depth \in 1..Len(g) => g[i + depth] = f[i]

LEMMA AgreeCases ==
  ASSUME NEW f \in Seq(Nat)
  PROVE  Agree(f, f) /\ Agree(f, <<0>> \o f) /\ (f # <<>> => Agree(f, Tail(f)))
<1>1. Len(f) \in Nat
  BY LenProperties
<1>2. Agree(f, f)
  <2>1. \A i \in 1..Len(f) : i + (Len(f) - Len(f)) = i
    BY <1>1
  <2> QED
    BY <2>1 DEF Agree
<1>3. Agree(f, <<0>> \o f)
  <2>1. <<0>> \in Seq(Nat) /\ Len(<<0>>) = 1
    OBVIOUS
  <2>2. /\ Len(<<0>> \o f) = 1 + Len(f)
        /\ \A i \in 1..(1 + Len(f)) : (<<0>> \o f)[i] = IF i <= 1 THEN <<0>>[i] ELSE f[i - 1]
    BY <2>1, ConcatProperties
  <2> DEFINE g == <<0>> \o f
  <2> HIDE DEF g
  <2>3. \A i \in 1..Len(f) : i + (Len(g) - Len(f)) = i + 1 /\ g[i + 1] = f[i]
    BY <1>1, <2>2 DEF g
  <2>4. Agree(f, g)
    BY <2>3 DEF Agree
  <2> QED
    BY <2>4 DEF g
<1>4. ASSUME f # <<>> PROVE Agree(f, Tail(f))
  <2> DEFINE g == Tail(f)
  <2>1. Len(g) = Len(f) - 1 /\ \A i \in 1..Len(g) : g[i] = f[i + 1]
    BY <1>4, HeadTailProperties
  <2> HIDE DEF g
  <2>2. ASSUME NEW i \in 1..Len(f), i + (Len(g) - Len(f)) \in 1..Len(g)
        PROVE  g[i + (Len(g) - Len(f))] = f[i]
    <3>1. i + (Len(g) - Len(f)) = i - 1 /\ (i - 1) + 1 = i
      BY <1>1, <2>1
    <3> QED
      BY <2>1, <2>2, <3>1
  <2>3. Agree(f, g)
    BY <2>2 DEF Agree
  <2> QED
    BY <2>3 DEF g
<1> QED
  BY <1>2, <1>3, <1>4

LEMMA StrayStep ==
  ASSUME TypeInv, [Next]_vars, NEW t \in Thread
  PROVE  Agree(frames[t], frames'[t]) \/ (t = cur /\ cur' \in {cur, NULL})
<1> DEFINE Goal == Agree(frames[t], frames'[t]) \/ (t = cur /\ cur' \in {cur, NULL})
<1> SUFFICES Goal
  OBVIOUS
<1>f. frames[t] \in Seq(Nat) /\ frames \in [Thread -> Seq(Nat)] /\ failed \in [Thread -> BOOLEAN]
  BY DEF TypeInv, TypeOK
<1>a. ASSUME frames'[t] = frames[t] PROVE Goal
  BY <1>a, <1>f, AgreeCases
<1>e. ASSUME t = cur, cur' \in {cur, NULL} PROVE Goal
  BY <1>e
<1>n. ASSUME frames[t] = <<>> PROVE Goal
  <2>1. 1..Len(<<>>) = {}
    OBVIOUS
  <2> QED
    BY <1>n, <2>1 DEF Agree
<1> HIDE DEF Goal
<1>b. ASSUME UNCHANGED frames PROVE Goal
  BY <1>a, <1>b
<1>s. ASSUME NEW n \in Nat, Running, LeaveStray(n), t # cur \/ n = 0 PROVE Goal
  BY <1>s, <1>a, LeaveStrayKeepsFrames DEF TypeInv
<1>1. ASSUME NEW u \in Thread, NewThread(u) PROVE Goal
  <2>1. u = t => frames[t] = <<>>
    BY <1>1 DEF NewThread, TypeInv, Fresh
  <2>2. u # t => frames'[t] = frames[t]
    BY <1>1, <1>f DEF NewThread
  <2> QED
    BY <2>1, <2>2, <1>a, <1>n
<1>2. ASSUME NEW u \in HostThread, Execute(u) PROVE Goal
  BY <1>1, <1>2 DEF Execute, Thread
<1>3. ASSUME NEW u \in ScriptThread, New(u) PROVE Goal
  BY <1>1, <1>3 DEF New, Thread
<1>4. ASSUME NEW u \in ScriptThread, Import(u) PROVE Goal
  <2>1. u \in Thread /\ NewThread(u)
    BY <1>4 DEF Import, NewThread, Thread
  <2> QED
    BY <1>1, <2>1
<1>5. CASE Current \/ AbortWithNull \/ RunError \/ Suspend
  BY <1>5, <1>b DEF Current, AbortWithNull, RunError, Suspend
<1>6. ASSUME NEW next \in shared, CallBusy(next) PROVE Goal
  BY <1>6, <1>b DEF CallBusy
<1>7. CASE EnterFunction
  <2>1. t # cur => frames'[t] = frames[t]
    BY <1>7, <1>f DEF EnterFunction
  <2>2. t = cur => frames'[t] = <<0>> \o frames[t]
    BY <1>7, <1>f DEF EnterFunction
  <2>3. t = cur => Agree(frames[t], frames'[t])
    BY <2>2, <1>f, AgreeCases
  <2> QED
    BY <2>1, <2>3, <1>a DEF Goal
<1>8. ASSUME NEW argNum \in 1..3, Running, RaiseError(argNum), cur' = cur PROVE Goal
  <2>1. argNum - 1 \in Nat
    OBVIOUS
  <2> QED
    BY <1>8, <1>s, <1>e, <2>1 DEF RaiseError
<1>9. CASE Abort
  <2>1. 2 \in 1..3
    OBVIOUS
  <2> QED
    BY <1>8, <1>9, <2>1 DEF Abort
<1>10. ASSUME NEW argNum \in 1..3, PrimitiveError(argNum) PROVE Goal
  BY <1>8, <1>10 DEF PrimitiveError
<1>11. ASSUME NEW next \in shared, NEW argNum \in 1..2, CallRefused(next, argNum) PROVE Goal
  <2>1. argNum \in 1..3
    OBVIOUS
  <2> QED
    BY <1>8, <1>11, <2>1 DEF CallRefused
<1>12. \A argNum \in 1..2 : argNum - Popped(argNum) - 1 = 0
  BY DEF Popped
<1>13. ASSUME NEW next \in shared, NEW argNum \in 1..2, Call(next, argNum) PROVE Goal
  BY <1>12, <1>13, <1>s DEF Call
<1>14. ASSUME NEW argNum \in 1..2, Yield(argNum) PROVE Goal
  BY <1>12, <1>14, <1>s DEF Yield
<1>15. ASSUME NEW argNum \in 1..2, YieldToHost(argNum) PROVE Goal
  <2>1. argNum - 1 \in Nat
    OBVIOUS
  <2> QED
    BY <1>15, <1>s, <1>e, <2>1 DEF YieldToHost
<1>16. CASE ImportWithStaleError \/ GetNullVariable
  <2>1. 1 \in Nat /\ 2 \in Nat
    OBVIOUS
  <2> QED
    BY <1>16, <1>s, <1>e, <2>1 DEF ImportWithStaleError, GetNullVariable
<1>17. CASE Return
  <2>1. Running /\ frames' = [frames EXCEPT ![cur] = Tail(frames[cur])]
    BY <1>17 DEF Return, ReturnToFrame, ReturnToCaller, ReturnToHost
  <2>2. t # cur => frames'[t] = frames[t]
    BY <2>1, <1>f
  <2>3. t = cur => frames[t] # <<>> /\ frames'[t] = Tail(frames[t])
    BY <2>1, <1>f DEF Running, Finished
  <2>4. t = cur => Agree(frames[t], frames'[t])
    BY <2>3, <1>f, AgreeCases
  <2> QED
    BY <2>2, <2>4, <1>a DEF Goal
<1>18. CASE UNCHANGED vars
  BY <1>18, <1>b DEF vars
<1> QED
  BY <1>2, <1>3, <1>4, <1>5, <1>6, <1>7, <1>9, <1>10, <1>11, <1>13, <1>14, <1>15, <1>16,
     <1>17, <1>18 DEF Next, Operate

\* For any threads: no call, yield, import or return that goes on with another thread leaves a slot
\* on a stack that the compiled code does not expect there (switchThread(), the yields, RETURN).
THEOREM SwitchesLeaveNothing == Spec => SwitchesKeepStacks
<1>1. TypeInv /\ [Next]_vars =>
        \A t \in Thread : \A i \in 1..Len(frames[t]) :
          LET depth == Len(frames'[t]) - Len(frames[t])
          IN  i + depth \in 1..Len(frames'[t]) /\ frames'[t][i + depth] # frames[t][i]
                => t = cur /\ cur' \in {cur, NULL}
  BY StrayStep DEF Agree
<1> QED
  BY <1>1, TypeInvInit, TypeInvNext, PTL DEF Spec, SwitchesKeepStacks

-----------------------------------------------------------------------------
(***************************************************************************)
(* The hash table.  For every set of keys, every hash function and every   *)
(* capacity: it implements a map as long as no script stores to a key that *)
(* lies behind a tombstone, and a loop over it gives the keys.             *)
(***************************************************************************)
-----------------------------------------------------------------------------
(***************************************************************************)
(* Probing: within one round a probe visits every entry once.              *)
(***************************************************************************)
LEMMA Division ==
  \A a \in Nat, b \in Nat \ {0} :
    /\ a \div b \in Nat /\ a % b \in 0..(b - 1)
    /\ a = b * (a \div b) + (a % b)
OBVIOUS

LEMMA UniqueRemainder ==
  ASSUME NEW b \in Nat \ {0}, NEW p \in Int, NEW q \in Int,
         NEW r \in 0..(b - 1), NEW s \in 0..(b - 1), b * p + r = b * q + s
  PROVE  r = s
<1>1. b * (p - q) = s - r
  OBVIOUS
<1>2. \A d \in Int : d >= 1 => b * d >= b
  OBVIOUS
<1>3. \A d \in Int : d <= -1 => b * d <= -b
  OBVIOUS
<1>4. p - q < 1
  BY <1>1, <1>2
<1>5. p - q > -1
  BY <1>1, <1>3
<1>6. p - q = 0
  BY <1>4, <1>5
<1> QED
  BY <1>6

LEMMA SlotProperties ==
  ASSUME NEW k \in Key, NEW size \in Nat \ {0}
  PROVE  /\ \A n \in Nat : Slot(k, n, size) \in 0..(size - 1)
         /\ \A m, n \in 0..(size - 1) : Slot(k, m, size) = Slot(k, n, size) => m = n
         /\ \A i \in 0..(size - 1) : \E n \in 0..(size - 1) : Slot(k, n, size) = i
<1> DEFINE h == Hash[k]
<1>1. h \in Nat
  BY HashMapAssumption
<1> HIDE DEF h
<1>2. \A n \in Nat : Slot(k, n, size) = (h + n) % size /\ h + n \in Nat
  BY <1>1 DEF Slot, h
<1>d. \A n \in Nat :
        /\ (h + n) \div size \in Nat /\ (h + n) % size \in 0..(size - 1)
        /\ h + n = size * ((h + n) \div size) + ((h + n) % size)
  BY <1>2, Division, Zenon
<1>3. \A n \in Nat : Slot(k, n, size) \in 0..(size - 1)
  BY <1>2, <1>d, Zenon
<1>4. ASSUME NEW m \in 0..(size - 1), NEW n \in 0..(size - 1),
             Slot(k, m, size) = Slot(k, n, size)
      PROVE  m = n
  <2> DEFINE r == (h + m) % size
             p == (h + m) \div size
             q == (h + n) \div size
  <2>1. m \in Nat /\ n \in Nat
    OBVIOUS
  <2>2. (h + n) % size = r
    BY <1>2, <1>4, <2>1
  <2>3. h + m = size * p + r /\ p \in Nat /\ r \in 0..(size - 1)
    BY <1>d, <2>1, Zenon
  <2>4. h + n = size * q + r /\ q \in Nat
    BY <1>d, <2>1, <2>2, Zenon
  <2> HIDE DEF r, p, q
  <2>5. p \in Int /\ q \in Int
    BY <2>3, <2>4
  <2>8. CASE m <= n
    <3> DEFINE d == n - m
    <3>1. size * p + d = size * q + 0
      BY <1>1, <2>3, <2>4
    <3>2. d \in 0..(size - 1) /\ 0 \in 0..(size - 1)
      BY <2>8
    <3> HIDE DEF d
    <3>3. d = 0
      BY <2>5, <3>1, <3>2, UniqueRemainder, Zenon
    <3> QED
      BY <3>3 DEF d
  <2>9. CASE n <= m
    <3> DEFINE d == m - n
    <3>1. size * q + d = size * p + 0
      BY <1>1, <2>3, <2>4
    <3>2. d \in 0..(size - 1) /\ 0 \in 0..(size - 1)
      BY <2>9
    <3> HIDE DEF d
    <3>3. d = 0
      BY <2>5, <3>1, <3>2, UniqueRemainder, Zenon
    <3> QED
      BY <3>3 DEF d
  <2> QED
    BY <2>8, <2>9
<1>5. ASSUME NEW i \in 0..(size - 1) PROVE \E n \in 0..(size - 1) : Slot(k, n, size) = i
  <2> DEFINE r == h % size
             q == h \div size
             n == IF r <= i THEN i - r ELSE i - r + size
  <2>1. h = size * q + r /\ q \in Nat /\ r \in 0..(size - 1)
    BY <1>1, Division
  <2>2. \E p \in Int : h + n = size * p + i
    <3> HIDE DEF q, r
    <3>1. CASE r <= i
      BY <1>1, <2>1, <3>1
    <3>2. CASE ~(r <= i)
      <4>1. h + n = size * q + size + i
        BY <1>1, <2>1, <3>2
      <4>2. size * (q + 1) = size * q + size
        BY <2>1
      <4>3. q + 1 \in Int
        BY <2>1
      <4> QED
        BY <4>1, <4>2, <4>3
    <3> QED
      BY <3>1, <3>2
  <2>3. n \in 0..(size - 1)
    <3> HIDE DEF q, r
    <3> QED
      BY <2>1
  <2> HIDE DEF n, r, q
  <2>4. PICK p \in Int : h + n = size * p + i
    BY <2>2
  <2>5. h + n \in Nat /\ n \in Nat
    BY <1>1, <2>3
  <2>6. /\ h + n = size * ((h + n) \div size) + ((h + n) % size)
        /\ (h + n) \div size \in Nat /\ (h + n) % size \in 0..(size - 1)
    BY <1>d, <2>5, Zenon
  <2>7. (h + n) % size = i
    <3> DEFINE d == (h + n) % size
               e == (h + n) \div size
    <3>1. size * e + d = size * p + i /\ e \in Int /\ d \in 0..(size - 1)
      BY <2>4, <2>6
    <3> HIDE DEF d, e
    <3> QED
      BY <3>1, UniqueRemainder DEF d
  <2> QED
    BY <1>2, <2>3, <2>5, <2>7
<1> QED
  BY <1>3, <1>4, <1>5

\* A search over the first places ends at the first one in S, or after all.
LEMMA FirstPlace ==
  ASSUME NEW size \in Nat, NEW S
  PROVE  \E n \in 0..size :
           /\ \A m \in 0..(n - 1) : m \notin S
           /\ n = size \/ n \in S
<1> DEFINE T == {n \in 0..size : n = size \/ n \in S}
<1>1. T # {} /\ T \subseteq Nat
  OBVIOUS
<1> HIDE DEF T
<1>2. PICK n \in T : \A m \in T : n <= m
  BY <1>1, LeastNumber
<1>3. n \in 0..size /\ (n = size \/ n \in S)
  BY DEF T
<1>4. ASSUME NEW m \in 0..(n - 1), m \in S PROVE FALSE
  <2>1. m \in T
    BY <1>3, <1>4 DEF T
  <2> QED
    BY <1>2, <1>3, <1>4, <2>1
<1> QED
  BY <1>3, <1>4

-----------------------------------------------------------------------------
(***************************************************************************)
(* Tables.  A table is sound if a key has one entry and no end of chain    *)
(* lies between the place its hash asks for and the entry it has.          *)
(***************************************************************************)
Tables(size) == [0..size - 1 -> Entry]

Keys(table, size) == {table[i].key : i \in Used(table, size)}

Sound(table, size) ==
  /\ \A i, j \in 0..(size - 1) : table[i].key = table[j].key /\ table[i].key \in Key => i = j
  /\ \A k \in Key, n \in 0..(size - 1) : table[Slot(k, n, size)].key = k
       => \A m \in 0..(n - 1) : table[Slot(k, m, size)] # EndOfChain

LEMMA UsedEntry ==
  ASSUME NEW size \in Nat, NEW T \in Tables(size), NEW i \in 0..(size - 1)
  PROVE  /\ T[i] \in Entry
         /\ i \in Used(T, size) <=> T[i].key \in Key
         /\ i \notin Used(T, size) <=> T[i].key = UNDEFINED
         /\ T[i].key \in Key => T[i] # EndOfChain
BY HashMapAssumption DEF Tables, Entry, Used, EndOfChain

\* findEntry() finds a key that is there, and only such a key.
LEMMA FindEntryProperties ==
  ASSUME capacity \in Nat, entries \in Tables(capacity), Sound(entries, capacity), NEW k \in Key
  PROVE  /\ \A i \in 0..(capacity - 1) : entries[i].key = k => FindEntry(k) = i
         /\ (\A i \in 0..(capacity - 1) : entries[i].key # k) => FindEntry(k) \in {NotThere, Endless}
<1> DEFINE n == Misses(k, entries, capacity, LAMBDA e : e.key = k \/ e = EndOfChain)
           At(m) == entries[Slot(k, m, capacity)]
           Stops == {m \in 0..(capacity - 1) : At(m).key = k \/ At(m) = EndOfChain}
<1>1. CASE capacity = 0
  BY <1>1 DEF FindEntry
<1>2. CASE capacity # 0
  <2>1. capacity \in Nat \ {0}
    BY <1>2
  <2>2. /\ n \in 0..capacity
        /\ \A m \in 0..(n - 1) : ~(At(m).key = k \/ At(m) = EndOfChain)
        /\ n = capacity \/ At(n).key = k \/ At(n) = EndOfChain
    <3>1. PICK p \in 0..capacity : (\A m \in 0..(p - 1) : m \notin Stops) /\ (p = capacity \/ p \in Stops)
      BY FirstPlace
    <3>2. /\ \A m \in 0..(p - 1) : ~(At(m).key = k \/ At(m) = EndOfChain)
          /\ p = capacity \/ (At(p).key = k \/ At(p) = EndOfChain)
      BY <3>1
    <3>3. n = CHOOSE q \in 0..capacity :
                /\ \A m \in 0..(q - 1) : ~(At(m).key = k \/ At(m) = EndOfChain)
                /\ q = capacity \/ (At(q).key = k \/ At(q) = EndOfChain)
      BY DEF Misses
    <3> HIDE DEF n, At, Stops
    <3> QED
      BY <3>1, <3>2, <3>3
  <2>3. FindEntry(k) = IF n = capacity THEN Endless
                       ELSE IF At(n) = EndOfChain THEN NotThere ELSE Slot(k, n, capacity)
    BY <1>2 DEF FindEntry
  <2> HIDE DEF n
  <2>4. ASSUME NEW i \in 0..(capacity - 1), entries[i].key = k PROVE FindEntry(k) = i
    <3>1. PICK p \in 0..(capacity - 1) : Slot(k, p, capacity) = i
      BY <2>1, SlotProperties
    <3>2. At(p).key = k /\ At(p) # EndOfChain
      BY <2>4, <3>1, UsedEntry
    <3>3. \A m \in 0..(p - 1) : At(m) # EndOfChain
      BY <2>4, <3>1 DEF Sound
    <3>4. \A m \in 0..(p - 1) : At(m).key # k
      <4> SUFFICES ASSUME NEW m \in 0..(p - 1), At(m).key = k PROVE FALSE
        OBVIOUS
      <4>1. m \in 0..(capacity - 1) /\ m \in Nat /\ m # p
        OBVIOUS
      <4>2. Slot(k, m, capacity) \in 0..(capacity - 1)
        BY <2>1, <4>1, SlotProperties
      <4>3. Slot(k, m, capacity) = Slot(k, p, capacity)
        BY <2>4, <3>1, <4>2 DEF Sound
      <4> QED
        BY <2>1, <4>1, <4>3, SlotProperties
    <3> HIDE DEF At
    <3>5. n = p
      <4>1. ~(p < n)
        BY <2>2, <3>2
      <4>2. ~(n < p)
        BY <2>2, <3>3, <3>4
      <4> QED
        BY <2>2, <4>1, <4>2
    <3> QED
      BY <2>3, <3>1, <3>2, <3>5
  <2>5. ASSUME \A i \in 0..(capacity - 1) : entries[i].key # k
        PROVE  FindEntry(k) \in {NotThere, Endless}
    <3>1. CASE n = capacity
      BY <2>3, <3>1
    <3>2. CASE n # capacity
      <4>1. n \in 0..(capacity - 1)
        BY <2>2, <3>2
      <4>2. At(n).key # k
        BY <2>1, <2>5, <4>1, SlotProperties
      <4> HIDE DEF At
      <4> QED
        BY <2>2, <2>3, <3>2, <4>2
    <3> QED
      BY <3>1, <3>2
  <2> QED
    BY <2>4, <2>5
<1> QED
  BY <1>1, <1>2

\* U is the table T with the entry i given to k.
AddedAt(T, U, size, k, v, i) ==
  /\ U = [T EXCEPT ![i] = [key |-> k, value |-> v]]
  /\ T[i].key = k \/ (T[i].key = UNDEFINED /\ \A j \in 0..(size - 1) : T[j].key # k)

\* addEntry(), when there is a free entry and no tombstone hides the key.
LEMMA AddEntryProperties ==
  ASSUME NEW size \in Nat \ {0}, NEW T \in Tables(size), Sound(T, size),
         NEW k \in Key, NEW v \in Value \union BOOLEAN,
         \E i \in 0..(size - 1) : T[i].key \in {k, UNDEFINED},
         ~Shadowed(T, size, k)
  PROVE  /\ AddEntry(T, size, k, v) \in Tables(size)
         /\ Sound(AddEntry(T, size, k, v), size)
         /\ \E i \in 0..(size - 1) : AddedAt(T, AddEntry(T, size, k, v), size, k, v, i)
<1> DEFINE n == Misses(k, T, size, LAMBDA e : e.key \in {k, UNDEFINED})
           At(m) == T[Slot(k, m, size)]
           Stops == {m \in 0..(size - 1) : At(m).key \in {k, UNDEFINED}}
           i == Slot(k, n, size)
           U == AddEntry(T, size, k, v)
           e == [key |-> k, value |-> v]
<1>1. /\ n \in 0..size
      /\ \A m \in 0..(n - 1) : At(m).key \notin {k, UNDEFINED}
      /\ n = size \/ At(n).key \in {k, UNDEFINED}
  <2>1. PICK p \in 0..size : (\A m \in 0..(p - 1) : m \notin Stops) /\ (p = size \/ p \in Stops)
    <3> HIDE DEF Stops
    <3>1. size \in Nat
      OBVIOUS
    <3> QED
      BY <3>1, FirstPlace
  <2>2. /\ \A m \in 0..(p - 1) : ~(At(m).key \in {k, UNDEFINED})
        /\ p = size \/ At(p).key \in {k, UNDEFINED}
    BY <2>1
  <2>3. n = CHOOSE q \in 0..size :
              /\ \A m \in 0..(q - 1) : ~(At(m).key \in {k, UNDEFINED})
              /\ q = size \/ At(q).key \in {k, UNDEFINED}
    BY DEF Misses
  <2> HIDE DEF n, At, Stops
  <2> QED
    BY <2>1, <2>2, <2>3
<1>2. U = [T EXCEPT ![i] = e]
  BY DEF AddEntry
<1>3. ~(\E j \in Used(T, size) : T[j].key = k) \/ T[i].key = k
  BY DEF Shadowed
<1> HIDE DEF n, U
<1>4. n # size
  <2>1. PICK j \in 0..(size - 1) : T[j].key \in {k, UNDEFINED}
    OBVIOUS
  <2>2. PICK p \in 0..(size - 1) : Slot(k, p, size) = j
    BY SlotProperties
  <2>3. p \in 0..(size - 1) /\ At(p).key \in {k, UNDEFINED}
    BY <2>1, <2>2
  <2> HIDE DEF At
  <2> QED
    BY <1>1, <2>3
<1>5. i \in 0..(size - 1) /\ n \in 0..(size - 1) /\ T[i].key \in {k, UNDEFINED}
  <2>1. n \in 0..(size - 1)
    BY <1>1, <1>4
  <2> QED
    BY <1>1, <1>4, <2>1, SlotProperties
<1>6. \A m \in 0..(n - 1) : At(m).key \notin {k, UNDEFINED}
  BY <1>1
<1> HIDE DEF i
<1>7. e \in Entry /\ e.key = k /\ e # EndOfChain
  BY HashMapAssumption DEF Entry, EndOfChain
<1> HIDE DEF e
<1>8. U \in Tables(size) /\ U[i] = e /\ \A j \in 0..(size - 1) \ {i} : U[j] = T[j]
  BY <1>2, <1>5, <1>7 DEF Tables
<1>9. T[i].key = k \/ (T[i].key = UNDEFINED /\ \A j \in 0..(size - 1) : T[j].key # k)
  BY <1>3, <1>5, UsedEntry
<1>10. ASSUME NEW p \in 0..(size - 1), NEW j \in 0..(size - 1), U[p].key = U[j].key, U[p].key \in Key
       PROVE  p = j
  <2>1. \A a, b \in 0..(size - 1) : T[a].key = T[b].key /\ T[a].key \in Key => a = b
    BY DEF Sound
  <2> QED
    BY <1>7, <1>8, <1>9, <1>10, <2>1
<1>11. ASSUME NEW l \in Key, NEW p \in 0..(size - 1), U[Slot(l, p, size)].key = l,
              NEW m \in 0..(p - 1)
       PROVE  U[Slot(l, m, size)] # EndOfChain
  <2>1. /\ Slot(l, p, size) \in 0..(size - 1) /\ m \in 0..(size - 1)
        /\ Slot(l, m, size) \in 0..(size - 1)
    <3>1. m \in Nat /\ p \in Nat /\ m \in 0..(size - 1)
      OBVIOUS
    <3> QED
      BY <3>1, SlotProperties
  <2>2. CASE Slot(l, p, size) # i
    <3>1. T[Slot(l, p, size)].key = l
      BY <1>8, <1>11, <2>1, <2>2
    <3>2. T[Slot(l, m, size)] # EndOfChain
      BY <3>1 DEF Sound
    <3> QED
      BY <1>7, <1>8, <2>1, <3>2
  <2>3. CASE Slot(l, p, size) = i
    <3>1. l = k
      BY <1>7, <1>8, <1>11, <2>3
    <3>2. p = n
      BY <1>5, <2>3, <3>1, SlotProperties DEF i
    <3>3. T[Slot(l, m, size)].key # UNDEFINED
      BY <1>6, <3>1, <3>2
    <3>4. T[Slot(l, m, size)] # EndOfChain
      BY <2>1, <3>3 DEF EndOfChain
    <3> QED
      BY <1>7, <1>8, <2>1, <3>4
  <2> QED
    BY <2>2, <2>3
<1>12. Sound(U, size)
  BY <1>10, <1>11 DEF Sound
<1>13. AddedAt(T, U, size, k, v, i)
  BY <1>2, <1>9 DEF AddedAt, e
<1> QED
  BY <1>5, <1>8, <1>12, <1>13 DEF U

\* The entries in use.
Contents(table, size) == {table[i] : i \in Used(table, size)}
Without(set, k) == {e \in set : e.key # k}

LEMMA UsedFinite ==
  ASSUME NEW size \in Nat, NEW T
  PROVE  /\ IsFiniteSet(Used(T, size))
         /\ Cardinality(Used(T, size)) \in Nat /\ Cardinality(Used(T, size)) <= size
<1>1. IsFiniteSet(0..size - 1) /\ Cardinality(0..size - 1) = size
  <2>1. 0 \in Int /\ size - 1 \in Int
    OBVIOUS
  <2>2. /\ IsFiniteSet(0..(size - 1))
        /\ Cardinality(0..(size - 1)) = IF 0 > size - 1 THEN 0 ELSE (size - 1) - 0 + 1
    BY <2>1, FS_Interval
  <2> QED
    BY <2>2
<1>2. Used(T, size) \in SUBSET (0..size - 1)
  BY DEF Used
<1>3. IsFiniteSet(Used(T, size)) /\ Cardinality(Used(T, size)) <= Cardinality(0..size - 1)
  BY <1>1, <1>2, FS_Subset
<1> QED
  BY <1>1, <1>3, FS_CardinalityType

\* A table that is not full has a free entry.
LEMMA FreeEntry ==
  ASSUME NEW size \in Nat, NEW T \in Tables(size), Cardinality(Used(T, size)) < size
  PROVE  \E i \in 0..(size - 1) : T[i].key = UNDEFINED
<1> SUFFICES ASSUME \A i \in 0..(size - 1) : T[i].key # UNDEFINED PROVE FALSE
  OBVIOUS
<1>1. Used(T, size) = 0..(size - 1)
  BY DEF Used
<1>2. Cardinality(0..(size - 1)) = size
  <2>1. 0 \in Int /\ size - 1 \in Int
    OBVIOUS
  <2>2. Cardinality(0..(size - 1)) = IF 0 > size - 1 THEN 0 ELSE (size - 1) - 0 + 1
    BY <2>1, FS_Interval
  <2> QED
    BY <2>2
<1> QED
  BY <1>1, <1>2

\* What the entry of k adds to a table.
LEMMA AddedProperties ==
  ASSUME NEW size \in Nat, NEW T \in Tables(size), Sound(T, size),
         NEW k \in Key, NEW v \in Value \union BOOLEAN,
         NEW U \in Tables(size), NEW i \in 0..(size - 1), AddedAt(T, U, size, k, v, i)
  PROVE  /\ Used(U, size) = Used(T, size) \union {i}
         /\ Contents(U, size) = Without(Contents(T, size), k) \union {[key |-> k, value |-> v]}
         /\ i \in Used(T, size) <=> T[i].key = k
         /\ \A j \in Used(T, size) : U[j].key = T[j].key
<1> DEFINE e == [key |-> k, value |-> v]
<1>1. /\ U[i] = e /\ e.key = k /\ k # UNDEFINED
      /\ \A j \in 0..(size - 1) \ {i} : U[j] = T[j]
  BY HashMapAssumption DEF AddedAt, Tables
<1>2. T[i].key = k \/ (T[i].key = UNDEFINED /\ \A j \in 0..(size - 1) : T[j].key # k)
  BY DEF AddedAt
<1>3. \A j \in 0..(size - 1) : j # i => T[j].key # k
  BY <1>2 DEF Sound
<1> HIDE DEF e
<1>4. Used(U, size) = Used(T, size) \union {i}
  BY <1>1 DEF Used
<1>5. Contents(U, size) = Without(Contents(T, size), k) \union {e}
  <2>1. ASSUME NEW j \in Used(U, size) PROVE U[j] \in Without(Contents(T, size), k) \union {e}
    <3>1. CASE j = i
      BY <1>1, <3>1
    <3>2. CASE j # i
      <4>1. j \in 0..(size - 1) /\ U[j] = T[j] /\ T[j].key # k /\ j \in Used(T, size)
        BY <1>1, <1>3, <2>1, <3>2 DEF Used
      <4> QED
        BY <4>1 DEF Contents, Without
    <3> QED
      BY <3>1, <3>2
  <2>2. ASSUME NEW f \in Contents(T, size), f.key # k PROVE f \in Contents(U, size)
    <3>1. PICK j \in Used(T, size) : f = T[j]
      BY DEF Contents
    <3>2. j # i
      BY <1>1, <1>2, <2>2, <3>1 DEF Used
    <3>3. j \in Used(U, size) /\ U[j] = T[j]
      BY <1>1, <1>4, <3>2 DEF Used
    <3> QED
      BY <3>1, <3>3 DEF Contents
  <2>3. e \in Contents(U, size)
    BY <1>1, <1>4 DEF Contents
  <2> QED
    BY <2>1, <2>2, <2>3 DEF Contents, Without
<1>6. i \in Used(T, size) <=> T[i].key = k
  BY <1>1, <1>2 DEF Used
<1>7. \A j \in Used(T, size) : U[j].key = T[j].key
  BY <1>1, <1>6 DEF Used
<1> QED
  BY <1>4, <1>5, <1>6, <1>7 DEF e

\* resizeMap() keeps the contents.
LEMMA ResizedProperties ==
  ASSUME capacity \in Nat, NEW T \in Tables(capacity), Sound(T, capacity),
         NEW size \in Nat \ {0}, Cardinality(Used(T, capacity)) <= size
  PROVE  /\ Resized(T, size) \in Tables(size)
         /\ Sound(Resized(T, size), size)
         /\ Contents(Resized(T, size), size) = Contents(T, capacity)
         /\ Cardinality(Used(Resized(T, size), size)) = Cardinality(Used(T, capacity))
<1> DEFINE Copy(U, e) == IF e.key = UNDEFINED THEN U ELSE AddEntry(U, size, e.key, e.value)
           Rule(f) == [i \in 0..capacity |->
                         IF i = 0 THEN Empty(size) ELSE
                         LET e == T[i - 1]
                         IN  IF e.key = UNDEFINED THEN f[i - 1]
                             ELSE AddEntry(f[i - 1], size, e.key, e.value)]
           copied == CHOOSE f : f = Rule(f)
           step == [i \in Nat |-> [U \in Tables(size) |->
                      IF i \in 1..capacity THEN Copy(U, T[i - 1]) ELSE U]]
           Below(i) == {j \in 0..(i - 1) : T[j].key # UNDEFINED}
           Good(i, U) ==
             /\ U \in Tables(size)
             /\ Sound(U, size)
             /\ Contents(U, size) = {T[j] : j \in Below(i)}
             /\ Cardinality(Used(U, size)) = Cardinality(Below(i))
<1>1. \A i \in 1..capacity : i - 1 \in 0..(capacity - 1) /\ T[i - 1] \in Entry
  <2> TAKE i \in 1..capacity
  <2>1. i - 1 \in 0..(capacity - 1)
    OBVIOUS
  <2> QED
    BY <2>1 DEF Tables
<1>2. ASSUME NEW U \in Tables(size), NEW k \in Key, NEW v \in Value \union BOOLEAN
      PROVE  AddEntry(U, size, k, v) \in Tables(size)
  <2>1. [key |-> k, value |-> v] \in Entry
    BY DEF Entry
  <2> QED
    BY <2>1 DEF AddEntry, Tables
<1>3. step \in [Nat -> [Tables(size) -> Tables(size)]]
  <2>1. ASSUME NEW U \in Tables(size), NEW i \in 1..capacity PROVE Copy(U, T[i - 1]) \in Tables(size)
    BY <1>1, <1>2 DEF Entry
  <2> HIDE DEF Copy
  <2> QED
    BY <2>1
<1>4. Empty(size) \in Tables(size) /\ \A i \in 0..(size - 1) : Empty(size)[i] = EndOfChain
  BY DEF Empty, Tables, Entry, EndOfChain
<1>5. \E f : f = Rule(f)
  <2>1. PICK f \in [0..capacity -> Tables(size)] : Iterates(f, capacity, Empty(size), step)
    <3> HIDE DEF step
    <3> QED
      BY <1>3, <1>4, RecursionUpTo
  <2>2. f[0] = Empty(size) /\ \A i \in 1..capacity : f[i] = step[i][f[i - 1]]
    BY <2>1 DEF Iterates
  <2>3. ASSUME NEW i \in 1..capacity PROVE step[i][f[i - 1]] = Copy(f[i - 1], T[i - 1])
    <3>1. f[i - 1] \in Tables(size) /\ i \in Nat
      BY <1>1
    <3> HIDE DEF Copy
    <3> QED
      BY <3>1
  <2> HIDE DEF step
  <2>4. \A i \in 0..capacity : f[i] = IF i = 0 THEN Empty(size) ELSE Copy(f[i - 1], T[i - 1])
    <3> TAKE i \in 0..capacity
    <3>1. i = 0 \/ i \in 1..capacity
      OBVIOUS
    <3> HIDE DEF Copy
    <3> QED
      BY <2>2, <2>3, <3>1
  <2> QED
    BY <2>4
<1>6. copied = Rule(copied)
  BY <1>5
<1>7. Resized(T, size) = copied[capacity]
  BY DEF Resized
<1> HIDE DEF copied, step
<1>8. copied[0] = Empty(size) /\ \A i \in 1..capacity : copied[i] = Copy(copied[i - 1], T[i - 1])
  <2> DEFINE f == copied
  <2>1. f = Rule(f)
    BY <1>6
  <2> HIDE DEF f
  <2>2. \A i \in 0..capacity : f[i] = IF i = 0 THEN Empty(size) ELSE Copy(f[i - 1], T[i - 1])
    BY <2>1
  <2> HIDE DEF Copy
  <2> QED
    BY <2>2 DEF f
<1>9. Good(0, copied[0])
  <2>1. Used(Empty(size), size) = {} /\ Below(0) = {}
    BY <1>4 DEF Used, EndOfChain
  <2>2. Contents(Empty(size), size) = {}
    BY <2>1 DEF Contents
  <2>3. \A i \in 0..(size - 1) : Empty(size)[i].key \notin Key
    BY <1>4, HashMapAssumption DEF EndOfChain
  <2>4. \A k \in Key, n \in 0..(size - 1) : Slot(k, n, size) \in 0..(size - 1)
    <3> TAKE k \in Key, n \in 0..(size - 1)
    <3>1. n \in Nat
      OBVIOUS
    <3> QED
      BY <3>1, SlotProperties
  <2>5. Sound(Empty(size), size)
    BY <2>3, <2>4 DEF Sound
  <2> QED
    BY <1>4, <1>8, <2>1, <2>2, <2>5
<1>10. ASSUME NEW i \in 0..(capacity - 1), Good(i, copied[i]) PROVE Good(i + 1, copied[i + 1])
  <2> DEFINE U == copied[i]
             e == T[i]
  <2>1. i + 1 \in 1..capacity /\ (i + 1) - 1 = i
    OBVIOUS
  <2>2. copied[i + 1] = Copy(U, e) /\ e \in Entry
    <3> HIDE DEF Copy
    <3>1. copied[i + 1] = Copy(copied[(i + 1) - 1], T[(i + 1) - 1])
      BY <1>8, <2>1
    <3>2. T[(i + 1) - 1] \in Entry
      BY <1>1, <2>1
    <3> QED
      BY <2>1, <3>1, <3>2
  <2>3. Good(i, U)
    BY <1>10
  <2>4. \A j \in 0..((i + 1) - 1) : j = i \/ j \in 0..(i - 1)
    OBVIOUS
  <2>5. i \in 0..((i + 1) - 1) /\ \A j \in 0..(i - 1) : j \in 0..((i + 1) - 1) /\ j # i
    OBVIOUS
  <2> HIDE DEF U
  <2>6. CASE e.key = UNDEFINED
    <3>1. Below(i + 1) = Below(i)
      BY <2>4, <2>5, <2>6
    <3>2. copied[i + 1] = U
      BY <2>2, <2>6
    <3> QED
      BY <2>3, <3>1, <3>2
  <2>7. CASE e.key # UNDEFINED
    <3> DEFINE k == e.key
               v == e.value
               W == AddEntry(U, size, k, v)
    <3>1. k \in Key /\ v \in Value \union BOOLEAN /\ e = [key |-> k, value |-> v]
      BY <2>2, <2>7 DEF Entry
    <3>2. copied[i + 1] = W
      BY <2>2, <2>7
    <3>3. Below(i + 1) = Below(i) \union {i} /\ i \notin Below(i)
      BY <2>4, <2>5, <2>7
    <3>4. Below(i + 1) \in SUBSET Used(T, capacity) /\ Below(i) \in SUBSET Used(T, capacity)
      BY DEF Used
    <3>5. \A j \in Below(i) : T[j].key # k
      <4> SUFFICES ASSUME NEW j \in Below(i), T[j].key = k PROVE FALSE
        OBVIOUS
      <4>1. j \in 0..(capacity - 1) /\ j # i
        OBVIOUS
      <4> QED
        BY <3>1, <4>1 DEF Sound
    <3> HIDE DEF k, v, W, Below, Copy
    <3>6. \A j \in 0..(size - 1) : U[j].key # k
      <4> SUFFICES ASSUME NEW j \in 0..(size - 1), U[j].key = k PROVE FALSE
        OBVIOUS
      <4>1. j \in Used(U, size)
        BY <2>3, <3>1, UsedEntry
      <4>2. U[j] \in Contents(U, size)
        BY <4>1 DEF Contents
      <4> QED
        BY <2>3, <3>5, <4>2
    <3>7. /\ IsFiniteSet(Below(i)) /\ Cardinality(Below(i)) \in Nat
          /\ Cardinality(Below(i + 1)) = Cardinality(Below(i)) + 1
          /\ Cardinality(Below(i + 1)) <= size
      <4>1. IsFiniteSet(Used(T, capacity)) /\ Cardinality(Used(T, capacity)) \in Nat
        BY UsedFinite
      <4>2. /\ IsFiniteSet(Below(i)) /\ IsFiniteSet(Below(i + 1))
            /\ Cardinality(Below(i + 1)) <= Cardinality(Used(T, capacity))
        BY <3>4, <4>1, FS_Subset
      <4>3. Cardinality(Below(i)) \in Nat /\ Cardinality(Below(i + 1)) \in Nat
        BY <4>2, FS_CardinalityType
      <4>4. Cardinality(Below(i) \union {i}) = Cardinality(Below(i)) + 1
        BY <3>3, <4>2, FS_AddElement
      <4> QED
        BY <3>3, <4>1, <4>2, <4>3, <4>4
    <3>8. Cardinality(Used(U, size)) < size
      BY <2>3, <3>7
    <3>9. U \in Tables(size) /\ Sound(U, size)
      BY <2>3
    <3>10. \E j \in 0..(size - 1) : U[j].key = UNDEFINED
      <4>1. size \in Nat
        OBVIOUS
      <4> QED
        BY <3>8, <3>9, <4>1, FreeEntry
    <3>11. ~Shadowed(U, size, k)
      BY <3>6 DEF Shadowed, Used
    <3>12. W \in Tables(size) /\ Sound(W, size) /\ \E j \in 0..(size - 1) : AddedAt(U, W, size, k, v, j)
      <4>1. \E j \in 0..(size - 1) : U[j].key \in {k, UNDEFINED}
        BY <3>10
      <4> QED
        BY <3>1, <3>9, <3>11, <4>1, AddEntryProperties DEF W
    <3>13. PICK j \in 0..(size - 1) : AddedAt(U, W, size, k, v, j)
      BY <3>12
    <3>14. /\ Used(W, size) = Used(U, size) \union {j} /\ j \notin Used(U, size)
           /\ Contents(W, size) = Without(Contents(U, size), k) \union {e}
      <4>1. size \in Nat
        OBVIOUS
      <4>2. /\ Used(W, size) = Used(U, size) \union {j}
            /\ Contents(W, size) =
                 Without(Contents(U, size), k) \union {[key |-> k, value |-> v]}
            /\ j \in Used(U, size) <=> U[j].key = k
        BY <3>1, <3>9, <3>12, <3>13, <4>1, AddedProperties
      <4> QED
        BY <3>1, <3>6, <4>2
    <3>15. Cardinality(Used(W, size)) = Cardinality(Used(U, size)) + 1
      <4>1. IsFiniteSet(Used(U, size))
        BY UsedFinite
      <4> QED
        BY <3>14, <4>1, FS_AddElement
    <3>16. Contents(W, size) = {T[l] : l \in Below(i + 1)}
      <4>1. \A f \in Contents(U, size) : f.key # k
        BY <2>3, <3>5
      <4> QED
        BY <2>3, <3>3, <3>14, <4>1 DEF Without
    <3>17. Cardinality(Used(W, size)) = Cardinality(Below(i + 1))
      BY <2>3, <3>7, <3>15
    <3> QED
      BY <3>2, <3>12, <3>16, <3>17
  <2> QED
    BY <2>6, <2>7
<1> HIDE DEF Good
<1>11. Good(capacity, copied[capacity])
  <2> DEFINE S == {i \in 0..capacity : Good(i, copied[i])}
  <2>1. 0 \in S
    BY <1>9
  <2>2. ASSUME NEW i \in 0..(capacity - 1), i \in S PROVE i + 1 \in S
    BY <1>10, <2>2
  <2> HIDE DEF S
  <2>3. 0..capacity \subseteq S
    BY <2>1, <2>2, InductionUpTo
  <2> QED
    BY <2>3 DEF S
<1>12. Below(capacity) = Used(T, capacity)
  BY DEF Used
<1>13. {T[j] : j \in Below(capacity)} = Contents(T, capacity)
  BY <1>12 DEF Contents
<1> QED
  BY <1>7, <1>11, <1>12, <1>13 DEF Good

-----------------------------------------------------------------------------
(***************************************************************************)
(* The inductive invariant and the steps of a map.                         *)
(***************************************************************************)
MapInv ==
  /\ capacity \in 0..MaxCapacity /\ (capacity = 0 \/ MinCapacity <= capacity)
  /\ entries \in Tables(capacity)
  /\ Sound(entries, capacity)
  /\ count = Cardinality(Used(entries, capacity))
  /\ count * LoadDen <= capacity * LoadNum
  /\ stuck \in BOOLEAN

Stored == Contents(entries, capacity)

LEMMA Products ==
  /\ \A a, b, d \in Nat : a <= b => a * d <= b * d
  /\ \A a, b, d \in Nat : a < b /\ d > 0 => a * d < b * d
  /\ \A a, d \in Nat : (a + 1) * d = a * d + d /\ a * d \in Nat
  /\ \A a, b \in Nat : b >= 2 => 2 * a <= a * b
OBVIOUS

LEMMA LoadFacts == /\ LoadNum \in Nat /\ LoadDen \in Nat /\ MinCapacity \in Nat /\ GrowFactor \in Nat
                   /\ MaxCapacity \in Nat /\ 0 < LoadNum /\ LoadNum < LoadDen
                   /\ LoadDen <= MinCapacity * LoadNum /\ 2 <= MinCapacity /\ 2 <= GrowFactor
BY HashMapAssumption

\* A table that is loaded as the code allows has more places than keys.
LEMMA LoadLeavesRoom ==
  ASSUME NEW n \in Nat, NEW size \in Nat, n * LoadDen <= size * LoadNum
  PROVE  n <= size /\ (size > 0 => n < size) /\ (size = 0 => n = 0)
<1>1. size * LoadNum <= size * LoadDen /\ size * LoadNum \in Nat /\ n * LoadDen \in Nat
  <2>1. LoadNum * size <= LoadDen * size
    BY LoadFacts, Products
  <2> QED
    BY <2>1, LoadFacts
<1>2. size > 0 => size * LoadNum < size * LoadDen
  <2>1. size > 0 => LoadNum * size < LoadDen * size
    BY LoadFacts, Products
  <2> QED
    BY <2>1, LoadFacts
<1>3. ASSUME size > 0, size <= n PROVE FALSE
  <2>1. size * LoadDen <= n * LoadDen /\ size * LoadDen \in Nat
    BY <1>3, LoadFacts, Products
  <2> QED
    BY <1>1, <1>2, <1>3, <2>1
<1>4. ASSUME size = 0, n > 0 PROVE FALSE
  <2>1. 0 * LoadDen < n * LoadDen
    BY <1>4, LoadFacts, Products
  <2> QED
    BY <1>4, <2>1, LoadFacts
<1> QED
  BY <1>3, <1>4

\* The capacity of a table that has grown, or need not grow, for one more key.
LEMMA GrownLoad ==
  ASSUME MapInv, NEW size, size = IF Full THEN AtLeast(capacity * GrowFactor) ELSE capacity
  PROVE  /\ size \in Nat /\ MinCapacity <= size /\ count < size /\ capacity <= size
         /\ (count + 1) * LoadDen <= size * LoadNum /\ count * LoadDen <= size * LoadNum
         /\ Full => capacity # size
<1>1. /\ capacity \in Nat /\ (capacity = 0 \/ MinCapacity <= capacity)
      /\ count * LoadDen <= capacity * LoadNum
  BY LoadFacts DEF MapInv
<1>2. count \in Nat
  BY <1>1, UsedFinite DEF MapInv
<1>3. /\ (count + 1) * LoadDen = count * LoadDen + LoadDen
      /\ count * LoadDen \in Nat /\ capacity * LoadNum \in Nat
  BY <1>1, <1>2, LoadFacts, Products
<1>4. CASE ~Full
  <2>1. size = capacity /\ (count + 1) * LoadDen <= capacity * LoadNum
    BY <1>1, <1>2, <1>3, <1>4, LoadFacts DEF Full
  <2>2. count + 1 <= size
    BY <1>1, <1>2, <2>1, LoadLeavesRoom
  <2> QED
    BY <1>1, <1>2, <1>3, <1>4, <2>1, <2>2, LoadFacts
<1>5. CASE Full
  <2>1. size = AtLeast(capacity * GrowFactor)
    BY <1>5
  <2>2. capacity * GrowFactor \in Nat /\ 2 * capacity <= capacity * GrowFactor
    BY <1>1, LoadFacts, Products
  <2>3. size \in Nat /\ MinCapacity <= size /\ 2 * capacity <= size
    BY <1>1, <2>1, <2>2, LoadFacts DEF AtLeast
  <2>4. size * LoadNum \in Nat /\ MinCapacity * LoadNum <= size * LoadNum
    BY <2>3, LoadFacts, Products
  <2>5. CASE capacity = 0
    <3>1. count = 0
      BY <1>1, <1>2, <2>5, LoadLeavesRoom
    <3>2. (count + 1) * LoadDen = LoadDen /\ count * LoadDen = 0
      BY <3>1, LoadFacts
    <3> QED
      BY <2>3, <2>4, <2>5, <3>1, <3>2, LoadFacts
  <2>6. CASE MinCapacity <= capacity
    <3>1. MinCapacity * LoadNum <= capacity * LoadNum
      BY <1>1, <2>6, LoadFacts, Products
    <3>2. (2 * capacity) * LoadNum <= size * LoadNum
      BY <1>1, <2>3, LoadFacts, Products
    <3>3. (2 * capacity) * LoadNum = capacity * LoadNum + capacity * LoadNum
      BY <1>1, LoadFacts
    <3>4. (count + 1) * LoadDen <= size * LoadNum
      BY <1>1, <1>3, <2>4, <3>1, <3>2, <3>3, LoadFacts
    <3>5. count + 1 <= size
      BY <1>2, <2>3, <3>4, LoadLeavesRoom
    <3> QED
      BY <1>1, <1>2, <1>3, <2>3, <2>4, <2>6, <3>4, <3>5, LoadFacts
  <2> QED
    BY <1>1, <2>5, <2>6
<1> QED
  BY <1>4, <1>5

LEMMA InvFacts ==
  ASSUME MapInv
  PROVE  capacity \in Nat /\ count \in Nat /\ entries \in Tables(capacity) /\ Sound(entries, capacity)
BY LoadFacts, UsedFinite DEF MapInv

\* The entry of a key is replaced, or the key gets a free entry of the table, which has
\* been copied to another size before if it was full.
LEMMA SetStep ==
  ASSUME MapInv, ~ShadowedStores, NEW k \in Key, NEW v \in Value, Set(k, v)
  PROVE  /\ MapInv'
         /\ Stored' = Without(Stored, k) \union {[key |-> k, value |-> v]}
         /\ capacity' = capacity =>
              \E i \in 0..(capacity - 1) : AddedAt(entries, entries', capacity, k, v, i)
<1> DEFINE size == IF Full THEN AtLeast(capacity * GrowFactor) ELSE capacity
           table == IF Full THEN Resized(entries, size) ELSE entries
           new == AddEntry(table, size, k, v)
<1>1. /\ size <= MaxCapacity /\ ~Shadowed(table, size, k)
      /\ capacity' = size /\ entries' = new
      /\ count' = IF Used(new, size) = Used(table, size) THEN count ELSE count + 1
      /\ stuck' = stuck
  BY DEF Set
<1>2. /\ capacity \in Nat /\ count \in Nat /\ entries \in Tables(capacity) /\ Sound(entries, capacity)
      /\ count = Cardinality(Used(entries, capacity)) /\ stuck \in BOOLEAN
  BY InvFacts DEF MapInv
<1>3. /\ size \in Nat /\ MinCapacity <= size /\ count < size /\ capacity <= size
      /\ (count + 1) * LoadDen <= size * LoadNum /\ count * LoadDen <= size * LoadNum
      /\ Full => capacity # size
  <2> HIDE DEF size
  <2>1. size = IF Full THEN AtLeast(capacity * GrowFactor) ELSE capacity
    BY DEF size
  <2> QED
    BY <2>1, GrownLoad
<1>4. /\ table \in Tables(size) /\ Sound(table, size)
      /\ Contents(table, size) = Stored /\ Cardinality(Used(table, size)) = count
  <2>1. CASE Full
    <3>1. table = Resized(entries, size)
      BY <2>1
    <3>2. size \in Nat \ {0} /\ Cardinality(Used(entries, capacity)) <= size
      BY <1>2, <1>3, LoadFacts
    <3> HIDE DEF size, table
    <3> QED
      BY <1>2, <3>1, <3>2, ResizedProperties DEF Stored
  <2>2. CASE ~Full
    BY <1>2, <2>2 DEF Stored
  <2> QED
    BY <2>1, <2>2
<1>5. ~Full => table = entries /\ size = capacity
  OBVIOUS
<1> HIDE DEF size, table, new
<1>6. size \in Nat \ {0}
  BY <1>3, LoadFacts
<1>7. \E i \in 0..(size - 1) : table[i].key \in {k, UNDEFINED}
  <2>1. \E i \in 0..(size - 1) : table[i].key = UNDEFINED
    BY <1>3, <1>4, FreeEntry
  <2> QED
    BY <2>1
<1>8. new \in Tables(size) /\ Sound(new, size) /\ \E i \in 0..(size - 1) : AddedAt(table, new, size, k, v, i)
  BY <1>1, <1>4, <1>6, <1>7, AddEntryProperties DEF new
<1>9. PICK i \in 0..(size - 1) : AddedAt(table, new, size, k, v, i)
  BY <1>8
<1>10. /\ Used(new, size) = Used(table, size) \union {i}
       /\ Contents(new, size) = Without(Contents(table, size), k) \union {[key |-> k, value |-> v]}
  <2>1. /\ size \in Nat /\ table \in Tables(size) /\ Sound(table, size)
        /\ new \in Tables(size) /\ i \in 0..(size - 1) /\ AddedAt(table, new, size, k, v, i)
    BY <1>4, <1>6, <1>8, <1>9
  <2>2. Used(new, size) = Used(table, size) \union {i}
    BY <2>1, AddedProperties
  <2>3. Contents(new, size) = Without(Contents(table, size), k) \union {[key |-> k, value |-> v]}
    BY <2>1, AddedProperties
  <2> QED
    BY <2>2, <2>3
<1>11. count' = Cardinality(Used(new, size)) /\ count' \in {count, count + 1}
  <2>1. IsFiniteSet(Used(table, size))
    BY <1>3, UsedFinite
  <2>2. Cardinality(Used(new, size)) = IF i \in Used(table, size) THEN count ELSE count + 1
    BY <1>4, <1>10, <2>1, FS_AddElement
  <2>3. Used(new, size) = Used(table, size) <=> i \in Used(table, size)
    BY <1>10
  <2> QED
    BY <1>1, <2>2, <2>3
<1>12. MapInv'
  <2>1. count' * LoadDen <= size * LoadNum
    BY <1>3, <1>11
  <2> QED
    BY <1>1, <1>2, <1>3, <1>8, <1>11, <2>1, LoadFacts DEF MapInv
<1>13. Stored' = Without(Stored, k) \union {[key |-> k, value |-> v]}
  BY <1>1, <1>4, <1>10 DEF Stored
<1>14. ASSUME capacity' = capacity
       PROVE  \E j \in 0..(capacity - 1) : AddedAt(entries, entries', capacity, k, v, j)
  BY <1>1, <1>3, <1>5, <1>9, <1>14
<1> QED
  BY <1>12, <1>13, <1>14

\* The entry of a key becomes a tombstone; what is left may be copied to a smaller table.
LEMMA RemoveStep ==
  ASSUME MapInv, NEW k \in Key, Remove(k)
  PROVE  /\ MapInv'
         /\ Stored' = Without(Stored, k)
         /\ capacity' = capacity =>
              \E i \in 0..(capacity - 1) : entries[i].key = k /\ entries' = [entries EXCEPT ![i] = Tombstone]
<1> DEFINE i == FindEntry(k)
           left == count - 1
           table == [entries EXCEPT ![i] = Tombstone]
           size == AtLeast(capacity \div GrowFactor)
<1>1. /\ i \in 0..(capacity - 1) /\ count' = left
      /\ IF left = 0 THEN capacity' = 0 /\ entries' = Empty(0)
         ELSE IF Sparse(left) THEN capacity' = size /\ entries' = Resized(table, size)
         ELSE capacity' = capacity /\ entries' = table
      /\ stuck' = stuck
  BY DEF Remove, Removed
<1>2. /\ capacity \in Nat /\ count \in Nat /\ entries \in Tables(capacity) /\ Sound(entries, capacity)
      /\ count = Cardinality(Used(entries, capacity)) /\ stuck \in BOOLEAN
      /\ count * LoadDen <= capacity * LoadNum /\ capacity \in 0..MaxCapacity
      /\ capacity = 0 \/ MinCapacity <= capacity
  BY InvFacts DEF MapInv
<1>3. entries[i].key = k
  <2>1. ~(i \in {NotThere, Endless})
    BY <1>1, <1>2 DEF NotThere, Endless
  <2>2. PICK j \in 0..(capacity - 1) : entries[j].key = k
    BY <1>2, <2>1, FindEntryProperties
  <2> QED
    BY <1>2, <2>2, FindEntryProperties
<1> HIDE DEF i
<1>4. /\ table \in Tables(capacity) /\ table[i] = Tombstone
      /\ \A j \in 0..(capacity - 1) \ {i} : table[j] = entries[j]
  BY <1>1, <1>2 DEF Tables, Entry, Tombstone
<1>5. Tombstone # EndOfChain /\ Tombstone.key = UNDEFINED /\ UNDEFINED \notin Key
  BY HashMapAssumption DEF Tombstone, EndOfChain
<1> HIDE DEF table
<1>6. Sound(table, capacity)
  <2>1. ASSUME NEW p \in 0..(capacity - 1), NEW j \in 0..(capacity - 1),
               table[p].key = table[j].key, table[p].key \in Key
        PROVE  p = j
    BY <1>2, <1>4, <1>5, <2>1 DEF Sound
  <2>2. ASSUME NEW l \in Key, NEW p \in 0..(capacity - 1), table[Slot(l, p, capacity)].key = l,
               NEW m \in 0..(p - 1)
        PROVE  table[Slot(l, m, capacity)] # EndOfChain
    <3>1. /\ capacity \in Nat \ {0} /\ m \in Nat /\ p \in Nat
          /\ m \in 0..(capacity - 1)
      BY <1>2
    <3>2. Slot(l, p, capacity) \in 0..(capacity - 1) /\ Slot(l, m, capacity) \in 0..(capacity - 1)
      BY <3>1, SlotProperties
    <3>3. entries[Slot(l, p, capacity)].key = l
      BY <1>4, <1>5, <2>2, <3>2
    <3>4. entries[Slot(l, m, capacity)] # EndOfChain
      BY <1>2, <3>3 DEF Sound
    <3> QED
      BY <1>4, <1>5, <3>2, <3>4
  <2> QED
    BY <2>1, <2>2 DEF Sound
<1>7. Used(table, capacity) = Used(entries, capacity) \ {i} /\ i \in Used(entries, capacity)
  BY <1>1, <1>3, <1>4, <1>5 DEF Used
<1>8. /\ Cardinality(Used(table, capacity)) = left /\ left \in Nat
      /\ IsFiniteSet(Used(table, capacity))
  <2>1. IsFiniteSet(Used(entries, capacity))
    BY <1>2, UsedFinite
  <2>2. Cardinality(Used(table, capacity)) = count - 1
    BY <1>2, <1>7, <2>1, FS_RemoveElement
  <2>3. Cardinality(Used(table, capacity)) \in Nat /\ IsFiniteSet(Used(table, capacity))
    BY <1>2, UsedFinite
  <2> QED
    BY <2>2, <2>3
<1>9. Contents(table, capacity) = Without(Stored, k)
  <2>1. \A j \in Used(table, capacity) :
          table[j] = entries[j] /\ j \in Used(entries, capacity) /\ entries[j].key # k
    BY <1>1, <1>2, <1>3, <1>4, <1>7 DEF Used, Sound
  <2>2. \A j \in Used(entries, capacity) :
          entries[j].key # k => j \in Used(table, capacity) /\ table[j] = entries[j]
    BY <1>3, <1>4, <1>7 DEF Used
  <2> QED
    BY <2>1, <2>2 DEF Contents, Stored, Without
<1>10. left * LoadDen <= capacity * LoadNum
  <2>1. left * LoadDen <= count * LoadDen /\ left * LoadDen \in Nat /\ count * LoadDen \in Nat
    BY <1>2, <1>8, LoadFacts, Products
  <2>2. capacity * LoadNum \in Nat
    BY <1>2, LoadFacts
  <2> HIDE DEF left
  <2> QED
    BY <1>2, <2>1, <2>2
<1> HIDE DEF left, size
<1>11. CASE left = 0
  <2>1. capacity' = 0 /\ entries' = Empty(0)
    BY <1>1, <1>11
  <2>2. Empty(0) \in Tables(0) /\ Used(Empty(0), 0) = {} /\ Sound(Empty(0), 0)
    BY DEF Empty, Tables, Used, Sound
  <2>3. Used(table, capacity) = {}
    BY <1>8, <1>11, FS_EmptySet
  <2>4. Stored' = {} /\ Without(Stored, k) = {}
    BY <1>9, <2>1, <2>2, <2>3 DEF Stored, Contents
  <2>5. Cardinality(Used(entries', 0)) = 0
    BY <2>1, <2>2, FS_EmptySet
  <2>6. MapInv'
    BY <1>1, <1>2, <1>11, <2>1, <2>2, <2>5, LoadFacts DEF MapInv
  <2>7. capacity' # capacity
    BY <1>1, <1>2, <2>1
  <2> QED
    BY <2>4, <2>6, <2>7
<1>12. CASE left # 0 /\ Sparse(left)
  <2>1. capacity' = size /\ entries' = Resized(table, size)
    BY <1>1, <1>12
  <2> DEFINE part == capacity \div GrowFactor
  <2>2. part \in Nat /\ part <= capacity /\ (capacity > 0 => part < capacity)
    <3>1. GrowFactor \in Nat \ {0}
      BY LoadFacts
    <3>2. part \in Nat /\ capacity = GrowFactor * part + (capacity % GrowFactor)
          /\ capacity % GrowFactor \in 0..(GrowFactor - 1)
      BY <1>2, <3>1, Division, Zenon
    <3>3. 2 * part <= part * GrowFactor
      BY <3>2, LoadFacts, Products
    <3>4. GrowFactor * part = part * GrowFactor /\ capacity % GrowFactor \in Nat
      BY <3>2, LoadFacts
    <3> DEFINE product == part * GrowFactor
               rest == capacity % GrowFactor
    <3>5. /\ part \in Nat /\ product \in Nat /\ rest \in Nat
          /\ capacity = product + rest /\ 2 * part <= product
      BY <3>2, <3>3, <3>4, LoadFacts
    <3> HIDE DEF part, product, rest
    <3> QED
      BY <1>2, <3>5
  <2>3. left * LoadDen < part * LoadNum /\ MinCapacity < left
    BY <1>12, LoadFacts DEF Sparse
  <2> HIDE DEF part
  <2>4. left < capacity
    BY <1>2, <1>8, <2>3, LoadFacts, UsedFinite, <1>10, LoadLeavesRoom
  <2>5. /\ size \in Nat /\ MinCapacity <= size /\ part <= size /\ size < capacity
    BY <1>2, <1>8, <2>2, <2>3, <2>4, LoadFacts DEF AtLeast, size, part
  <2>6. left * LoadDen <= size * LoadNum
    <3>1. part * LoadNum <= size * LoadNum /\ part * LoadNum \in Nat /\ size * LoadNum \in Nat
      BY <2>2, <2>5, LoadFacts, Products
    <3>2. left * LoadDen \in Nat
      BY <1>8, LoadFacts
    <3> QED
      BY <2>3, <3>1, <3>2
  <2>7. size \in Nat \ {0} /\ Cardinality(Used(table, capacity)) <= size
    BY <1>8, <2>5, <2>6, LoadFacts, LoadLeavesRoom
  <2>8. /\ Resized(table, size) \in Tables(size) /\ Sound(Resized(table, size), size)
        /\ Contents(Resized(table, size), size) = Contents(table, capacity)
        /\ Cardinality(Used(Resized(table, size), size)) = left
    BY <1>2, <1>4, <1>6, <1>8, <2>7, ResizedProperties
  <2>9. MapInv'
    BY <1>1, <1>2, <2>1, <2>5, <2>6, <2>8, LoadFacts DEF MapInv
  <2>10. Stored' = Without(Stored, k)
    BY <1>9, <2>1, <2>8 DEF Stored
  <2>11. capacity' # capacity
    BY <1>2, <2>1, <2>5
  <2> QED
    BY <2>9, <2>10, <2>11
<1>13. CASE left # 0 /\ ~Sparse(left)
  <2>1. capacity' = capacity /\ entries' = table
    BY <1>1, <1>13
  <2>2. MapInv'
    BY <1>1, <1>2, <1>4, <1>6, <1>8, <1>10, <2>1 DEF MapInv
  <2>3. Stored' = Without(Stored, k)
    BY <1>9, <2>1 DEF Stored
  <2>4. entries' = [entries EXCEPT ![i] = Tombstone]
    BY <2>1 DEF table
  <2> QED
    BY <1>1, <1>3, <2>2, <2>3, <2>4
<1> QED
  BY <1>11, <1>12, <1>13

\* A lookup that does not answer, or does not find the key, leaves the table as it is.
LEMMA MissStep ==
  ASSUME MapInv, NEW k \in Key, Miss(k)
  PROVE  MapInv' /\ UNCHANGED <<capacity, entries>> /\ Stored' = Stored
<1>1. UNCHANGED <<capacity, count, entries>> /\ stuck' \in BOOLEAN
  BY DEF Miss
<1> QED
  BY <1>1 DEF MapInv, Stored

LEMMA EmptyTable ==
  /\ Empty(0) \in Tables(0) /\ Used(Empty(0), 0) = {} /\ Sound(Empty(0), 0)
  /\ Contents(Empty(0), 0) = {} /\ Cardinality(Used(Empty(0), 0)) = 0
<1>1. Empty(0) \in Tables(0) /\ Used(Empty(0), 0) = {} /\ Sound(Empty(0), 0)
  BY DEF Empty, Tables, Used, Sound
<1> QED
  BY <1>1, FS_EmptySet DEF Contents

LEMMA ClearStep == ASSUME MapInv, Clear PROVE MapInv' /\ Stored' = {} /\ capacity' = 0
<1>1. capacity' = 0 /\ count' = 0 /\ entries' = Empty(0) /\ stuck' = stuck
  BY DEF Clear
<1>2. 0 \in 0..MaxCapacity /\ 0 * LoadDen <= 0 * LoadNum /\ stuck \in BOOLEAN
  BY LoadFacts DEF MapInv
<1> QED
  BY <1>1, <1>2, EmptyTable DEF MapInv, Stored

LEMMA MapInvInit == MapInit => MapInv /\ Stored = {}
<1> SUFFICES ASSUME MapInit PROVE MapInv /\ Stored = {}
  OBVIOUS
<1>1. capacity = 0 /\ count = 0 /\ entries = Empty(0) /\ stuck = FALSE
  BY DEF MapInit
<1>2. 0 \in 0..MaxCapacity /\ 0 * LoadDen <= 0 * LoadNum
  BY LoadFacts
<1> QED
  BY <1>1, <1>2, EmptyTable DEF MapInv, Stored

LEMMA MapInvNext == ~ShadowedStores /\ MapInv /\ [MapNext]_mapVars => MapInv'
<1> SUFFICES ASSUME ~ShadowedStores, MapInv, [MapNext]_mapVars PROVE MapInv'
  OBVIOUS
<1>1. ASSUME NEW k \in Key, NEW v \in Value, Set(k, v) PROVE MapInv'
  BY <1>1, SetStep
<1>2. ASSUME NEW k \in Key, Remove(k) PROVE MapInv'
  BY <1>2, RemoveStep
<1>3. ASSUME NEW k \in Key, Miss(k) PROVE MapInv'
  BY <1>3, MissStep
<1>4. CASE Clear
  BY <1>4, ClearStep
<1>5. CASE UNCHANGED mapVars
  BY <1>5 DEF mapVars, MapInv
<1> QED
  BY <1>1, <1>2, <1>3, <1>4, <1>5 DEF MapNext

LEMMA MapInvAlways == ASSUME ~ShadowedStores PROVE MapSpec => []MapInv
<1>1. MapInit => MapInv
  BY MapInvInit
<1>2. MapInv /\ [MapNext]_mapVars => MapInv'
  BY MapInvNext
<1> QED
  BY <1>1, <1>2, PTL DEF MapSpec

LEMMA MapInvImplies == MapInv => TableOK
<1> SUFFICES ASSUME MapInv PROVE TableOK
  OBVIOUS
<1>1. /\ capacity \in Nat /\ count \in Nat /\ entries \in Tables(capacity) /\ Sound(entries, capacity)
      /\ count * LoadDen <= capacity * LoadNum /\ capacity \in 0..MaxCapacity
  BY InvFacts DEF MapInv
<1>2. count \in 0..capacity
  BY <1>1, LoadLeavesRoom
<1>3. MapTypeOK
  BY <1>1, <1>2 DEF MapInv, MapTypeOK, Tables
<1>4. EveryKeyIsFound
  <2> SUFFICES ASSUME NEW i \in Used(entries, capacity)
               PROVE  FindEntry(entries[i].key) \in 0..(capacity - 1)
    BY DEF EveryKeyIsFound
  <2>1. i \in 0..(capacity - 1) /\ entries[i].key \in Key
    BY <1>1, UsedEntry DEF Used
  <2> QED
    BY <1>1, <2>1, FindEntryProperties
<1>5. CountAndLoad
  BY DEF MapInv, CountAndLoad
<1>6. OneEntryPerKey
  <2>1. \A i \in Used(entries, capacity) : i \in 0..(capacity - 1) /\ entries[i].key \in Key
    BY <1>1, UsedEntry DEF Used
  <2> QED
    BY <1>1, <2>1 DEF OneEntryPerKey, Sound
<1> QED
  BY <1>3, <1>4, <1>5, <1>6 DEF TableOK

\* As long as no script stores to a key behind a tombstone: after any operations on a map of
\* any size every key is found, by one entry, map.count is the number of keys, and there is
\* a place for one more.
THEOREM TableIsSound == ASSUME ~ShadowedStores PROVE MapSpec => []TableOK
BY MapInvAlways, MapInvImplies, PTL

\* What the map answers depends on the contents only.
LEMMA GetProperties ==
  ASSUME MapInv, NEW k \in Key
  PROVE  /\ \A e \in Stored : e.key = k => Get(k) = e.value
         /\ (\A e \in Stored : e.key # k) => Get(k) = UNDEFINED
<1>1. capacity \in Nat /\ entries \in Tables(capacity) /\ Sound(entries, capacity)
  BY InvFacts
<1>2. ASSUME NEW e \in Stored, e.key = k PROVE Get(k) = e.value
  <2>1. PICK i \in Used(entries, capacity) : e = entries[i]
    BY DEF Stored, Contents
  <2>2. i \in 0..(capacity - 1) /\ FindEntry(k) = i
    BY <1>1, <1>2, <2>1, FindEntryProperties DEF Used
  <2> QED
    BY <2>1, <2>2 DEF Get
<1>3. ASSUME \A e \in Stored : e.key # k PROVE Get(k) = UNDEFINED
  <2>1. \A i \in 0..(capacity - 1) : entries[i].key # k
    <3> SUFFICES ASSUME NEW i \in 0..(capacity - 1), entries[i].key = k PROVE FALSE
      OBVIOUS
    <3>1. i \in Used(entries, capacity)
      BY <1>1, UsedEntry
    <3> QED
      BY <1>3, <3>1 DEF Stored, Contents
  <2>2. FindEntry(k) \in {NotThere, Endless}
    BY <1>1, <2>1, FindEntryProperties
  <2> QED
    BY <1>1, <2>2 DEF Get, NotThere, Endless
<1> QED
  BY <1>2, <1>3

Answers ==
  \A k \in Key : /\ \A e \in Stored : e.key = k => Get(k) = e.value
                 /\ (\A e \in Stored : e.key # k) => Get(k) = UNDEFINED

LEMMA AnswersNext == (MapInv => Answers) /\ (MapInv' => Answers')
<1>1. MapInv => Answers
  BY GetProperties DEF Answers
<1> QED
  BY <1>1, PTL

LEMMA AnswersStay ==
  ASSUME UNCHANGED <<capacity, entries>>
  PROVE  UNCHANGED [k \in Key |-> Get(k)]
<1>1. \A k \in Key : Get(k)' = Get(k)
  BY DEF Get, FindEntry, Misses, Slot
<1> QED
  BY <1>1

\* An operation on the table is that operation, with these arguments, on a map.
LEMMA OperationsAgree ==
  ASSUME MapInv, MapInv', ~ShadowedStores
  PROVE  SameOperation
<1> DEFINE map == [k \in Key |-> Get(k)]
           mapNext == [k \in Key |-> Get(k)']
<1>1. map' = mapNext
  OBVIOUS
<1>2. \A k \in Key : /\ \A e \in Stored : e.key = k => Get(k) = e.value
                     /\ (\A e \in Stored : e.key # k) => Get(k) = UNDEFINED
  BY AnswersNext DEF Answers
<1>3. \A k \in Key : /\ \A e \in Stored' : e.key = k => Get(k)' = e.value
                     /\ (\A e \in Stored' : e.key # k) => Get(k)' = UNDEFINED
  BY AnswersNext DEF Answers
<1>4. ASSUME NEW k \in Key, NEW v \in Value, Set(k, v) PROVE mapNext = [map EXCEPT ![k] = v]
  <2>1. Stored' = Without(Stored, k) \union {[key |-> k, value |-> v]}
    BY <1>4, SetStep
  <2>2. Get(k)' = v
    <3> DEFINE e == [key |-> k, value |-> v]
    <3>1. e \in Stored' /\ e.key = k /\ e.value = v
      BY <2>1
    <3> HIDE DEF e
    <3> QED
      BY <1>3, <3>1
  <2>3. ASSUME NEW l \in Key, l # k PROVE Get(l)' = Get(l)
    <3>1. CASE \E e \in Stored : e.key = l
      <4>1. PICK e \in Stored : e.key = l
        BY <3>1
      <4>2. e \in Stored'
        BY <2>1, <2>3, <4>1 DEF Without
      <4> QED
        BY <1>2, <1>3, <4>1, <4>2
    <3>2. CASE ~\E e \in Stored : e.key = l
      <4>1. \A e \in Stored' : e.key # l
        BY <2>1, <2>3, <3>2 DEF Without
      <4> QED
        BY <1>2, <1>3, <3>2, <4>1
    <3> QED
      BY <3>1, <3>2
  <2> QED
    BY <2>2, <2>3
<1>5. ASSUME NEW k \in Key, Remove(k) PROVE mapNext = [map EXCEPT ![k] = UNDEFINED]
  <2>1. Stored' = Without(Stored, k)
    BY <1>5, RemoveStep
  <2>2. Get(k)' = UNDEFINED
    BY <1>3, <2>1 DEF Without
  <2>3. ASSUME NEW l \in Key, l # k PROVE Get(l)' = Get(l)
    <3>1. CASE \E e \in Stored : e.key = l
      <4>1. PICK e \in Stored : e.key = l
        BY <3>1
      <4>2. e \in Stored'
        BY <2>1, <2>3, <4>1 DEF Without
      <4> QED
        BY <1>2, <1>3, <4>1, <4>2
    <3>2. CASE ~\E e \in Stored : e.key = l
      <4>1. \A e \in Stored' : e.key # l
        BY <2>1, <3>2 DEF Without
      <4> QED
        BY <1>2, <1>3, <3>2, <4>1
    <3> QED
      BY <3>1, <3>2
  <2> QED
    BY <2>2, <2>3
<1>6. ASSUME Clear PROVE mapNext = [k \in Key |-> UNDEFINED]
  <2>1. Stored' = {}
    BY <1>6, ClearStep
  <2> QED
    BY <1>3, <2>1
<1>7. ASSUME NEW k \in Key, Miss(k) PROVE mapNext = map
  BY <1>7, AnswersStay, MissStep
<1> HIDE DEF map, mapNext
<1>8. ASSUME NEW k \in Key, NEW v \in Value, Set(k, v) PROVE MapAbstract!Put(k, v)
  BY <1>1, <1>4, <1>8 DEF MapAbstract!Put, map
<1>9. ASSUME NEW k \in Key, Remove(k) PROVE MapAbstract!Delete(k)
  BY <1>1, <1>5, <1>9 DEF MapAbstract!Delete, map
<1>10. ASSUME NEW k \in Key, Miss(k) PROVE UNCHANGED [c \in Key |-> Get(c)]
  BY <1>1, <1>7, <1>10 DEF map
<1>11. Clear => MapAbstract!DeleteAll
  BY <1>1, <1>6 DEF MapAbstract!DeleteAll, map
<1> QED
  BY <1>8, <1>9, <1>10, <1>11 DEF SameOperation

LEMMA MapRefined ==
  ASSUME MapInv, MapInv', ~ShadowedStores, [MapNext]_mapVars
  PROVE  [MapAbstract!Next]_([k \in Key |-> Get(k)])
<1>1. SameOperation
  BY OperationsAgree
<1>2. ASSUME NEW k \in Key, NEW v \in Value, Set(k, v) PROVE MapAbstract!Next
  BY <1>1, <1>2 DEF SameOperation, MapAbstract!Next
<1>3. ASSUME NEW k \in Key, Remove(k) PROVE MapAbstract!Next
  BY <1>1, <1>3 DEF SameOperation, MapAbstract!Next
<1>4. ASSUME NEW k \in Key, Miss(k) PROVE UNCHANGED [c \in Key |-> Get(c)]
  BY <1>1, <1>4 DEF SameOperation
<1>5. CASE Clear
  BY <1>1, <1>5 DEF SameOperation, MapAbstract!Next
<1>6. CASE UNCHANGED mapVars
  BY <1>6, AnswersStay DEF mapVars
<1> QED
  BY <1>2, <1>3, <1>4, <1>5, <1>6 DEF MapNext

\* As long as no script stores to a key behind a tombstone: whatever the hashes, the sizes
\* and the removals, the answers of the table for all keys are those of a map, and every
\* operation changes them as the same operation with the same key and value does.
THEOREM TableImplementsMap == ASSUME ~ShadowedStores PROVE MapSpec => ImplementsMap
<1>1. MapInit => MapAbstract!Init
  <2> SUFFICES ASSUME MapInit PROVE MapAbstract!Init
    OBVIOUS
  <2>1. MapInv /\ Stored = {}
    BY MapInvInit
  <2>2. \A k \in Key : Get(k) = UNDEFINED
    BY <2>1, GetProperties
  <2> QED
    BY <2>2 DEF MapAbstract!Init
<1>2. MapInv /\ MapInv' /\ [MapNext]_mapVars => [MapAbstract!Next]_([k \in Key |-> Get(k)])
  BY MapRefined
<1>3. MapInv /\ MapInv' /\ [MapNext]_mapVars => [SameOperation]_mapVars
  BY OperationsAgree
<1> QED
  BY <1>1, <1>2, <1>3, MapInvAlways, PTL DEF MapSpec, ImplementsMap, MapAbstract!Spec

-----------------------------------------------------------------------------
(***************************************************************************)
(* The loop over a map.  As long as the table keeps its size, every key    *)
(* keeps its place: what was given lies at or below the iterator, and what *)
(* has stayed there since the loop began was given.                        *)
(***************************************************************************)


\* Every entry has the key it had, or one that was not in the table.
KeepsPlaces(old, new, size) ==
  \A j \in 0..(size - 1) : new[j].key \in Key =>
    new[j].key = old[j].key \/ \A i \in 0..(size - 1) : old[i].key # new[j].key

LoopInv ==
  /\ loop \in {"before", "running", "over"}
  /\ iterator \in Nat \union {NoIterator}
  /\ again => resized
  /\ loop = "before" => visited = {} /\ iterator = NoIterator
  /\ loop = "running" /\ ~resized =>
       /\ \A c \in visited : \E j \in Used(entries, capacity) : entries[j].key = c /\ j <= iterator
       /\ \A j \in Used(entries, capacity) : j <= iterator /\ entries[j].key \in stayed
            => entries[j].key \in visited
       /\ stayed \subseteq KeysInUse
  /\ loop = "over" /\ ~resized => stayed \subseteq visited

LEMMA NextKeepsPlaces ==
  ASSUME MapInv, ~ShadowedStores, MapNext, capacity' = capacity
  PROVE  KeepsPlaces(entries, entries', capacity)
<1>1. capacity \in Nat /\ entries \in Tables(capacity)
  BY InvFacts
<1>2. ASSUME NEW k \in Key, NEW v \in Value, Set(k, v)
      PROVE  KeepsPlaces(entries, entries', capacity)
  <2>1. PICK i \in 0..(capacity - 1) : AddedAt(entries, entries', capacity, k, v, i)
    BY <1>2, SetStep
  <2>2. /\ entries'[i].key = k
        /\ \A j \in 0..(capacity - 1) : j # i => entries'[j] = entries[j]
        /\ entries[i].key = k \/ \A j \in 0..(capacity - 1) : entries[j].key # k
    BY <1>1, <2>1 DEF AddedAt, Tables
  <2> QED
    BY <2>2 DEF KeepsPlaces
<1>3. ASSUME NEW k \in Key, Remove(k) PROVE KeepsPlaces(entries, entries', capacity)
  <2>1. PICK i \in 0..(capacity - 1) : entries' = [entries EXCEPT ![i] = Tombstone]
    BY <1>3, RemoveStep
  <2>2. /\ entries'[i].key = UNDEFINED
        /\ \A j \in 0..(capacity - 1) : j # i => entries'[j] = entries[j]
    BY <1>1, <2>1 DEF Tables, Tombstone
  <2> QED
    BY <2>2, HashMapAssumption DEF KeepsPlaces
<1>4. ASSUME NEW k \in Key, Miss(k) PROVE KeepsPlaces(entries, entries', capacity)
  BY <1>4, MissStep DEF KeepsPlaces
<1>5. CASE Clear
  <2>1. capacity = 0
    BY <1>5, ClearStep
  <2> QED
    BY <2>1 DEF KeepsPlaces
<1> QED
  BY <1>2, <1>3, <1>4, <1>5 DEF MapNext

LEMMA LoopStepsAreSteps == [LoopNext]_allVars => [MapNext]_mapVars
BY DEF LoopNext, allVars, StartLoop, Iterate, EndLoop, Body, Before

LEMMA IterateStep == ASSUME MapInv, LoopInv, Iterate PROVE LoopInv'
<1>1. PICK i \in Candidates :
        /\ \A j \in Candidates : i <= j
        /\ iterator' = i
        /\ again' = (entries[i].key \in visited)
        /\ visited' = visited \union {entries[i].key}
  BY DEF Iterate
<1>2. /\ loop = "running" /\ UNCHANGED <<capacity, entries, loop, resized, stayed>>
  BY DEF Iterate, mapVars
<1>3. iterator \in Nat \union {NoIterator} /\ FirstCandidate = iterator + 1
  BY DEF LoopInv, FirstCandidate, NoIterator
<1>4. /\ Candidates = {j \in Used(entries, capacity) : j >= iterator + 1}
      /\ Used(entries, capacity) \subseteq Nat
  <2>1. capacity \in Nat
    BY InvFacts
  <2> QED
    BY <1>3, <2>1 DEF Candidates, Used
<1>5. i \in Used(entries, capacity) /\ i \in Nat /\ iterator < i
  BY <1>1, <1>3, <1>4 DEF NoIterator
<1>6. ASSUME NEW j \in Used(entries, capacity), j <= i PROVE j = i \/ j <= iterator
  <2>1. j \in Nat
    BY <1>4
  <2>2. CASE j >= iterator + 1
    <3>1. i <= j
      BY <1>1, <1>4, <2>2
    <3> QED
      BY <1>5, <1>6, <2>1, <3>1
  <2>3. CASE ~(j >= iterator + 1)
    BY <1>3, <2>1, <2>3 DEF NoIterator
  <2> QED
    BY <2>2, <2>3
<1>7. CASE resized
  BY <1>1, <1>2, <1>5, <1>7 DEF LoopInv
<1>8. CASE ~resized
  <2>1. /\ \A c \in visited : \E j \in Used(entries, capacity) : entries[j].key = c /\ j <= iterator
        /\ \A j \in Used(entries, capacity) : j <= iterator /\ entries[j].key \in stayed
             => entries[j].key \in visited
        /\ stayed \subseteq KeysInUse
    BY <1>2, <1>8 DEF LoopInv
  <2>2. entries[i].key \notin visited
    <3> SUFFICES ASSUME entries[i].key \in visited PROVE FALSE
      OBVIOUS
    <3>1. PICK j \in Used(entries, capacity) : entries[j].key = entries[i].key /\ j <= iterator
      BY <2>1
    <3>2. OneEntryPerKey
      BY MapInvImplies DEF TableOK
    <3>3. j = i
      BY <1>5, <3>1, <3>2 DEF OneEntryPerKey
    <3> QED
      BY <1>3, <1>5, <3>1, <3>3 DEF NoIterator
  <2>3. \A c \in visited' : \E j \in Used(entries, capacity) : entries[j].key = c /\ j <= i
    <3> SUFFICES ASSUME NEW c \in visited' PROVE \E j \in Used(entries, capacity) : entries[j].key = c /\ j <= i
      OBVIOUS
    <3>1. CASE c \in visited
      <4>1. PICK j \in Used(entries, capacity) : entries[j].key = c /\ j <= iterator
        BY <2>1, <3>1
      <4>2. j \in Nat
        BY <1>4
      <4>3. j <= i
        BY <1>3, <1>5, <4>1, <4>2 DEF NoIterator
      <4> QED
        BY <4>1, <4>3
    <3>2. CASE c = entries[i].key
      BY <1>5, <3>2
    <3> QED
      BY <1>1, <3>1, <3>2
  <2>4. \A j \in Used(entries, capacity) : j <= i /\ entries[j].key \in stayed
          => entries[j].key \in visited'
    BY <1>1, <1>6, <2>1
  <2> QED
    <3>1. ~again' /\ iterator' = i /\ loop' = "running" /\ resized' = resized
      BY <1>1, <1>2, <2>2
    <3>2. stayed' \subseteq KeysInUse'
      BY <1>2, <2>1 DEF KeysInUse
    <3>3. \A c \in visited' : \E j \in Used(entries', capacity') : entries'[j].key = c /\ j <= iterator'
      BY <1>2, <2>3, <3>1
    <3>4. \A j \in Used(entries', capacity') : j <= iterator' /\ entries'[j].key \in stayed'
            => entries'[j].key \in visited'
      BY <1>2, <2>4, <3>1
    <3> QED
      BY <1>5, <3>1, <3>2, <3>3, <3>4 DEF LoopInv
<1> QED
  BY <1>7, <1>8

LEMMA BodyStep == ASSUME MapInv, MapInv', LoopInv, ~ShadowedStores, Body PROVE LoopInv'
<1>1. /\ loop = "running" /\ UNCHANGED <<loop, iterator>> /\ MapNext
      /\ resized' = (resized \/ capacity' # capacity)
      /\ visited' = visited \intersect KeysInUse'
      /\ stayed' = stayed \intersect KeysInUse'
      /\ again' = FALSE
  BY DEF Body
<1>2. CASE resized'
  BY <1>1, <1>2 DEF LoopInv
<1>3. CASE ~resized'
  <2>1. ~resized /\ capacity' = capacity
    BY <1>1, <1>3
  <2>2. /\ \A c \in visited : \E j \in Used(entries, capacity) : entries[j].key = c /\ j <= iterator
        /\ \A j \in Used(entries, capacity) : j <= iterator /\ entries[j].key \in stayed
             => entries[j].key \in visited
        /\ stayed \subseteq KeysInUse
    BY <1>1, <2>1 DEF LoopInv
  <2>3. KeepsPlaces(entries, entries', capacity)
    BY <1>1, <2>1, NextKeepsPlaces
  <2>4. /\ capacity \in Nat /\ entries \in Tables(capacity) /\ entries' \in Tables(capacity)
        /\ OneEntryPerKey
    BY <2>1, InvFacts, MapInvImplies DEF MapInv, TableOK
  <2>5. KeysInUse' = {entries'[i].key : i \in Used(entries', capacity)}
    BY <2>1 DEF KeysInUse
  \* A key that was in the table is where it was.
  <2>6. ASSUME NEW l \in Used(entries', capacity), entries'[l].key \in KeysInUse
        PROVE  l \in Used(entries, capacity) /\ entries[l].key = entries'[l].key
    <3>1. PICK i \in Used(entries, capacity) : entries'[l].key = entries[i].key
      BY <2>6 DEF KeysInUse
    <3>2. l \in 0..(capacity - 1) /\ i \in 0..(capacity - 1)
      BY DEF Used
    <3>3. entries'[l].key \in Key
      BY <2>4, <3>2, UsedEntry
    <3>4. entries[l].key = entries'[l].key
      BY <2>3, <3>1, <3>2, <3>3 DEF KeepsPlaces
    <3> QED
      BY <3>1, <3>2, <3>4 DEF Used
  <2>7. \A c \in visited' : \E j \in Used(entries', capacity) : entries'[j].key = c /\ j <= iterator
    <3> SUFFICES ASSUME NEW c \in visited'
                 PROVE  \E j \in Used(entries', capacity) : entries'[j].key = c /\ j <= iterator
      OBVIOUS
    <3>1. PICK j \in Used(entries, capacity) : entries[j].key = c /\ j <= iterator
      BY <1>1, <2>2
    <3>2. PICK l \in Used(entries', capacity) : entries'[l].key = c
      BY <1>1, <2>5
    <3>3. entries'[l].key \in KeysInUse
      BY <3>1, <3>2 DEF KeysInUse
    <3>4. l = j
      BY <2>4, <2>6, <3>1, <3>2, <3>3 DEF OneEntryPerKey
    <3> QED
      BY <3>1, <3>2, <3>4
  <2>8. \A j \in Used(entries', capacity) : j <= iterator /\ entries'[j].key \in stayed'
          => entries'[j].key \in visited'
    <3> SUFFICES ASSUME NEW j \in Used(entries', capacity), j <= iterator, entries'[j].key \in stayed'
                 PROVE  entries'[j].key \in visited'
      OBVIOUS
    <3>1. entries'[j].key \in stayed /\ entries'[j].key \in KeysInUse' /\ entries'[j].key \in KeysInUse
      BY <1>1, <2>2
    <3>2. j \in Used(entries, capacity) /\ entries[j].key = entries'[j].key
      BY <2>6, <3>1
    <3> QED
      BY <1>1, <2>2, <3>1, <3>2
  <2> QED
    BY <1>1, <1>3, <2>1, <2>7, <2>8 DEF LoopInv
<1> QED
  BY <1>2, <1>3

LEMMA LoopInvNext ==
  ASSUME ~ShadowedStores, MapInv, MapInv', LoopInv, [LoopNext]_allVars PROVE LoopInv'
<1>1. CASE StartLoop
  <2>1. /\ loop' = "running" /\ stayed' = KeysInUse /\ loop = "before"
        /\ UNCHANGED <<capacity, entries, iterator, resized, visited, again>>
    BY <1>1 DEF StartLoop, mapVars
  <2>2. visited = {} /\ iterator = NoIterator
    BY <2>1 DEF LoopInv
  <2>3. \A j \in Used(entries, capacity) : ~(j <= iterator)
    <3>1. Used(entries, capacity) \subseteq Nat
      BY InvFacts DEF Used
    <3> QED
      BY <2>2, <3>1 DEF NoIterator
  <2> QED
    BY <2>1, <2>2, <2>3 DEF LoopInv, KeysInUse
<1>2. CASE EndLoop
  <2>1. /\ loop = "running" /\ loop' = "over" /\ (iterator >= capacity \/ Candidates = {})
        /\ UNCHANGED <<capacity, entries, iterator, resized, visited, stayed, again>>
    BY <1>2 DEF EndLoop, mapVars
  <2>2. iterator \in Nat \union {NoIterator} /\ FirstCandidate = iterator + 1
    BY DEF LoopInv, FirstCandidate, NoIterator
  <2>3. \A j \in Used(entries, capacity) : j <= iterator
    <3> TAKE j \in Used(entries, capacity)
    <3>1. j \in Nat /\ j < capacity /\ capacity \in Nat
      BY InvFacts DEF Used
    <3>2. CASE iterator >= capacity
      BY <2>2, <3>1, <3>2 DEF NoIterator
    <3>3. CASE Candidates = {}
      <4>1. ~(j >= iterator + 1)
        BY <2>2, <3>3 DEF Candidates
      <4> QED
        BY <2>2, <3>1, <4>1 DEF NoIterator
    <3> QED
      BY <2>1, <3>2, <3>3
  <2>4. ~resized => stayed \subseteq visited
    <3> SUFFICES ASSUME ~resized PROVE stayed \subseteq visited
      OBVIOUS
    <3>1. /\ \A j \in Used(entries, capacity) : j <= iterator /\ entries[j].key \in stayed
               => entries[j].key \in visited
          /\ stayed \subseteq KeysInUse
      BY <2>1 DEF LoopInv
    <3> QED
      BY <2>3, <3>1 DEF KeysInUse
  <2> QED
    BY <2>1, <2>4 DEF LoopInv
<1>3. CASE Before
  <2>1. loop = "before" /\ UNCHANGED <<loop, iterator, resized, visited, stayed, again>>
    BY <1>3 DEF Before, loopVars
  <2> QED
    BY <2>1 DEF LoopInv
<1>4. CASE Iterate
  BY <1>4, IterateStep
<1>5. CASE Body
  BY <1>5, BodyStep
<1>6. CASE UNCHANGED allVars
  BY <1>6 DEF allVars, mapVars, loopVars, LoopInv, KeysInUse
<1> QED
  BY <1>1, <1>2, <1>3, <1>4, <1>5, <1>6 DEF LoopNext

LEMMA LoopImpliesSpec == LoopSpec => MapSpec
BY LoopStepsAreSteps, PTL DEF LoopSpec, LoopInit, MapSpec

\* A loop over a map whose body adds, removes or overwrites keys: as long as the table keeps
\* its size, no key is given twice (but one that was removed and added anew), and at the end
\* every key that was in the map all the time has been given.
THEOREM LoopIsComplete == ASSUME ~ShadowedStores PROVE LoopSpec => []LoopGivesTheKeys
<1>1. LoopInit => LoopInv
  BY DEF LoopInit, LoopInv
<1>2. MapInv /\ MapInv' /\ LoopInv /\ [LoopNext]_allVars => LoopInv'
  BY LoopInvNext
<1>3. LoopInv => LoopGivesTheKeys
  BY DEF LoopInv, LoopGivesTheKeys, NoKeyTwice, EveryKeyGiven
<1> QED
  BY <1>1, <1>2, <1>3, MapInvAlways, LoopImpliesSpec, PTL DEF LoopSpec
=============================================================================
