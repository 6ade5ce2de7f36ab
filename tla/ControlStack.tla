---------------------------- MODULE ControlStack ----------------------------
(***************************************************************************)
(* What the coroutine scheduler promises: control is strictly nested.  The *)
(* host starts one thread; the running thread may pass control to a thread *)
(* that is not waiting for anybody, and control comes back only to the     *)
(* thread that passed it.  A thread that is done never gets control again. *)
(***************************************************************************)
EXTENDS Integers, Sequences

CONSTANT Thread

VARIABLES
  stack,  \* the threads with a pending activation, the running one first
  done    \* the threads that have returned

TypeOK == stack \in Seq(Thread) /\ done \subseteq Thread

Init == stack = <<>> /\ done = {}

Pending == {stack[i] : i \in 1..Len(stack)}

\* The host starts a thread.
Begin(t) ==
  /\ stack = <<>>
  /\ t \notin done
  /\ stack' = <<t>>
  /\ UNCHANGED done

\* The running thread passes control on.
Push(t) ==
  /\ stack # <<>>
  /\ t \notin Pending \union done
  /\ stack' = <<t>> \o stack
  /\ UNCHANGED done

\* The running thread gives control back, for good or to be called again later.
Pop(returned) ==
  /\ Len(stack) > 1
  /\ stack' = Tail(stack)
  /\ done' = IF returned THEN done \union {Head(stack)} ELSE done

\* Everything is handed back to the host at once.
Leave(returned) ==
  /\ stack # <<>>
  /\ returned => Len(stack) = 1
  /\ stack' = <<>>
  /\ done' = IF returned THEN done \union {Head(stack)} ELSE done

Next ==
  \/ \E t \in Thread : Begin(t) \/ Push(t)
  \/ \E returned \in BOOLEAN : Pop(returned) \/ Leave(returned)

Spec == Init /\ [][Next]_<<stack, done>>
=============================================================================
