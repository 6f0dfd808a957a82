----------------------------- MODULE ComposedOp -----------------------------
(* composed::op and op_continuation (include/composed/op.hpp): one composed  *)
(* operation whose task may start others, each with the continuation of the  *)
(* one before as its handler.  Task 1 has the user's handler, and the handler*)
(* of task k + 1 is the continuation of task k.                              *)
(*                                                                           *)
(* An op lives on a thread's stack while its task runs.  It owns the task    *)
(* until the task makes a continuation of it, for an asynchronous operation  *)
(* or for a task it starts, or completes it.  A task keeps to the rules of   *)
(* the file's head comment and assertions: it does one of these at the end of*)
(* each invocation, and does not complete in its first.  It may throw.  The  *)
(* task's storage is a beast::handler_ptr: invoke() frees it, then calls the *)
(* handler.                                                                  *)
EXTENDS Naturals, Sequences, FiniteSets

CONSTANTS Threads,    \* the threads in run(), one of which starts task 1
          MaxTasks,   \* bound: tasks alive at once
          MaxWaits    \* bound: asynchronous operations and tasks started

ASSUME BoundAssumption == MaxTasks \in Nat \ {0} /\ MaxWaits \in Nat \ {0}

VARIABLES live,       \* tasks allocated, with their handlers
          first,      \* tasks in their first invocation
          stack,      \* for each thread, its ops, innermost last: the task
                      \* and whether the op owns it
          caller,     \* for each thread, what called its outermost op: "none",
                      \* "start" (the initiating function) or "loop" (run())
          pending,    \* tasks whose continuation an asynchronous operation has
          waits,      \* asynchronous operations and tasks started so far
          state       \* "new", "started", "called": the user's handler was
                      \* invoked, "dropped": it was destroyed

vars == <<live, first, stack, caller, pending, waits, state>>

Init ==
    /\ live = {} /\ first = {} /\ pending = {}
    /\ stack = [t \in Threads |-> <<>>]
    /\ caller = [t \in Threads |-> "none"]
    /\ waits = 0 /\ state = "new"

-----------------------------------------------------------------------------
Top(t) == stack[t][Len(stack[t])]
Owning(t) == stack[t] # <<>> /\ Top(t).owns

(* The ops of thread t when the innermost has given its task away.           *)
StillOwned(t) == stack[t]     \* mutant of Released: the task is copied
Released(t) == [stack[t] EXCEPT ![Len(stack[t])].owns = FALSE]

NewOp(k) == [task |-> k, owns |-> TRUE]

(* start_op: the task is invoked at once, in the caller's stack.             *)
Start(t) ==
    /\ state = "new" /\ caller[t] = "none"
    /\ state' = "started"
    /\ live' = {1} /\ first' = {1}
    /\ stack' = [stack EXCEPT ![t] = <<NewOp(1)>>]
    /\ caller' = [caller EXCEPT ![t] = "start"]
    /\ UNCHANGED <<pending, waits>>

(* The task passes op(results...) to an asynchronous operation.              *)
Wait(t) ==
    /\ Owning(t) /\ waits < MaxWaits
    /\ waits' = waits + 1
    /\ pending' = pending \union {Top(t).task}
    /\ stack' = [stack EXCEPT ![t] = Released(t)]
    /\ UNCHANGED <<live, first, caller, state>>

(* The task starts another with op(results...) as its handler.               *)
StartTask(t) ==
    /\ Owning(t) /\ waits + 1 < MaxWaits /\ Top(t).task < MaxTasks
    /\ waits' = waits + 1
    /\ LET k == Top(t).task + 1
       IN  /\ live' = live \union {k} /\ first' = first \union {k}
           /\ stack' = [stack EXCEPT ![t] = Append(Released(t), NewOp(k))]
    /\ UNCHANGED <<caller, pending, state>>

(* op.complete(): the task is destroyed and freed, then its handler invoked: *)
(* the user's, or the continuation of the task before it.                    *)
FreedLater(k) == live            \* mutant of Freed: the handler comes first
Freed(k) == live \ {k}

CompleteForgettingHandler(t) ==  \* mutant of Complete
    /\ Owning(t) /\ Top(t).task \notin first
    /\ LET k == Top(t).task
       IN  /\ live' = Freed(k)
           /\ stack' = [stack EXCEPT ![t] = Released(t)]
           /\ state' = IF k = 1 THEN "called" ELSE state
           /\ first' = first
    /\ UNCHANGED <<caller, pending, waits>>

Complete(t) ==
    /\ Owning(t) /\ Top(t).task \notin first
    /\ LET k == Top(t).task
       IN  /\ live' = Freed(k)
           /\ \/ /\ k = 1
                 /\ state' = "called"
                 /\ stack' = [stack EXCEPT ![t] = Released(t)]
                 /\ UNCHANGED first
              \/ /\ k > 1
                 /\ stack' = [stack EXCEPT ![t] =
                                  Append(Released(t), NewOp(k - 1))]
                 /\ first' = first \ {k - 1}
                 /\ UNCHANGED state
    /\ UNCHANGED <<caller, pending, waits>>

(* The call of a task, of start_op or of a continuation returns.             *)
Return(t) ==
    /\ stack[t] # <<>> /\ ~Top(t).owns
    /\ LET left == SubSeq(stack[t], 1, Len(stack[t]) - 1)
       IN  /\ stack' = [stack EXCEPT ![t] = left]
           /\ caller' = IF left = <<>> THEN [caller EXCEPT ![t] = "none"]
                                       ELSE caller
    /\ UNCHANGED <<live, first, pending, waits, state>>

(* A task or a handler throws, through every call on the stack.  An op that  *)
(* owns its task destroys it, with its handler: all the tasks before it.     *)
Throw(t) ==
    /\ stack[t] # <<>>
    /\ stack' = [stack EXCEPT ![t] = <<>>]
    /\ caller' = [caller EXCEPT ![t] = "none"]
    /\ \/ Top(t).owns /\ live' = {} /\ state' = "dropped"
       \/ ~Top(t).owns /\ UNCHANGED <<live, state>>
    /\ UNCHANGED <<first, pending, waits>>

(* An asynchronous operation ends and a thread in run() invokes the          *)
(* continuation, maybe while the call that began it has not returned.        *)
Continue(t) ==
    /\ caller[t] = "none"
    /\ \E k \in pending :
           /\ pending' = pending \ {k}
           /\ first' = first \ {k}
           /\ stack' = [stack EXCEPT ![t] = <<NewOp(k)>>]
    /\ caller' = [caller EXCEPT ![t] = "loop"]
    /\ UNCHANGED <<live, waits, state>>

(* The io_service is destroyed with the continuation in it, which is         *)
(* destroyed, not called.                                                    *)
ContextDestroyed ==
    /\ \A t \in Threads : caller[t] = "none"
    /\ pending # {}
    /\ pending' = {} /\ live' = {} /\ state' = "dropped"
    /\ UNCHANGED <<first, stack, caller, waits>>

Step(t) ==
    \/ Wait(t) \/ StartTask(t) \/ Complete(t) \/ Return(t) \/ Continue(t)

Next ==
    \/ \E t \in Threads : Start(t) \/ Step(t) \/ Throw(t)
    \/ ContextDestroyed

(* Tasks end their invocations, asynchronous operations end, and the threads *)
(* in run() invoke what is to be invoked.                                    *)
Spec == Init /\ [][Next]_vars /\ \A t \in Threads : WF_vars(Step(t))
-----------------------------------------------------------------------------
Owners == {t \in Threads : Owning(t)}
Owned == {Top(t).task : t \in Owners} \union pending

(* Until the operation has ended one op or one continuation owns the latest  *)
(* task, and through it all the others, and the op is at the top of its      *)
(* thread's stack: the assertions of op.hpp:82, 90 and 106 hold and no task  *)
(* is leaked, whatever threads run the continuations and wherever a task     *)
(* throws.                                                                   *)
OneOwner ==
    /\ Cardinality(Owners) + Cardinality(pending) = IF live = {} THEN 0
                                                                 ELSE 1
    /\ \A k \in Owned : live = 1..k
    /\ \A t \in Threads : \A i \in 1..(Len(stack[t]) - 1) : ~stack[t][i].owns

(* tests/op.cpp:72: "they were all deallocated before the handler was        *)
(* invoked", the tasks that task 1 started included, and the handler is      *)
(* invoked once, by run() and not in the initiating function.                *)
HandlerCalledLast ==
    [][state' = "called" =>
           /\ live' = {} /\ pending = {}
           /\ state = "started" \/ state = "called"
           /\ state = "started" =>
                  \E t \in Threads : Owning(t) /\ caller[t] = "loop"]_vars

(* An operation that was started ends with its handler called, or destroyed  *)
(* after an exception or with the io_service.                                *)
OpEnds == (state = "started") ~> (state \in {"called", "dropped"})
=============================================================================
