----------------------------- MODULE Operation ------------------------------
(* The composed operations of include/util/asio/operation.hpp: Operation     *)
(* objects, the copies of which are the branches of a coroutine, share an    *)
(* OperationState with a reference count, a result and a completion handler. *)
(* The release of the last reference destroys the state and then calls the   *)
(* handler.  Namespace v2 dispatches an operation to an io_service and is    *)
(* told its result; v1 runs it in its initiator and asks for the result.     *)
(*                                                                           *)
(* One thread runs the io_service: the count is not atomic.                  *)
EXTENDS Naturals, Sequences, FiniteSets

CONSTANTS Branches,   \* the branches a coroutine may fork into
          Main,       \* the one asyncDispatch starts
          Results,    \* values passed to complete()
          Default,    \* defaultResult
          MaxYields   \* bound: suspensions

ASSUME MainAssumption == Main \in Branches
ASSUME ResultAssumption == Default \notin Results
ASSUME BoundAssumption == MaxYields \in Nat
ASSUME FiniteAssumption == IsFiniteSet(Branches)

VARIABLES api,       \* the namespace in use: "v1" or "v2"
          branch,    \* "none", "queued": in the io_service's queue, "waiting":
                     \* held by the asynchronous operation it awaits, "running"
                     \* or "ended": its Operation is gone
          stack,     \* the branches on the call stack, innermost last
          state,     \* OperationState: "none", "live" or "destroyed"; "failed"
                     \* if its constructor threw
          mRefs,
          mResult,   \* v1: what Base::result() would answer
          context,   \* io_service: "up", or "down" once it is being destroyed
          yields,    \* suspensions so far
          lastSet,   \* history: what complete() was last given
          calls      \* history: the results the handler was called with

vars == <<api, branch, stack, state, mRefs, mResult, context, yields, lastSet,
          calls>>

Init ==
    /\ api \in {"v1", "v2"}
    /\ branch = [b \in Branches |-> "none"] /\ stack = <<>>
    /\ state = "none" /\ mRefs = 0 /\ mResult = Default
    /\ context = "up" /\ yields = 0
    /\ lastSet = Default /\ calls = <<>>

Held(b) == branch[b] \in {"queued", "waiting", "running"}
Handles == {b \in Branches : Held(b)}
Running(b) == stack # <<>> /\ stack[Len(stack)] = b
Callers == SubSeq(stack, 1, Len(stack) - 1)

(* intrusive_ptr_release, of n references at once. *)
ReleaseSilently(n) ==   \* mutant of Release: the handler is not called
    /\ mRefs' = mRefs - n
    /\ \/ mRefs' > 0 /\ UNCHANGED <<state, calls>>
       \/ mRefs' = 0 /\ state' = "destroyed" /\ UNCHANGED calls
Release(n) ==
    /\ mRefs' = mRefs - n
    /\ \/ mRefs' # 0 /\ UNCHANGED <<state, calls>>
       \/ mRefs' = 0 /\ state' = "destroyed" /\ calls' = Append(calls, mResult)

ReleaseV1(n) ==      \* the result is computed when the last branch is gone
    /\ mRefs' = mRefs - n
    /\ \/ mRefs' # 0 /\ UNCHANGED <<state, calls>>
       \/ mRefs' = 0 /\ state' = "destroyed" /\ calls' = Append(calls, mResult)
LetGo(n) == \/ api = "v1" /\ ReleaseV1(n)
            \/ api = "v2" /\ Release(n)

Begin(status) ==
    /\ context = "up" /\ state = "none"
    /\ branch' = [branch EXCEPT ![Main] = status]
    /\ stack' = IF status = "running" THEN <<Main>> ELSE <<>>
    /\ state' = "live" /\ mRefs' = 1 /\ mResult' = Default
    /\ UNCHANGED <<api, context, yields, lastSet, calls>>

(* makeOperation and dispatch, which runs it at once if called from inside   *)
(* the io_service's run().                                                   *)
AsyncDispatch ==
    api = "v2" /\ \E status \in {"queued", "running"} : Begin(status)

(* v1::makeOperation<Base>(handler, args...)() *)
StartV1 == api = "v1" /\ Begin("running")

(* The memory is given back, and the initiator gets the exception.           *)
MakeOperationThrows ==
    /\ api = "v2" /\ context = "up" /\ state = "none"
    /\ state' = "failed"
    /\ UNCHANGED <<api, branch, stack, mRefs, mResult, context, yields,
                   lastSet, calls>>
MakeStateThrowsV1 ==
    /\ api = "v1" /\ context = "up" /\ state = "none"
    /\ state' = "failed"
    /\ UNCHANGED <<api, branch, stack, mRefs, mResult, context, yields,
                   lastSet, calls>>

(* operator(): the io_service invokes a queued Operation. *)
Invoke(b) ==
    /\ context = "up" /\ stack = <<>> /\ branch[b] = "queued"
    /\ branch' = [branch EXCEPT ![b] = "running"]
    /\ stack' = <<b>>
    /\ UNCHANGED <<api, state, mRefs, mResult, context, yields, lastSet,
                   calls>>

(* fork op.runChild(): a copy runs at once, inside its parent. *)
ForkUncounted(b, c) ==   \* mutant of Fork: the copy takes no reference
    /\ Running(b) /\ branch[c] = "none"
    /\ branch' = [branch EXCEPT ![c] = "running"]
    /\ stack' = Append(stack, c)
    /\ UNCHANGED <<api, state, mRefs, mResult, context, yields, lastSet,
                   calls>>
Fork(b, c) ==
    /\ Running(b) /\ branch[c] = "none"
    /\ branch' = [branch EXCEPT ![c] = "running"]
    /\ stack' = Append(stack, c)
    /\ mRefs' = mRefs + 1
    /\ UNCHANGED <<api, state, mResult, context, yields, lastSet, calls>>

(* mutant of NewResult *)
FirstResult(r) == IF mResult = Default THEN r ELSE mResult
NewResult(r) == r

(* op.complete(r) only sets the result; in v1 the branches change Base. *)
Complete(b, r) ==
    /\ Running(b)
    /\ mResult' = NewResult(r) /\ lastSet' = r
    /\ UNCHANGED <<api, branch, stack, state, mRefs, context, yields, calls>>

(* yield f(std::move(op)): the Operation moves into what it waits for. *)
Yield(b) ==
    /\ Running(b) /\ yields < MaxYields
    /\ yields' = yields + 1
    /\ branch' = [branch EXCEPT ![b] = "waiting"]
    /\ stack' = Callers
    /\ UNCHANGED <<api, state, mRefs, mResult, context, lastSet, calls>>

(* The coroutine is complete: operator() resets the state pointer. *)
Finish(b) ==
    /\ Running(b)
    /\ branch' = [branch EXCEPT ![b] = "ended"]
    /\ stack' = Callers
    /\ LetGo(1)
    /\ UNCHANGED <<api, mResult, context, yields, lastSet>>

(* The coroutine throws: the exception leaves every branch on the stack, and *)
(* their Operations are destroyed.                                           *)
Throw(b) ==
    /\ Running(b)
    /\ branch' = [c \in Branches |-> IF branch[c] = "running" THEN "ended"
                                                              ELSE branch[c]]
    /\ stack' = <<>>
    /\ LetGo(Len(stack))
    /\ UNCHANGED <<api, mResult, context, yields, lastSet>>

(* What a branch waits for is over. *)
Ready(b) ==
    /\ context = "up" /\ branch[b] = "waiting"
    /\ branch' = [branch EXCEPT ![b] = "queued"]
    /\ UNCHANGED <<api, stack, state, mRefs, mResult, context, yields, lastSet,
                   calls>>

(* The io_service is destroyed, and with it, one by one and uninvoked, the   *)
(* handlers it holds.                                                        *)
Shutdown ==
    /\ context = "up" /\ stack = <<>>
    /\ context' = "down"
    /\ UNCHANGED <<api, branch, stack, state, mRefs, mResult, yields, lastSet,
                   calls>>

Abandon(b) ==
    /\ context = "down" /\ branch[b] \in {"queued", "waiting"}
    /\ branch' = [branch EXCEPT ![b] = "ended"]
    /\ LetGo(1)
    /\ UNCHANGED <<api, stack, mResult, context, yields, lastSet>>

Step(b) ==
    \/ Invoke(b) \/ Yield(b) \/ Finish(b) \/ Throw(b) \/ Ready(b) \/ Abandon(b)
    \/ \E c \in Branches : Fork(b, c)
    \/ \E r \in Results : Complete(b, r)

Next == \/ AsyncDispatch \/ StartV1 \/ Shutdown
        \/ MakeOperationThrows \/ MakeStateThrowsV1
        \/ \E b \in Branches : Step(b)

(* The io_service runs what is queued, what is awaited ends, a coroutine     *)
(* comes to its end or its next yield, and a destructor to its end.          *)
Fairness == \A b \in Branches :
    /\ WF_vars(Invoke(b)) /\ WF_vars(Ready(b))
    /\ WF_vars(Finish(b)) /\ WF_vars(Abandon(b))

Spec == Init /\ [][Next]_vars /\ Fairness
-----------------------------------------------------------------------------
(* Type invariant. *)
TypeOK ==
    /\ branch \in [Branches ->
                      {"none", "queued", "waiting", "running", "ended"}]
    /\ stack \in Seq(Branches)
    /\ state \in {"none", "failed", "live", "destroyed"}
    /\ api \in {"v1", "v2"}
    /\ mRefs \in Nat /\ yields \in 0..MaxYields
    /\ mResult \in Results \union {Default}
    /\ lastSet \in Results \union {Default}
    /\ context \in {"up", "down"}
    /\ calls \in Seq(Results \union {Default})

(* The count is the number of Operation objects, copied, moved, suspended or *)
(* destroyed as they may be.                                                 *)
RefsCountHandles == mRefs = Cardinality(Handles)

(* The state outlives every Operation: no branch, running or to be resumed,  *)
(* ever touches a destroyed one; and the handler is called once, when the    *)
(* last branch is gone, however they end: completed, thrown out of, or       *)
(* dropped with the io_service; with the last result any branch set, or the  *)
(* default; and never if makeOperation has thrown.                           *)
HandlerCalledLast ==
    /\ Handles # {} => state = "live"
    /\ calls = IF state \in {"none", "failed"} \/ Handles # {}
               THEN <<>> ELSE <<lastSet>>

(* Every operation started calls its handler in the end. *)
HandlerCalled == state = "live" ~> calls # <<>>
=============================================================================
