------------------------- MODULE TransparentService -------------------------
(* util::asio::TransparentService and TransparentIoObject (include/util/asio/*)
(* transparentservice.hpp): who keeps an implementation object and the       *)
(* io_service's run() going while asynchronous operations are under way.     *)
(*                                                                           *)
(* The implementation is any class the service may wrap.  Its operations are *)
(* written as lines 110-112 of the source invite: they capture `this` and    *)
(* leave it to the handler to keep the object alive.  The io_service is that *)
(* of an IoThread; the I/O objects are used by its handlers and its owner.   *)
EXTENDS FiniteSets, IoThread

CONSTANTS Objects,   \* I/O objects: the first one made and those moved into
          First,     \* the object that constructs the implementation
          NoObject,  \* no object holds the implementation
          Ops        \* asynchronous operations

ASSUME ObjectAssumption == First \in Objects /\ NoObject \notin Objects

VARIABLES existing,  \* I/O objects constructed and not yet destroyed
          holder,    \* the object whose implementation pointer is not null,
                     \* or NoObject
          moved,     \* objects that have been moved from
          op,        \* "idle", "held": the implementation keeps the handler
                     \* until its operation ends; "completing": a completion
                     \* that will call the handler, which it keeps, is in the
                     \* io_service's queue; "posted": the wrapped handler is;
                     \* "done": the wrapped handler is invoked and destroyed
          working    \* operations whose TransparentHandler exists, and in it
                     \* the work object (copies of it count as one)

vars == <<existing, holder, moved, op, working, threadVars>>

Init ==
    /\ existing = {First} /\ holder = First /\ moved = {}
    /\ op = [p \in Ops |-> "idle"] /\ working = {}
    /\ InitThread

InState(s) == {p \in Ops : op[p] = s}
Queued == InState("completing") \union InState("posted")
UnderWay == InState("held") \union Queued

(* The pointers of TransparentHandlers to their implementation.  The token's *)
(* constructor takes one and does not store it: impl() is null.              *)
HoldsImpl == {}

ImplAlive == holder # NoObject \/ HoldsImpl # {}

(* The token becomes a handler, and the handler has a work object.           *)
MakeHandler(p) == working' = working \union {p} /\ WorkStarts(1)

(* The macro's method: transform the token, call the implementation.         *)
StartWithoutWork(p) ==   \* mutant of Start: a handler without mWork
    /\ holder # NoObject /\ op[p] = "idle"
    /\ op' = [op EXCEPT ![p] = "held"]
    /\ UNCHANGED <<existing, holder, moved, working, threadVars>>
Start(p) ==
    /\ holder # NoObject /\ op[p] = "idle"
    /\ op' = [op EXCEPT ![p] = "held"]
    /\ MakeHandler(p)
    /\ UNCHANGED <<existing, holder, moved, mWork, mJoin, caller, caught>>

(* The operation ends, on any thread: the handler dispatches what it wraps.  *)
End(p) ==
    /\ op[p] = "held"
    /\ op' = [op EXCEPT ![p] = "posted"] /\ WorkStarts(1)
    /\ UNCHANGED <<existing, holder, moved, working, mWork, mJoin, caller,
                   caught>>

(* The handler that has dispatched what it wraps is destroyed, before or     *)
(* after that is run.                                                        *)
Release(p) ==
    /\ p \in working /\ op[p] \in {"posted", "done"}
    /\ working' = working \ {p} /\ WorkFinishes
    /\ UNCHANGED <<existing, holder, moved, op, mWork, mJoin, caller, caught>>

(* run() takes an entry from the queue; a completion calls the handler, and  *)
(* dispatch(), inside run(), what it wraps.                                  *)
Run(p) ==
    /\ run = "running" /\ p \in Queued
    /\ op' = [op EXCEPT ![p] = "done"]
    /\ UNCHANGED <<existing, holder, moved, working, mWork, mJoin, caller,
                   caught>>
Invoke(p) == Run(p) /\ WorkFinishes

(* An exception that leaves a handler leaves run() with the rest unrun.      *)
InvokeThrows(p) ==
    /\ Run(p)
    /\ outstanding' = outstanding - 1 /\ run' = "threw"

(* Impl::close ends every operation under way, for each of which it posts a  *)
(* completion; on a null pointer nothing happens.                            *)
NothingEnded(o) == {}            \* mutant of Ended: operations are left held
Ended(o) == IF holder = o THEN InState("held") ELSE {}
Closed(o) ==
    /\ op' = [p \in Ops |-> IF p \in Ended(o) THEN "completing" ELSE op[p]]
    /\ WorkStarts(Cardinality(Ended(o)))
    /\ UNCHANGED <<moved, working, mWork, mJoin, caller, caught>>
Close(o) ==
    /\ o \in existing
    /\ Closed(o)
    /\ UNCHANGED <<existing, holder>>

(* Move construction hands the implementation on. *)
MoveConstruct(from, to) ==
    /\ from \in existing /\ holder = from
    /\ to \notin existing /\ to \notin moved
    /\ existing' = existing \union {to}
    /\ holder' = to
    /\ moved' = moved \union {from}
    /\ UNCHANGED <<op, working, threadVars>>

(* destroy(): close, then drop the pointer. *)
PointerAfter(o) == IF holder = o THEN NoObject ELSE holder

Destroy(o) ==
    /\ o \in existing
    /\ Closed(o)
    /\ existing' = existing \ {o}
    /\ holder' = PointerAfter(o)

(* The IoThread goes after the objects that use its io_service. *)
OwnerActs ==
    /\ Join \/ (existing = {} /\ Destructor) \/ Get
    /\ UNCHANGED <<existing, holder, moved, op, working>>

Next ==
    \/ \E p \in Ops :
           Start(p) \/ End(p) \/ Release(p) \/ Invoke(p) \/ InvokeThrows(p)
    \/ \E o \in Objects : Close(o) \/ Destroy(o)
    \/ \E from, to \in Objects : MoveConstruct(from, to)
    \/ OwnerActs

(* The thread runs what is queued, a handler that is through is destroyed,   *)
(* and get() returns once run() has.  Nobody is obliged to join.             *)
Fairness ==
    /\ \A p \in Ops :
           WF_vars(Invoke(p) \/ InvokeThrows(p)) /\ WF_vars(Release(p))
    /\ WF_vars(OwnerActs /\ Blocked)

Spec == Init /\ [][Next]_vars /\ Fairness
-----------------------------------------------------------------------------
(* Type invariant. *)
TypeOK ==
    /\ existing \subseteq Objects /\ moved \subseteq Objects
    /\ holder \in existing \union {NoObject}
    /\ op \in [Ops -> {"idle", "held", "completing", "posted", "done"}]
    /\ working \subseteq Ops
    /\ ThreadTypeOK

(* Condition 1 of the comment on TransparentCompletionToken: run() does not  *)
(* return, nor join(), while a handler has not been invoked and destroyed,   *)
(* even one that the implementation keeps for itself: the io_service, which  *)
(* only counts, never gets to zero between one owner of a handler and the    *)
(* next, wherever the thread that ends an operation is in doing so.          *)
RunOutlivesHandlers ==
    [][run = "running" /\ run' = "returned"
           => UnderWay' = {} /\ working' = {}]_vars

(* Nor does run() go on for ever: once the last I/O object is destroyed, the *)
(* handlers it was holding are invoked and join() and the destructor of the  *)
(* IoThread end.                                                             *)
JoinEnds == (Blocked /\ existing = {}) ~> ~Blocked

(* Condition 2 of that comment (transparentservice.hpp:37): "The             *)
(* implementation object will not be destroyed until after the handler has   *)
(* been invoked and destroyed."                                              *)
ImplOutlivesHandlers == UnderWay # {} => ImplAlive
=============================================================================
