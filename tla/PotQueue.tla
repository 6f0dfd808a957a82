------------------------------ MODULE PotQueue ------------------------------
(* util::PotQueue (include/util/potqueue.hpp), a queue over PotRingbuffer,   *)
(* and what the volatile members of both are for: a queue that a program and *)
(* an interrupt handler share.  The handler's calls run to their end, the    *)
(* program's are interrupted between two volatile accesses.                  *)
EXTENDS PowerOfTwoRing

VARIABLES producer,   \* who pushes: "program" or "interrupt"
          pc,         \* the program's next step; "idle" between calls
          loaded,     \* the index it has loaded, to store its successor
          elem,       \* the element it has read at the front, or pushes
          overran,    \* history: in a call of the program that drops or pops a
                      \* front element, an interrupt dropped or popped one
          early,      \* history: an interrupt popped an unwritten element
          wrong       \* history: an element other than the oldest was popped

control == <<producer, pc, loaded, elem>>
verdicts == <<overran, early, wrong>>
queueVars == <<vars, control, verdicts>>

QueueInit ==
    /\ Init
    /\ producer \in {"program", "interrupt"} /\ pc = "idle"
    /\ loaded = 0 /\ elem \in Elems
    /\ overran = FALSE /\ early = FALSE /\ wrong = FALSE

Goto(from, to) ==
    pc = from /\ pc' = to /\ UNCHANGED <<producer, overran, early>>
Drop(s) == IF s = <<>> THEN s ELSE Tail(s)
-----------------------------------------------------------------------------
(* front() and pop() of the program. *)
ReadFront ==
    /\ producer = "interrupt" /\ ~Empty
    /\ Goto("idle", "load begin")
    /\ elem' = mData[At(0)]
    /\ UNCHANGED <<vars, loaded, wrong>>
LoadForPop ==
    /\ Goto("load begin", "pop")
    /\ loaded' = mBegin
    /\ UNCHANGED <<vars, elem, wrong>>
StorePop ==
    /\ Goto("pop", "idle")
    /\ mBegin' = Incr(loaded)
    /\ wrong' = (wrong \/ deque = <<>> \/ Head(deque) # elem)
    /\ deque' = Drop(deque)
    /\ UNCHANGED <<mEnd, mData, loaded, elem>>

(* push(e) of the program: the incr(mBegin) of a full ring, incr(mEnd), and  *)
(* back() = elem.                                                            *)
BeginPush(e) ==
    /\ producer = "program"
    /\ Goto("idle", IF Full THEN "store begin" ELSE "store end")
    /\ loaded' = mBegin /\ elem' = e
    /\ UNCHANGED <<vars, wrong>>
StoreBegin ==
    /\ Goto("store begin", "store end")
    /\ mBegin' = Incr(loaded)
    /\ deque' = Drop(deque)
    /\ UNCHANGED <<mEnd, mData, loaded, elem, wrong>>
StoreEnd ==
    /\ Goto("store end", "write")
    /\ mEnd' = Incr(mEnd)               \* nobody else stores mEnd
    /\ deque' = Append(deque, elem)
    /\ UNCHANGED <<mBegin, mData, loaded, elem, wrong>>
WriteBack ==
    /\ Goto("write", "idle")
    /\ mData' = [mData EXCEPT ![ReverseAt(1)] = elem]
    /\ UNCHANGED <<mBegin, mEnd, deque, loaded, elem, wrong>>

InterruptOverwrites(e) ==   \* mutant of InterruptPush: without `if (full())`
    /\ producer = "interrupt"
    /\ mEnd' = Incr(mEnd)
    /\ mData' = [mData EXCEPT ![ReverseAt(1)'] = e]
    /\ deque' = Append(IF Full THEN Tail(deque) ELSE deque, e)
    /\ overran' = (overran \/ (Full /\ pc # "idle"))
    /\ UNCHANGED <<mBegin, control, early, wrong>>
InterruptPush(e) ==
    /\ producer = "interrupt"
    /\ PushBack(e)
    /\ overran' = (overran \/ (Full /\ pc # "idle"))
    /\ UNCHANGED <<control, early, wrong>>

InterruptPop ==
    /\ producer = "program"
    /\ PopFront
    /\ wrong' = (wrong \/ mData[At(0)] # Head(deque))
    /\ early' = (early \/ (pc = "write" /\ Size = 1))
    /\ overran' = (overran \/ pc = "store begin")
    /\ UNCHANGED control

(* Bound: what an overrun leads to is not followed further. *)
QueueNext ==
    /\ ~overran
    /\ \/ ReadFront \/ LoadForPop \/ StorePop
       \/ StoreBegin \/ StoreEnd \/ WriteBack \/ InterruptPop
       \/ \E e \in Elems : BeginPush(e) \/ InterruptPush(e)

QueueSpec == QueueInit /\ [][QueueNext]_queueVars
-----------------------------------------------------------------------------
(* However a program and an interrupt handler share the ring, one pushing    *)
(* and the other popping, without a lock: elements come out oldest first,    *)
(* and sizes and positions stay right, but for two races.  A push to a full  *)
(* ring moves mBegin, which the popping side moves too; and a push publishes *)
(* mEnd before it writes the element, which only hurts when the handler pops *)
(* the ring's only element just then.                                        *)
OnlyTwoRaces ==
    /\ wrong => overran \/ early
    /\ ~overran => SizeCounts /\ (pc # "write" => Positions)
=============================================================================
