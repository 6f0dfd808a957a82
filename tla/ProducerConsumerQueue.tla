----------------------- MODULE ProducerConsumerQueue ------------------------
(* util::ProducerConsumerQueue (include/util/producerconsumerqueue.hpp): a   *)
(* queue of consuming function objects and a queue of data, of which post()  *)
(* pairs the fronts and invokes.  post() runs user code from inside its      *)
(* loop: the handler may call consume and produce again, which run a post()  *)
(* of their own before the handler returns, and it may throw, which leaves   *)
(* every post() the exception passes through.  The class takes no lock: it   *)
(* is modelled as used, by one thread at a time.                             *)
EXTENDS Sequences, Naturals, Integers

CONSTANTS Handlers,     \* consuming function objects
          Data,         \* data tuples
          MaxConsume,   \* bound: calls of consume
          MaxProduce    \* bound: calls of produce

ASSUME BoundAssumption == MaxConsume \in Nat /\ MaxProduce \in Nat

VARIABLES mHandlers,    \* std::queue<Handler>
          mData,        \* std::queue<DataTuple>
          pc,           \* "post": in the while loop of the innermost post()
                        \* "user": in user code, a handler's or the thread's
          running,      \* <<handler, datum>> of the handlers being called,
                        \* innermost last, each with a post() of its own
          asked,        \* history: the handlers passed to consume
          offered,      \* history: the data passed to produce
          served,       \* history: the <<handler, datum>> invocations
          failed        \* history: has copying a front element thrown?

queues == <<mHandlers, mData>>
history == <<asked, offered, served>>
vars == <<mHandlers, mData, pc, running, asked, offered, served, failed>>

Pair == Handlers \X Data

Init ==
    /\ mHandlers = <<>> /\ mData = <<>>
    /\ pc = "user" /\ running = <<>>
    /\ asked = <<>> /\ offered = <<>> /\ served = <<>> /\ failed = FALSE

(* consume and produce up to their call of post(). *)
ConsumeForgetsPost(h) ==   \* mutant of Consume: post() is not called
    /\ pc = "user" /\ Len(asked) < MaxConsume
    /\ mHandlers' = Append(mHandlers, h)
    /\ asked' = Append(asked, h)
    /\ UNCHANGED <<mData, pc, running, offered, served, failed>>

Consume(h) ==
    /\ pc = "user" /\ Len(asked) < MaxConsume
    /\ mHandlers' = Append(mHandlers, h)
    /\ asked' = Append(asked, h)
    /\ pc' = "post"
    /\ UNCHANGED <<mData, running, offered, served, failed>>

(* mutant of Produce: a handler's data wait until it is over *)
ProduceDefersInHandler(d) ==
    /\ pc = "user" /\ Len(offered) < MaxProduce
    /\ mData' = Append(mData, d)
    /\ offered' = Append(offered, d)
    /\ pc' = IF running = <<>> THEN "post" ELSE "user"
    /\ UNCHANGED <<mHandlers, running, asked, served, failed>>

Produce(d) ==
    /\ pc = "user" /\ Len(offered) < MaxProduce
    /\ mData' = Append(mData, d)
    /\ offered' = Append(offered, d)
    /\ pc' = "post"
    /\ UNCHANGED <<mHandlers, running, asked, served, failed>>

BothWaiting == mHandlers # <<>> /\ mData # <<>>

(* The call applyTuple makes, and the data left behind it. *)
NewestCall == <<Head(mHandlers), mData[Len(mData)]>>     \* mutant of FrontCall
FrontCall == <<Head(mHandlers), Head(mData)>>

DataAfterPop == Tail(mData)

(* One turn of the loop: both fronts are popped before the handler runs. *)
PostInvoke ==
    /\ pc = "post" /\ BothWaiting
    /\ running' = Append(running, FrontCall)
    /\ served' = Append(served, FrontCall)
    /\ mHandlers' = Tail(mHandlers)
    /\ mData' = DataAfterPop
    /\ pc' = "user"
    /\ UNCHANGED <<asked, offered, failed>>

(* The copy of a front element throws (bad_alloc, or its own constructor)    *)
(* before anything is popped: the pair stays queued, the call has failed.    *)
PostCopyThrow ==
    /\ pc = "post" /\ BothWaiting
    /\ pc' = "user"
    /\ failed' = TRUE
    /\ UNCHANGED <<queues, running, history>>

PostReturn ==
    /\ pc = "post" /\ ~BothWaiting
    /\ pc' = "user"
    /\ UNCHANGED <<queues, running, history, failed>>

Innermost(s) == SubSeq(s, 1, Len(s) - 1)

(* The innermost handler returns into the loop of the post() that called it. *)
HandlerReturn ==
    /\ pc = "user" /\ running # <<>>
    /\ running' = Innermost(running)
    /\ pc' = "post"
    /\ UNCHANGED <<queues, history, failed>>

(* It throws instead: the exception also leaves that post() and the consume  *)
(* or produce around it, into the user code that made the call.              *)
HandlerThrow ==
    /\ pc = "user" /\ running # <<>>
    /\ running' = Innermost(running)
    /\ UNCHANGED <<queues, pc, history, failed>>

Post == PostInvoke \/ PostCopyThrow \/ PostReturn

Next ==
    \/ \E h \in Handlers : Consume(h)
    \/ \E d \in Data : Produce(d)
    \/ Post
    \/ HandlerReturn
    \/ HandlerThrow

(* post() does not stop between two statements.  Nothing makes a handler     *)
(* return or a user call again.                                              *)
Spec == Init /\ [][Next]_vars /\ WF_vars(PostInvoke)
-----------------------------------------------------------------------------
(* Type invariant. *)
TypeOK ==
    /\ mHandlers \in Seq(Handlers) /\ mData \in Seq(Data)
    /\ pc \in {"post", "user"}
    /\ running \in Seq(Pair)
    /\ asked \in Seq(Handlers) /\ offered \in Seq(Data)
    /\ served \in Seq(Pair) /\ failed \in BOOLEAN

(* The k-th handler passed to consume is invoked with the k-th datum passed  *)
(* to produce, in order, whatever the nesting of the calls and however many  *)
(* handlers throw: post() pops both fronts before it invokes.  Nothing is    *)
(* lost or served twice: what is still queued is exactly what came in after  *)
(* the last one served.                                                      *)
Paired ==
    \A k \in 1..Len(served) :
        /\ k <= Len(asked) /\ k <= Len(offered)
        /\ served[k] = <<asked[k], offered[k]>>
NoneLost ==
    /\ mHandlers = SubSeq(asked, Len(served) + 1, Len(asked))
    /\ mData = SubSeq(offered, Len(served) + 1, Len(offered))
FifoPairing == Paired /\ NoneLost

(* Whenever user code has control, inside a handler as well as outside, at   *)
(* most one of the queues holds anything, so depth() tells the whole state   *)
(* and the loop of a post() never finds a second pair.  A throwing handler   *)
(* does not strand a pair; only an element that could not be copied does.    *)
OneSided == pc = "user" => failed \/ mHandlers = <<>> \/ mData = <<>>

(* A post() invokes at most one handler: when a handler returns to its loop, *)
(* the loop ends, unless it is to serve pairs that a failed copy stranded.   *)
(* Nested calls have already served what they brought.                       *)
AtMostOnePerPost == [][HandlerReturn => failed \/ ~BothWaiting']_vars

(* What the queue means to its users: the two halves of its state, the stack *)
(* of invocations and pc are left out.                                       *)
Abstract == INSTANCE Rendezvous
    WITH Handlers <- Handlers, Data <- Data, asked <- asked,
         offered <- offered, served <- served, failed <- failed

(* The queue implements Rendezvous: in particular, until a copy fails, a     *)
(* handler and a datum that wait together are served before anyone calls in  *)
(* again.                                                                    *)
ImplementsRendezvous == Abstract!Spec
=============================================================================
