-------------------- MODULE ProducerConsumerQueueProofs ---------------------
(* Theorems about util::ProducerConsumerQueue for every set of handlers and  *)
(* data, every bound and every nesting of calls.                             *)
EXTENDS ProducerConsumerQueue, SequenceTheorems, TLAPS

(* q is what is left of all once its first n elements are gone. *)
Rest(q, all, n) ==
    /\ Len(all) = n + Len(q)
    /\ \A k \in 1..Len(q) : q[k] = all[n + k]

(* The queues hold what came in after the last pair served: Paired and  *)
(* NoneLost, with indices.                                           *)
Indexed ==
    /\ Rest(mHandlers, asked, Len(served))
    /\ Rest(mData, offered, Len(served))
    /\ Paired

(* Until a copy fails, at most one queue holds anything when user code has   *)
(* control, and while a post() has it, what is waiting on one side came with *)
(* the call itself.                                                          *)
Balanced ==
    /\ OneSided
    /\ ~failed /\ BothWaiting => Len(mHandlers) = 1 \/ Len(mData) = 1

-----------------------------------------------------------------------------
LEMMA InnermostType ==
    ASSUME NEW S, NEW s \in Seq(S), s # <<>>
    PROVE  Innermost(s) \in Seq(S)
<1>1. Len(s) \in Nat /\ Len(s) # 0
  BY EmptySeq
<1>2. \A i \in 1..(Len(s) - 1) : s[i] \in S
  BY <1>1
<1> QED
  BY <1>1, <1>2 DEF Innermost

(* The variables keep their types. *)
THEOREM TypeCorrect == Spec => []TypeOK
<1>1. Init => TypeOK
  <2>1. Init => failed \in BOOLEAN
    BY Zenon DEF Init
  <2> QED
    BY <2>1 DEF Init, TypeOK
<1>2. TypeOK /\ [Next]_vars => TypeOK'
  <2> SUFFICES ASSUME TypeOK, [Next]_vars PROVE TypeOK'
    OBVIOUS
  <2> USE DEF TypeOK
  <2>1. ASSUME NEW h \in Handlers, Consume(h) PROVE TypeOK'
    BY <2>1 DEF Consume
  <2>2. ASSUME NEW d \in Data, Produce(d) PROVE TypeOK'
    BY <2>2 DEF Produce
  <2>3. CASE PostInvoke
    <3>1. Head(mHandlers) \in Handlers /\ Head(mData) \in Data
      BY <2>3 DEF PostInvoke, BothWaiting
    <3>2. FrontCall \in Pair
      BY <3>1 DEF FrontCall, Pair
    <3>3. Tail(mHandlers) \in Seq(Handlers) /\ Tail(mData) \in Seq(Data)
      BY <2>3 DEF PostInvoke, BothWaiting
    <3> QED
      BY <2>3, <3>2, <3>3 DEF PostInvoke, DataAfterPop
  <2>4. CASE PostCopyThrow
    BY <2>4 DEF PostCopyThrow, queues, history
  <2>5. CASE PostReturn
    BY <2>5 DEF PostReturn, queues, history
  <2>6. CASE HandlerReturn
    BY <2>6, InnermostType DEF HandlerReturn, queues, history
  <2>7. CASE HandlerThrow
    BY <2>7, InnermostType DEF HandlerThrow, queues, history
  <2>8. CASE UNCHANGED vars
    BY <2>8 DEF vars
  <2> QED
    BY <2>1, <2>2, <2>3, <2>4, <2>5, <2>6, <2>7, <2>8 DEF Next, Post
<1> QED
  BY <1>1, <1>2, PTL DEF Spec
-----------------------------------------------------------------------------
LEMMA RestAppend ==
    ASSUME NEW S, NEW q \in Seq(S), NEW all \in Seq(S), NEW n \in Nat,
           NEW e \in S, Rest(q, all, n)
    PROVE  Rest(Append(q, e), Append(all, e), n)
<1>1. /\ Len(q) \in Nat /\ Len(all) = n + Len(q)
      /\ \A k \in 1..Len(q) : q[k] = all[n + k]
  BY DEF Rest
<1>2. /\ Len(Append(q, e)) = Len(q) + 1
      /\ Len(Append(all, e)) = n + Len(q) + 1
  BY <1>1, AppendProperties
<1>3. ASSUME NEW k \in 1..(Len(q) + 1)
      PROVE  Append(q, e)[k] = Append(all, e)[n + k]
  <2>1. CASE k = Len(q) + 1
    BY <1>1, <2>1, AppendProperties
  <2>2. CASE k \in 1..Len(q)
    BY <1>1, <2>2, AppendProperties
  <2> QED
    BY <1>1, <2>1, <2>2
<1> QED
  BY <1>1, <1>2, <1>3 DEF Rest

LEMMA RestPop ==
    ASSUME NEW S, NEW q \in Seq(S), NEW all \in Seq(S), NEW n \in Nat,
           q # <<>>, Rest(q, all, n)
    PROVE  /\ n + 1 <= Len(all)
           /\ Head(q) = all[n + 1]
           /\ Rest(Tail(q), all, n + 1)
<1>1. /\ Len(q) \in Nat /\ Len(q) >= 1 /\ Len(all) = n + Len(q)
      /\ \A k \in 1..Len(q) : q[k] = all[n + k]
  BY EmptySeq DEF Rest
<1>2. /\ Len(Tail(q)) = Len(q) - 1
      /\ \A k \in 1..(Len(q) - 1) : Tail(q)[k] = q[k + 1]
  BY <1>1, HeadTailProperties
<1>3. \A k \in 1..(Len(q) - 1) : Tail(q)[k] = all[(n + 1) + k]
  BY <1>1, <1>2
<1> QED
  BY <1>1, <1>2, <1>3 DEF Rest

LEMMA FifoStep ==
    ASSUME TypeOK, Indexed, PostInvoke
    PROVE  Paired'
<1> DEFINE n == Len(served)
<1>1. n \in Nat /\ Len(asked) \in Nat /\ Len(offered) \in Nat
  BY DEF TypeOK
<1>2. FrontCall \in Pair /\ served' = Append(served, FrontCall)
  BY DEF PostInvoke, FrontCall, BothWaiting, TypeOK, Pair
<1>3. /\ n + 1 <= Len(asked) /\ n + 1 <= Len(offered)
      /\ FrontCall = <<asked[n + 1], offered[n + 1]>>
  BY <1>1, RestPop DEF TypeOK, Indexed, PostInvoke, BothWaiting, FrontCall
<1>4. /\ Len(served') = n + 1
      /\ served'[n + 1] = FrontCall
      /\ \A k \in 1..n : served'[k] = served[k]
  BY <1>2, AppendProperties DEF TypeOK
<1>5. asked' = asked /\ offered' = offered
  BY DEF PostInvoke
<1>6. ASSUME NEW k \in 1..(n + 1)
      PROVE  /\ k <= Len(asked) /\ k <= Len(offered)
             /\ served'[k] = <<asked[k], offered[k]>>
  <2>1. CASE k = n + 1
    BY <1>3, <1>4, <2>1
  <2>2. CASE k \in 1..n
    BY <1>1, <1>4, <2>2 DEF Indexed, Paired
  <2> QED
    BY <1>1, <2>1, <2>2
<1> QED
  BY <1>4, <1>5, <1>6 DEF Paired

LEMMA IndexedStep ==
    ASSUME TypeOK, Indexed, [Next]_vars
    PROVE  Indexed'
<1>0. Len(served) \in Nat
  BY DEF TypeOK
<1>1. ASSUME NEW h \in Handlers, Consume(h) PROVE Indexed'
  <2>1. Rest(mHandlers, asked, Len(served))'
    BY <1>0, <1>1, RestAppend DEF TypeOK, Indexed, Consume
  <2>2. Rest(mData, offered, Len(served))'
    BY <1>1 DEF Indexed, Consume, Rest
  <2>3. Paired'
    <3>1. /\ Len(asked') = Len(asked) + 1
          /\ \A k \in 1..Len(asked) : asked'[k] = asked[k]
      BY <1>1, AppendProperties DEF TypeOK, Consume
    <3>2. served' = served /\ offered' = offered /\ Len(asked) \in Nat
      BY <1>1 DEF TypeOK, Consume
    <3> QED
      BY <1>0, <3>1, <3>2 DEF Indexed, Paired
  <2> QED
    BY <2>1, <2>2, <2>3 DEF Indexed
<1>2. ASSUME NEW d \in Data, Produce(d) PROVE Indexed'
  <2>1. Rest(mData, offered, Len(served))'
    BY <1>0, <1>2, RestAppend DEF TypeOK, Indexed, Produce
  <2>2. Rest(mHandlers, asked, Len(served))'
    BY <1>2 DEF Indexed, Produce, Rest
  <2>3. Paired'
    <3>1. /\ Len(offered') = Len(offered) + 1
          /\ \A k \in 1..Len(offered) : offered'[k] = offered[k]
      BY <1>2, AppendProperties DEF TypeOK, Produce
    <3>2. served' = served /\ asked' = asked /\ Len(offered) \in Nat
      BY <1>2 DEF TypeOK, Produce
    <3> QED
      BY <1>0, <3>1, <3>2 DEF Indexed, Paired
  <2> QED
    BY <2>1, <2>2, <2>3 DEF Indexed
<1>3. CASE PostInvoke
  <2>1. Len(served') = Len(served) + 1
    <3>1. FrontCall \in Pair
      BY <1>3 DEF PostInvoke, FrontCall, BothWaiting, TypeOK, Pair
    <3> QED
      BY <1>3, <3>1, AppendProperties DEF PostInvoke, TypeOK
  <2>2. Rest(mHandlers, asked, Len(served))'
    BY <1>0, <1>3, <2>1, RestPop
    DEF TypeOK, Indexed, PostInvoke, DataAfterPop, BothWaiting
  <2>3. Rest(mData, offered, Len(served))'
    BY <1>0, <1>3, <2>1, RestPop
    DEF TypeOK, Indexed, PostInvoke, DataAfterPop, BothWaiting
  <2> QED
    BY <1>3, <2>2, <2>3, FifoStep DEF Indexed
<1>4. CASE UNCHANGED <<queues, history>>
  BY <1>4 DEF queues, history, Indexed, Rest, Paired
<1> QED
  BY <1>1, <1>2, <1>3, <1>4
  DEF Next, Post, PostCopyThrow, PostReturn, HandlerReturn, HandlerThrow,
      vars, queues, history

LEMMA IndexedAlways == Spec => []Indexed
<1>1. Init => Indexed
  BY DEF Init, Indexed, Rest, Paired
<1> QED
  BY <1>1, TypeCorrect, IndexedStep, PTL DEF Spec

LEMMA RestIsSubSeq ==
    ASSUME NEW S, NEW q \in Seq(S), NEW all \in Seq(S), NEW n \in Nat,
           Rest(q, all, n)
    PROVE  q = SubSeq(all, n + 1, Len(all))
<1> DEFINE tail == SubSeq(all, n + 1, Len(all))
<1>1. /\ Len(q) \in Nat /\ Len(all) = n + Len(q)
      /\ \A k \in 1..Len(q) : q[k] = all[n + k]
  BY DEF Rest
<1>2. \A i \in (n + 1)..Len(all) : all[i] \in S
  BY <1>1, ElementOfSeq
<1>3. /\ tail \in Seq(S)
      /\ Len(tail) = IF n + 1 <= Len(all) THEN Len(all) - (n + 1) + 1 ELSE 0
      /\ \A i \in 1..(Len(all) - (n + 1) + 1) : tail[i] = all[(n + 1) + i - 1]
  BY <1>1, <1>2, SubSeqProperties
<1>4. Len(tail) = Len(q)
  BY <1>1, <1>3
<1>5. \A i \in 1..Len(q) : tail[i] = q[i]
  BY <1>1, <1>3
<1> HIDE DEF tail
<1>6. q = tail
  BY <1>3, <1>4, <1>5, SeqEqual
<1> QED
  BY <1>6 DEF tail

(* The k-th handler is invoked with the k-th datum, in order, whatever the   *)
(* handlers do: call back into the queue, throw, or fail to be copied; and   *)
(* none is lost or served twice: the queues are the tails of what came in,   *)
(* after the last pair served.                                               *)
THEOREM Fifo == Spec => []FifoPairing
<1>1. TypeOK /\ Indexed => FifoPairing
  BY RestIsSubSeq DEF TypeOK, Indexed, NoneLost, FifoPairing
<1> QED
  BY <1>1, TypeCorrect, IndexedAlways, PTL
-----------------------------------------------------------------------------
LEMMA TailOfOne ==
    ASSUME NEW S, NEW q \in Seq(S), Len(q) = 1
    PROVE  Tail(q) = <<>>
<1>1. q # <<>>
  BY EmptySeq
<1>2. Tail(q) \in Seq(S) /\ Len(Tail(q)) = 0
  BY <1>1, HeadTailProperties
<1> QED
  BY <1>2, EmptySeq

LEMMA BalancedStep ==
    ASSUME TypeOK, Balanced, [Next]_vars
    PROVE  Balanced'
<1> USE DEF Balanced, OneSided, BothWaiting
<1>1. ASSUME NEW h \in Handlers, Consume(h) PROVE Balanced'
  <2>1. mHandlers = <<>> => Len(mHandlers') = 1
    BY <1>1 DEF Consume, TypeOK
  <2> QED
    BY <1>1, <2>1 DEF Consume
<1>2. ASSUME NEW d \in Data, Produce(d) PROVE Balanced'
  <2>1. mData = <<>> => Len(mData') = 1
    BY <1>2 DEF Produce, TypeOK
  <2> QED
    BY <1>2, <2>1 DEF Produce
<1>3. CASE PostInvoke
  <2>1. /\ Len(mHandlers) = 1 => Tail(mHandlers) = <<>>
        /\ Len(mData) = 1 => Tail(mData) = <<>>
    BY TailOfOne DEF TypeOK
  <2> QED
    BY <1>3, <2>1 DEF PostInvoke, DataAfterPop
<1>4. CASE PostCopyThrow
  BY <1>4 DEF PostCopyThrow
<1>5. CASE PostReturn
  BY <1>5 DEF PostReturn, queues
<1>6. CASE HandlerReturn
  BY <1>6 DEF HandlerReturn, queues
<1>7. CASE HandlerThrow
  BY <1>7 DEF HandlerThrow, queues
<1>8. CASE UNCHANGED vars
  BY <1>8 DEF vars
<1> QED
  BY <1>1, <1>2, <1>3, <1>4, <1>5, <1>6, <1>7, <1>8 DEF Next, Post

LEMMA BalancedAlways == Spec => []Balanced
<1>1. Init => Balanced
  BY DEF Init, Balanced, OneSided, BothWaiting
<1>2. TypeOK /\ Balanced /\ [Next]_vars => Balanced'
  BY BalancedStep
<1> QED
  BY <1>1, <1>2, TypeCorrect, PTL DEF Spec

(* Until a copy fails, user code never has control, in a handler or          *)
(* outside, while a consumer and a datum both wait.                          *)
THEOREM ServedAtOnce == Spec => []OneSided
<1>1. Balanced => OneSided
  BY DEF Balanced
<1> QED
  BY <1>1, BalancedAlways, PTL

(* A post() whose handler has returned finds nothing more to do until a copy *)
(* fails: each call of consume or produce invokes at most one handler.       *)
THEOREM OneInvocationPerCall == Spec => AtMostOnePerPost
<1>1. OneSided => [HandlerReturn => failed \/ ~BothWaiting']_vars
  BY DEF OneSided, HandlerReturn, BothWaiting, queues
<1> QED
  BY <1>1, ServedAtOnce, PTL DEF AtMostOnePerPost
-----------------------------------------------------------------------------
LEMMA WaitingIsBothWaiting ==
    ASSUME TypeOK, Indexed
    PROVE  Abstract!Waiting <=> BothWaiting
<1>1. /\ Len(served) \in Nat /\ Len(mHandlers) \in Nat /\ Len(mData) \in Nat
      /\ mHandlers # <<>> <=> Len(mHandlers) # 0
      /\ mData # <<>> <=> Len(mData) # 0
  BY EmptySeq DEF TypeOK
<1> QED
  BY <1>1 DEF Abstract!Waiting, BothWaiting, Indexed, Rest

LEMMA StepImplements ==
    ASSUME TypeOK, Indexed, Balanced, [Next]_vars
    PROVE  [Abstract!Next]_(Abstract!vars)
<1> USE DEF Abstract!vars, history
<1>1. ASSUME NEW h \in Handlers, Consume(h) PROVE Abstract!Ask(h)
  BY <1>1, WaitingIsBothWaiting
  DEF Consume, Abstract!Ask, Balanced, OneSided, BothWaiting
<1>2. ASSUME NEW d \in Data, Produce(d) PROVE Abstract!Offer(d)
  BY <1>2, WaitingIsBothWaiting
  DEF Produce, Abstract!Offer, Balanced, OneSided, BothWaiting
<1>3. CASE PostInvoke
  <2>1. /\ Head(mHandlers) = asked[Len(served) + 1]
        /\ Head(mData) = offered[Len(served) + 1]
    BY <1>3, RestPop DEF TypeOK, Indexed, PostInvoke, BothWaiting
  <2>2. Abstract!Serve
    BY <1>3, <2>1, WaitingIsBothWaiting
    DEF PostInvoke, FrontCall, Abstract!Serve
  <2> QED
    BY <2>2 DEF Abstract!Next
<1>4. CASE PostCopyThrow
  <2>1. Abstract!Fail
    BY <1>4, WaitingIsBothWaiting DEF PostCopyThrow, Abstract!Fail
  <2> QED
    BY <2>1 DEF Abstract!Next
<1>5. CASE UNCHANGED <<history, failed>>
  BY <1>5
<1> QED
  BY <1>1, <1>2, <1>3, <1>4, <1>5
  DEF Next, Post, PostReturn, HandlerReturn, HandlerThrow,
      vars, Abstract!Next

(* Every behaviour of the queue is one of Rendezvous (its safety part): the  *)
(* calls, invocations and failed copies map to Ask, Offer, Serve and Fail,   *)
(* everything else to a stutter.                                             *)
THEOREM Implementation == Spec => Abstract!Safety
<1>1. Init => Abstract!Init
  BY DEF Init, Abstract!Init
<1>2. TypeOK /\ Indexed /\ Balanced /\ [Next]_vars
      => [Abstract!Next]_(Abstract!vars)
  BY StepImplements
<1> QED
  BY <1>1, <1>2, TypeCorrect, IndexedAlways, BalancedAlways, PTL
  DEF Spec, Abstract!Safety
=============================================================================
