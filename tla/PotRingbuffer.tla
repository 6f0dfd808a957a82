--------------------------- MODULE PotRingbuffer ----------------------------
(* util::PotRingbuffer (include/util/potringbuffer.hpp), a ring of N slots   *)
(* addressed by two indices that run over twice its size, so that a full ring*)
(* and an empty one differ, and PotQueue, which forwards to it.              *)
(*                                                                           *)
(* The machine's & and ^ are parameters: the source takes & (N-1) to be the  *)
(* remainder by N, which depends on N.                                       *)
EXTENDS Naturals, Sequences

CONSTANTS N,              \* capacity
          SizeLimit,      \* 2^w for the w bits of size_t
          BitAnd(_, _),   \* operator &
          BitXor(_, _),   \* operator ^
          Elems

(* What the two static_asserts ask of N, and a size_t that holds an index.   *)
ASSUME CapacityAssumption ==
    /\ N \in Nat /\ SizeLimit \in Nat
    /\ N > 0 /\ N % 2 = 0
    /\ 4 * N <= SizeLimit

VARIABLES mBegin, mEnd, mData,
          deque        \* history: the elements pushed, and neither popped nor
                       \* pushed out by one at the other end

vars == <<mBegin, mEnd, mData, deque>>
indices == <<mBegin, mEnd>>

(* Unsigned arithmetic on size_t. *)
Plus(a, b) == IF a + b < SizeLimit THEN a + b ELSE a + b - SizeLimit
Minus(a, b) == IF b <= a THEN a - b ELSE SizeLimit + a - b
MinusOne == SizeLimit - 1

(* mData is not initialised. *)
Init ==
    /\ mBegin = 0 /\ mEnd = 0
    /\ mData \in [0..(N - 1) -> Elems]
    /\ deque = <<>>

Slot(index) == BitAnd(index, N - 1)          \* wrappedAccess

Unmasked(i, amount) == Plus(i, amount)                 \* mutant of Add
ModuloN(i, amount) == BitAnd(Plus(i, amount), N - 1)   \* mutant of Add
Add(i, amount) == BitAnd(Plus(i, amount), 2 * N - 1)
Incr(i) == Add(i, 1)
Decr(i) == Add(i, MinusOne)

Full == BitXor(mBegin, N) = mEnd
Empty == mBegin = mEnd
Size == IF Full THEN N ELSE BitAnd(Minus(mEnd, mBegin), N - 1)

(* at and reverseAt name a slot, through which the caller reads or writes. *)
At(index) == Slot(Plus(mBegin, index))
(* mutant of ReverseAt *)
ReverseFromEnd(index) == Slot(Minus(Plus(mEnd, 1), index))
ReverseAt(index) == Slot(Minus(mEnd, index))

-----------------------------------------------------------------------------
PushBack(e) ==
    /\ mBegin' = IF Full THEN Incr(mBegin) ELSE mBegin
    /\ mEnd' = Incr(mEnd)
    /\ mData' = [mData EXCEPT ![ReverseAt(1)'] = e]
    /\ deque' = Append(IF Full THEN Tail(deque) ELSE deque, e)

Front(s) == SubSeq(s, 1, Len(s) - 1)

PushFront(e) ==
    /\ mEnd' = IF Full THEN Decr(mEnd) ELSE mEnd
    /\ mBegin' = Decr(mBegin)
    /\ mData' = [mData EXCEPT ![At(0)'] = e]
    /\ deque' = <<e>> \o (IF Full THEN Front(deque) ELSE deque)

(* assert(!empty()) guards both. *)
PopFront ==
    /\ ~Empty
    /\ mBegin' = Incr(mBegin)
    /\ deque' = Tail(deque)
    /\ UNCHANGED <<mEnd, mData>>

PopBack ==
    /\ ~Empty
    /\ mEnd' = Decr(mEnd)
    /\ deque' = Front(deque)
    /\ UNCHANGED <<mBegin, mData>>

(* at(i) = e *)
Assign(i, e) ==
    /\ i < Size
    /\ mData' = [mData EXCEPT ![At(i)] = e]
    /\ deque' = [deque EXCEPT ![i + 1] = e]
    /\ UNCHANGED indices

Next ==
    \/ PopFront \/ PopBack
    \/ \E e \in Elems :
           \/ PushBack(e) \/ PushFront(e)
           \/ \E i \in 0..(N - 1) : Assign(i, e)

Spec == Init /\ [][Next]_vars
-----------------------------------------------------------------------------
(* Type invariant. *)
TypeOK ==
    /\ mBegin \in 0..(2 * N - 1) /\ mEnd \in 0..(2 * N - 1)
    /\ mData \in [0..(N - 1) -> Elems]
    /\ deque \in Seq(Elems)

(* potringbuffer.hpp:26: "Number of elements in ringbuffer", and with it     *)
(* empty() and full(), after any sequence of pushes and pops at either end,  *)
(* past the wrap of each index.                                              *)
SizeCounts ==
    /\ Size = Len(deque)
    /\ Empty <=> Len(deque) = 0
    /\ Full <=> Len(deque) = N

(* at() counts from the front, reverseAt() from the back, and both find each *)
(* element where the pushes and pops have left it.                           *)
Positions ==
    \A i \in 1..Len(deque) :
        /\ mData[At(i - 1)] = deque[i]
        /\ mData[ReverseAt(Len(deque) - i + 1)] = deque[i]
=============================================================================
