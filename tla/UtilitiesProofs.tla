-------------------------- MODULE UtilitiesProofs ---------------------------
(* Theorems about the small classes of util.                                 *)
EXTENDS Utilities, IoThread, FiniteSetTheorems, SequenceTheorems,
        WellFoundedInduction, TLAPS

(* An IoThread is proved about with what its run() works for, I/O objects of *)
(* a TransparentService.                                                     *)
CONSTANTS IoObjects, First, NoObject, Ops
VARIABLES existing, holder, moved, op, working
T == INSTANCE TransparentService WITH Objects <- IoObjects

(* The index k steps ahead of i, and the slot of an index that has not been  *)
(* reduced.                                                                  *)
Ahead(i, k) == IF i + k < 2 * N THEN i + k ELSE i + k - 2 * N
Cell(x) == IF x < N THEN x ELSE IF x < 2 * N THEN x - N ELSE x - 2 * N

(* The indices are as far apart as the deque is long, and the slots from     *)
(* mBegin on hold it.                                                        *)
Apart == Len(deque) <= N /\ mEnd = Ahead(mBegin, Len(deque))
Holds(data, begin, elems) ==
    \A k \in 1..Len(elems) : data[Cell(begin + k - 1)] = elems[k]

RingInv == TypeOK /\ Apart /\ Holds(mData, mBegin, deque)

Index == 0..(2 * N - 1)
-----------------------------------------------------------------------------
LEMMA Capacity == N \in Nat /\ N >= 2 /\ SizeLimit \in Nat /\ 4 * N <= SizeLimit
BY CapacityAssumption

(* The bitwise operators do the arithmetic they are meant to. *)
LEMMA SlotIsCell == \A x \in 0..(3 * N - 1) : Slot(x) = Cell(x)
<1> TAKE x \in 0..(3 * N - 1)
<1>1. CASE x < N
  BY <1>1, Capacity, PowerOfTwoAssumption DEF Slot, Cell
<1>2. CASE N <= x /\ x < 2 * N
  <2>1. x - N \in 0..(N - 1) /\ x - N \in 0..(SizeLimit - N - 1) /\ (x - N) + N = x
    BY <1>2, Capacity
  <2>2. BitAnd(x, N - 1) = BitAnd(x - N, N - 1) /\ BitAnd(x - N, N - 1) = x - N
    BY <2>1, PowerOfTwoAssumption
  <2> QED
    BY <1>2, <2>2, Capacity DEF Slot, Cell
<1>3. CASE 2 * N <= x
  <2>1. /\ x - N \in 0..(SizeLimit - N - 1) /\ (x - N) + N = x
        /\ x - 2 * N \in 0..(SizeLimit - N - 1) /\ (x - 2 * N) + N = x - N
        /\ x - 2 * N \in 0..(N - 1)
    BY <1>3, Capacity
  <2>2. /\ BitAnd(x, N - 1) = BitAnd(x - N, N - 1)
        /\ BitAnd(x - N, N - 1) = BitAnd(x - 2 * N, N - 1)
        /\ BitAnd(x - 2 * N, N - 1) = x - 2 * N
    BY <2>1, PowerOfTwoAssumption
  <2> QED
    BY <1>3, <2>2, Capacity DEF Slot, Cell
<1> QED
  BY <1>1, <1>2, <1>3, Capacity

LEMMA IncrSteps ==
    ASSUME NEW i \in Index
    PROVE  Incr(i) = IF i = 2 * N - 1 THEN 0 ELSE i + 1
<1>1. Plus(i, 1) = i + 1
  BY Capacity DEF Plus, Index
<1>2. CASE i = 2 * N - 1
  BY <1>1, <1>2, Capacity, PowerOfTwoAssumption DEF Incr, Add
<1>3. CASE i # 2 * N - 1
  <2>1. i + 1 \in 0..(2 * N - 1)
    BY <1>3, Capacity DEF Index
  <2> QED
    BY <1>1, <1>3, <2>1, PowerOfTwoAssumption DEF Incr, Add
<1> QED
  BY <1>2, <1>3

LEMMA DecrSteps ==
    ASSUME NEW i \in Index
    PROVE  Decr(i) = IF i = 0 THEN 2 * N - 1 ELSE i - 1
<1>1. CASE i = 0
  <2>1. Plus(i, MinusOne) = SizeLimit - 1
    BY <1>1, Capacity DEF Plus, MinusOne
  <2> QED
    BY <1>1, <2>1, PowerOfTwoAssumption DEF Decr, Add
<1>2. CASE i # 0
  <2>1. Plus(i, MinusOne) = i - 1 /\ i - 1 \in 0..(2 * N - 1)
    BY <1>2, Capacity DEF Plus, MinusOne, Index
  <2> QED
    BY <1>2, <2>1, PowerOfTwoAssumption DEF Decr, Add
<1> QED
  BY <1>1, <1>2

(* Steps on the circle of 2N indices. *)
LEMMA AheadSteps ==
    ASSUME NEW b \in Index, NEW k \in 0..(N - 1)
    PROVE  /\ Ahead(b, k) \in Index /\ Ahead(b, k + 1) \in Index
           /\ Ahead(Ahead(b, k), 1) = Ahead(b, k + 1)
           /\ Ahead(Ahead(b, 1), k) = Ahead(b, k + 1)
BY Capacity DEF Index, Ahead

LEMMA AheadInjective ==
    ASSUME NEW i \in Index, NEW j \in Index, Ahead(i, 1) = Ahead(j, 1)
    PROVE  i = j
BY Capacity DEF Index, Ahead

LEMMA IncrAhead ==
    ASSUME NEW i \in Index
    PROVE  Incr(i) = Ahead(i, 1) /\ Incr(i) \in Index
<1>1. Incr(i) = IF i = 2 * N - 1 THEN 0 ELSE i + 1
  BY IncrSteps
<1> QED
  BY <1>1, Capacity DEF Index, Ahead

LEMMA DecrAhead ==
    ASSUME NEW i \in Index
    PROVE  i = Ahead(Decr(i), 1) /\ Decr(i) \in Index
<1>1. Decr(i) = IF i = 0 THEN 2 * N - 1 ELSE i - 1
  BY DecrSteps
<1> QED
  BY <1>1, Capacity DEF Index, Ahead

(* Up to N slots in a row are different slots, and moving mBegin on by one   *)
(* moves them on by one.                                                     *)
LEMMA CellsDiffer ==
    ASSUME NEW b \in Index, NEW i \in 0..(N - 1), NEW j \in 0..(N - 1), i # j
    PROVE  Cell(b + i) # Cell(b + j)
BY Capacity DEF Cell, Index

LEMMA CellInRange ==
    ASSUME NEW b \in Index, NEW i \in 0..(N - 1)
    PROVE  Cell(b + i) \in 0..(N - 1)
BY Capacity DEF Cell, Index

LEMMA CellShift ==
    ASSUME NEW b \in Index, NEW i \in 0..(N - 1)
    PROVE  Cell(Ahead(b, 1) + i) = Cell(b + i + 1)
BY Capacity DEF Cell, Index, Ahead
-----------------------------------------------------------------------------
LEMMA FullAndEmpty ==
    ASSUME TypeOK, Apart
    PROVE  /\ Full <=> Len(deque) = N
           /\ Empty <=> Len(deque) = 0
<1>1. /\ Len(deque) \in 0..N /\ mBegin \in 0..(2 * N - 1)
      /\ mEnd = IF mBegin + Len(deque) < 2 * N THEN mBegin + Len(deque)
                                               ELSE mBegin + Len(deque) - 2 * N
  BY Capacity DEF TypeOK, Apart, Ahead
<1>2. BitXor(mBegin, N) = IF mBegin < N THEN mBegin + N ELSE mBegin - N
  BY <1>1, PowerOfTwoAssumption
<1> QED
  BY <1>1, <1>2, Capacity DEF Full, Empty

LEMMA SizeIsLength ==
    ASSUME TypeOK, Apart
    PROVE  Size = Len(deque)
<1> DEFINE n == Len(deque)
<1>1. n \in 0..N /\ mBegin \in Index /\ mEnd = Ahead(mBegin, n)
  BY Capacity DEF TypeOK, Apart, Index
<1>2. Full <=> n = N
  BY FullAndEmpty
<1> HIDE DEF n
<1>3. CASE n = N
  BY <1>2, <1>3 DEF Size, n
<1>4. CASE n < N /\ mBegin + n < 2 * N
  <2>1. Minus(mEnd, mBegin) = n /\ n \in 0..(N - 1)
    BY <1>1, <1>4, Capacity DEF Ahead, Minus, Index
  <2> QED
    BY <1>2, <1>4, <2>1, Capacity, PowerOfTwoAssumption DEF Size, n
<1>5. CASE n < N /\ mBegin + n >= 2 * N
  <2> DEFINE x == SizeLimit - 2 * N + n
  <2>1. Minus(mEnd, mBegin) = x
    BY <1>1, <1>5, Capacity DEF Ahead, Minus, Index
  <2>2. /\ x \in 0..(SizeLimit - N - 1)
        /\ x + N = SizeLimit - (N - n) /\ N - n \in 1..N
    BY <1>1, <1>5, Capacity
  <2>3. BitAnd(x + N, N - 1) = BitAnd(x, N - 1)
    BY <2>2, PowerOfTwoAssumption
  <2>4. BitAnd(SizeLimit - (N - n), N - 1) = N - (N - n)
    BY <2>2, PowerOfTwoAssumption
  <2>5. N - (N - n) = n
    BY <1>1, Capacity
  <2> QED
    BY <1>2, <1>5, <2>1, <2>2, <2>3, <2>4, <2>5, Capacity DEF Size, n
<1> QED
  BY <1>1, <1>3, <1>4, <1>5, Capacity DEF Index

(* The slots at() and reverseAt() name: counting i back from the end of n    *)
(* elements is counting n - i on from the begin.                             *)
LEMMA CellFromBegin ==
    ASSUME NEW b \in Index, NEW i \in 0..(N - 1)
    PROVE  Slot(Plus(b, i)) = Cell(b + i)
<1>1. Plus(b, i) = b + i /\ b + i \in 0..(3 * N - 1)
  BY Capacity DEF Index, Plus
<1> QED
  BY <1>1, SlotIsCell

LEMMA FirstCell ==
    ASSUME NEW b \in Index
    PROVE  Slot(Plus(b, 0)) = Cell(b)
<1>1. 0 \in 0..(N - 1) /\ b + 0 = b
  BY Capacity DEF Index
<1> QED
  BY <1>1, CellFromBegin

LEMMA CellFromEnd ==
    ASSUME NEW b \in Index, NEW n \in 0..N, NEW i \in 1..n
    PROVE  Slot(Minus(Ahead(b, n), i)) = Cell(b + (n - i))
<1> DEFINE end == Ahead(b, n)
<1>1. end \in Index /\ n - i \in 0..(N - 1)
  BY Capacity DEF Index, Ahead
<1>2. CASE i <= end
  <2>1. Minus(end, i) = end - i /\ end - i \in 0..(3 * N - 1)
    BY <1>1, <1>2, Capacity DEF Minus, Index
  <2>2. Cell(end - i) = Cell(b + (n - i))
    BY <1>1, <1>2, Capacity DEF Cell, Ahead, Index
  <2> QED
    BY <2>1, <2>2, SlotIsCell
<1>3. CASE i > end
  <2>1. Minus(end, i) = SizeLimit - (i - end) /\ i - end \in 1..N
    BY <1>1, <1>3, Capacity DEF Minus, Index
  <2>2. Slot(SizeLimit - (i - end)) = N - (i - end)
    BY <2>1, PowerOfTwoAssumption DEF Slot
  <2>3. N - (i - end) = Cell(b + (n - i))
    BY <1>1, <1>3, Capacity DEF Cell, Ahead, Index
  <2> QED
    BY <2>1, <2>2, <2>3
<1> QED
  BY <1>1, <1>2, <1>3, Capacity DEF Index
-----------------------------------------------------------------------------
LEMMA RingInitial == Init => RingInv
<1> SUFFICES ASSUME Init PROVE RingInv
  OBVIOUS
<1>1. TypeOK
  BY Capacity DEF Init, TypeOK
<1>2. Apart /\ Holds(mData, mBegin, deque)
  BY Capacity DEF Init, Apart, Ahead, Holds
<1> QED
  BY <1>1, <1>2 DEF RingInv

(* Dropping the first or the last element of what a ring holds. *)
LEMMA HoldsTail ==
    ASSUME NEW data, NEW b \in Index, NEW s \in Seq(Elems), s # <<>>,
           Len(s) <= N, Holds(data, b, s)
    PROVE  Holds(data, Ahead(b, 1), Tail(s)) /\ Len(Tail(s)) = Len(s) - 1
<1>1. /\ Len(s) \in Nat /\ Len(s) >= 1 /\ Len(Tail(s)) = Len(s) - 1
      /\ \A k \in 1..(Len(s) - 1) : Tail(s)[k] = s[k + 1]
  BY HeadTailProperties, EmptySeq
<1>2. ASSUME NEW k \in 1..(Len(s) - 1)
      PROVE  data[Cell(Ahead(b, 1) + k - 1)] = Tail(s)[k]
  <2>1. k - 1 \in 0..(N - 1) /\ k + 1 \in 1..Len(s)
    BY <1>1, Capacity
  <2>2. Cell(Ahead(b, 1) + (k - 1)) = Cell(b + (k - 1) + 1)
    BY <2>1, CellShift
  <2>3. /\ Ahead(b, 1) + (k - 1) = Ahead(b, 1) + k - 1
        /\ b + (k - 1) + 1 = b + (k + 1) - 1
    BY <2>1, Capacity DEF Ahead, Index
  <2>4. data[Cell(b + (k + 1) - 1)] = s[k + 1]
    BY <2>1 DEF Holds
  <2> QED
    BY <1>1, <2>2, <2>3, <2>4
<1> QED
  BY <1>1, <1>2 DEF Holds

LEMMA FrontProperties ==
    ASSUME NEW s \in Seq(Elems), s # <<>>
    PROVE  /\ Front(s) \in Seq(Elems) /\ Len(Front(s)) = Len(s) - 1
           /\ \A k \in 1..(Len(s) - 1) : Front(s)[k] = s[k]
<1> DEFINE n == Len(s)
<1>1. n \in Nat /\ n > 0 /\ \A i \in 1..(n - 1) : s[i] \in Elems
  BY EmptySeq
<1> HIDE DEF n
<1>2. /\ SubSeq(s, 1, n - 1) \in Seq(Elems)
      /\ Len(SubSeq(s, 1, n - 1)) = IF 1 <= n - 1 THEN n - 1 - 1 + 1 ELSE 0
      /\ \A i \in 1..(n - 1 - 1 + 1) : SubSeq(s, 1, n - 1)[i] = s[1 + i - 1]
  BY <1>1, SubSeqProperties
<1>3. /\ n - 1 - 1 + 1 = n - 1
      /\ (IF 1 <= n - 1 THEN n - 1 - 1 + 1 ELSE 0) = n - 1
      /\ \A i \in 1..(n - 1) : 1 + i - 1 = i
  BY <1>1
<1> QED
  BY <1>2, <1>3 DEF Front, n

LEMMA HoldsFront ==
    ASSUME NEW data, NEW b \in Index, NEW s \in Seq(Elems), s # <<>>,
           Holds(data, b, s)
    PROVE  Holds(data, b, Front(s))
<1>1. Len(s) \in Nat /\ Len(s) > 0
  BY EmptySeq
<1> QED
  BY <1>1, FrontProperties DEF Holds
(* Writing one more element into the slot behind the last or before the      *)
(* first.                                                                    *)
LEMMA HoldsAppend ==
    ASSUME NEW data \in [0..(N - 1) -> Elems], NEW b \in Index,
           NEW s \in Seq(Elems), Len(s) < N, NEW e \in Elems, Holds(data, b, s)
    PROVE  Holds([data EXCEPT ![Cell(b + Len(s))] = e], b, Append(s, e))
<1> DEFINE n == Len(s)
           new == [data EXCEPT ![Cell(b + n)] = e]
           t == Append(s, e)
<1>0. n \in 0..(N - 1)
  BY Capacity
<1>1. n \in 0..(N - 1) /\ Cell(b + n) \in 0..(N - 1)
  <2> HIDE DEF n
  <2> QED
    BY <1>0, CellInRange
<1>2. Len(t) = n + 1 /\ t[n + 1] = e /\ \A k \in 1..n : t[k] = s[k]
  BY AppendProperties
<1> HIDE DEF t
<1>3. ASSUME NEW k \in 1..(n + 1) PROVE new[Cell(b + k - 1)] = t[k]
  <2>1. CASE k = n + 1
    <3>1. b + k - 1 = b + n
      BY <1>1, <2>1 DEF Index
    <3> QED
      BY <1>1, <1>2, <2>1, <3>1
  <2>2. CASE k \in 1..n
    <3>1. k - 1 \in 0..(N - 1) /\ k - 1 # n /\ b + (k - 1) = b + k - 1
      <4> HIDE DEF n
      <4> QED
        BY <1>1, <2>2, Capacity DEF Index
    <3>2. Cell(b + k - 1) # Cell(b + n) /\ Cell(b + k - 1) \in 0..(N - 1)
      BY <1>1, <3>1, CellsDiffer, CellInRange
    <3> QED
      BY <1>1, <1>2, <2>2, <3>2 DEF Holds
  <2> QED
    BY <1>1, <2>1, <2>2
<1> QED
  BY <1>2, <1>3 DEF Holds, t

LEMMA HoldsPrepend ==
    ASSUME NEW data \in [0..(N - 1) -> Elems], NEW b \in Index,
           NEW s \in Seq(Elems), Len(s) < N, NEW e \in Elems,
           Holds(data, Ahead(b, 1), s)
    PROVE  Holds([data EXCEPT ![Cell(b)] = e], b, <<e>> \o s)
<1> DEFINE n == Len(s)
           new == [data EXCEPT ![Cell(b)] = e]
           t == <<e>> \o s
<1>1. n \in 0..(N - 1) /\ b + 0 = b /\ Cell(b + 0) \in 0..(N - 1)
  <2>1. n \in 0..(N - 1)
    BY Capacity
  <2>2. b + 0 = b /\ 0 \in 0..(N - 1)
    BY Capacity DEF Index
  <2>3. Cell(b + 0) \in 0..(N - 1)
    BY <2>2, CellInRange
  <2> QED
    BY <2>1, <2>2, <2>3
<1>2. Len(t) = n + 1 /\ t[1] = e /\ \A k \in 2..(n + 1) : t[k] = s[k - 1]
  BY ConcatProperties
<1> HIDE DEF t
<1>3. ASSUME NEW k \in 1..(n + 1) PROVE new[Cell(b + k - 1)] = t[k]
  <2>1. CASE k = 1
    <3>1. b + k - 1 = b
      BY <2>1 DEF Index
    <3> QED
      BY <1>1, <1>2, <2>1, <3>1
  <2>2. CASE k \in 2..(n + 1)
    <3>1. /\ k - 1 \in 0..(N - 1) /\ k - 1 # 0 /\ b + (k - 1) = b + k - 1
          /\ k - 2 \in 0..(N - 1) /\ k - 1 \in 1..n
      BY <1>1, <2>2, Capacity DEF Index
    <3>2. Cell(b + k - 1) # Cell(b) /\ Cell(b + k - 1) \in 0..(N - 1)
      <4>1. 0 \in 0..(N - 1)
        BY Capacity
      <4>2. Cell(b + (k - 1)) # Cell(b + 0) /\ Cell(b + (k - 1)) \in 0..(N - 1)
        BY <3>1, <4>1, CellsDiffer, CellInRange
      <4> QED
        BY <1>1, <3>1, <4>2
    <3>3. Cell(Ahead(b, 1) + (k - 2)) = Cell(b + (k - 2) + 1)
      BY <3>1, CellShift
    <3>4. /\ Ahead(b, 1) + (k - 2) = Ahead(b, 1) + (k - 1) - 1
          /\ b + (k - 2) + 1 = b + k - 1
      BY <3>1, Capacity DEF Ahead, Index
    <3>5. data[Cell(Ahead(b, 1) + (k - 1) - 1)] = s[k - 1]
      BY <3>1 DEF Holds
    <3> QED
      BY <1>1, <1>2, <2>2, <3>2, <3>3, <3>4, <3>5
  <2> QED
    BY <1>1, <2>1, <2>2
<1> QED
  BY <1>2, <1>3 DEF Holds, t
-----------------------------------------------------------------------------
LEMMA RingFacts ==
    ASSUME RingInv
    PROVE  /\ TypeOK /\ Apart /\ Holds(mData, mBegin, deque)
           /\ mBegin \in Index /\ mEnd \in Index
           /\ deque \in Seq(Elems) /\ Len(deque) \in 0..N
           /\ mData \in [0..(N - 1) -> Elems]
BY Capacity DEF RingInv, TypeOK, Apart, Index

LEMMA PushBackStep ==
    ASSUME RingInv, NEW e \in Elems, PushBack(e)
    PROVE  RingInv'
<1> DEFINE rest == IF Full THEN Tail(deque) ELSE deque
           n == Len(rest)
<1>1. /\ rest \in Seq(Elems) /\ n \in 0..(N - 1)
      /\ mBegin' \in Index /\ mEnd = Ahead(mBegin', n)
      /\ Holds(mData, mBegin', rest)
  <2>1. CASE Full
    <3>1. Len(deque) = N /\ deque # <<>>
      BY <2>1, RingFacts, FullAndEmpty, Capacity
    <3>2. Tail(deque) \in Seq(Elems) /\ Len(Tail(deque)) = N - 1
      BY <3>1, RingFacts, HeadTailProperties
    <3>3. mBegin' = Ahead(mBegin, 1)
      BY <2>1, RingFacts, IncrAhead DEF PushBack
    <3>4. Holds(mData, mBegin', Tail(deque))
      BY <3>1, <3>3, RingFacts, HoldsTail
    <3>5. mBegin' \in Index /\ mEnd = Ahead(mBegin', N - 1)
      <4>1. N - 1 \in 0..(N - 1) /\ 0 \in 0..(N - 1) /\ (N - 1) + 1 = N /\ 0 + 1 = 1
        BY Capacity
      <4>2. Ahead(Ahead(mBegin, 1), N - 1) = Ahead(mBegin, N)
        BY <4>1, RingFacts, AheadSteps
      <4>3. Ahead(mBegin, 1) \in Index
        BY RingFacts, IncrAhead
      <4> QED
        BY <3>1, <3>3, <4>2, <4>3, RingFacts DEF Apart
    <3> QED
      BY <2>1, <3>2, <3>4, <3>5, Capacity
  <2>2. CASE ~Full
    <3>1. Len(deque) \in 0..(N - 1)
      BY <2>2, RingFacts, FullAndEmpty, Capacity
    <3> QED
      BY <2>2, <3>1, RingFacts DEF PushBack, Apart
  <2> QED
    BY <2>1, <2>2
<1> HIDE DEF rest
<1>2. /\ mEnd' = Ahead(mBegin', n + 1) /\ mEnd' \in Index
      /\ n + 1 \in 0..N /\ 1 \in 1..(n + 1)
  <2> HIDE DEF n
  <2>1. mEnd' = Ahead(Ahead(mBegin', n), 1)
    BY <1>1, RingFacts, IncrAhead DEF PushBack
  <2>2. n + 1 \in 0..N /\ 1 \in 1..(n + 1)
    BY <1>1, Capacity
  <2> QED
    BY <1>1, <2>1, <2>2, AheadSteps
<1>3. mData' = [mData EXCEPT ![Cell(mBegin' + n)] = e]
  <2>1. Slot(Minus(mEnd', 1)) = Cell(mBegin' + ((n + 1) - 1)) /\ (n + 1) - 1 = n
    <3> HIDE DEF n
    <3> QED
      BY <1>1, <1>2, CellFromEnd
  <2> QED
    BY <2>1 DEF PushBack, ReverseAt
<1>4. /\ deque' = Append(rest, e) /\ deque' \in Seq(Elems) /\ Len(deque') = n + 1
  BY <1>1 DEF PushBack, rest
<1>5. Holds(mData', mBegin', deque')
  <2>1. Len(rest) < N
    BY <1>1, Capacity
  <2> QED
    BY <1>1, <1>3, <1>4, <2>1, RingFacts, HoldsAppend
<1>6. TypeOK'
  BY <1>1, <1>2, <1>3, <1>4, RingFacts DEF TypeOK, Index
<1>7. Apart'
  BY <1>2, <1>4, Capacity DEF Apart
<1> QED
  BY <1>5, <1>6, <1>7 DEF RingInv

LEMMA PushFrontStep ==
    ASSUME RingInv, NEW e \in Elems, PushFront(e)
    PROVE  RingInv'
<1> DEFINE rest == IF Full THEN Front(deque) ELSE deque
           n == Len(rest)
<1>1. /\ rest \in Seq(Elems) /\ n \in 0..(N - 1)
      /\ mEnd' \in Index /\ mEnd' = Ahead(mBegin, n)
      /\ Holds(mData, mBegin, rest)
  <2>1. CASE Full
    <3>1. Len(deque) = N /\ deque # <<>>
      BY <2>1, RingFacts, FullAndEmpty, Capacity
    <3>2. Front(deque) \in Seq(Elems) /\ Len(Front(deque)) = N - 1
      BY <3>1, RingFacts, FrontProperties
    <3>3. mEnd' \in Index /\ mEnd' = Ahead(mBegin, N - 1)
      <4>1. N - 1 \in 0..(N - 1) /\ (N - 1) + 1 = N
        BY Capacity
      <4>2. mEnd' \in Index /\ Ahead(mEnd', 1) = Ahead(mBegin, N)
        BY <2>1, <3>1, RingFacts, DecrAhead DEF PushFront, Apart
      <4>3. Ahead(mBegin, N - 1) \in Index /\ Ahead(Ahead(mBegin, N - 1), 1) = Ahead(mBegin, N)
        BY <4>1, RingFacts, AheadSteps
      <4> QED
        BY <4>2, <4>3, AheadInjective
    <3>4. Holds(mData, mBegin, Front(deque))
      BY <3>1, RingFacts, HoldsFront
    <3> QED
      BY <2>1, <3>2, <3>3, <3>4, Capacity
  <2>2. CASE ~Full
    <3>1. Len(deque) \in 0..(N - 1)
      BY <2>2, RingFacts, FullAndEmpty, Capacity
    <3> QED
      BY <2>2, <3>1, RingFacts DEF PushFront, Apart
  <2> QED
    BY <2>1, <2>2
<1> HIDE DEF rest
<1>2. mBegin' \in Index /\ mBegin = Ahead(mBegin', 1)
  BY RingFacts, DecrAhead DEF PushFront
<1>3. mEnd' = Ahead(mBegin', n + 1)
  <2> HIDE DEF n
  <2> QED
    BY <1>1, <1>2, AheadSteps
<1>4. mData' = [mData EXCEPT ![Cell(mBegin')] = e]
  <2>1. Slot(Plus(mBegin', 0)) = Cell(mBegin')
    BY <1>2, FirstCell
  <2> QED
    BY <2>1 DEF PushFront, At
<1>5. deque' = <<e>> \o rest /\ deque' \in Seq(Elems) /\ Len(deque') = n + 1
  <2>1. deque' = <<e>> \o rest
    BY DEF PushFront, rest
  <2> QED
    BY <1>1, <2>1, ConcatProperties
<1>6. Holds(mData', mBegin', deque')
  <2>1. Len(rest) < N
    BY <1>1, Capacity
  <2> QED
    BY <1>1, <1>2, <1>4, <1>5, <2>1, RingFacts, HoldsPrepend
<1>7. TypeOK'
  BY <1>1, <1>2, <1>4, <1>5, RingFacts DEF TypeOK, Index
<1>8. Apart'
  BY <1>1, <1>3, <1>5, Capacity DEF Apart
<1> QED
  BY <1>6, <1>7, <1>8 DEF RingInv

(* Dropping the oldest element, as front pops and pushes to a full ring do.  *)
LEMMA DropFirst ==
    ASSUME TypeOK, Apart, deque # <<>>, NEW data, Holds(data, mBegin, deque),
           mBegin' = Incr(mBegin), deque' = Tail(deque),
           UNCHANGED <<mEnd, mData>>
    PROVE  /\ TypeOK' /\ Apart' /\ Holds(data, mBegin', deque')
           /\ Len(deque') = Len(deque) - 1
<1>0. /\ mBegin \in Index /\ mEnd \in Index /\ deque \in Seq(Elems)
      /\ Len(deque) \in 1..N
  <2>1. Len(deque) \in Nat /\ Len(deque) # 0 /\ Len(deque) <= N
    BY EmptySeq DEF TypeOK, Apart
  <2> QED
    BY <2>1, Capacity DEF TypeOK, Index
<1>1. deque' \in Seq(Elems) /\ Len(deque') = Len(deque) - 1
  BY <1>0, HeadTailProperties
<1>2. mBegin' = Ahead(mBegin, 1) /\ mBegin' \in Index
  BY <1>0, IncrAhead
<1>3. Holds(data, mBegin', deque')
  <2>1. Len(deque) <= N
    BY DEF Apart
  <2> QED
    BY <1>0, <1>2, <2>1, HoldsTail
<1>4. TypeOK'
  BY <1>1, <1>2 DEF TypeOK, Index
<1>5. Apart'
  <2> DEFINE n == Len(deque)
  <2>1. n - 1 \in 0..(N - 1) /\ (n - 1) + 1 = n /\ n - 1 <= N
    BY <1>0, Capacity
  <2>2. mEnd' = Ahead(mBegin, n)
    BY DEF Apart
  <2> HIDE DEF n
  <2>3. mEnd' = Ahead(mBegin', n - 1)
    BY <1>0, <1>2, <2>1, <2>2, AheadSteps
  <2> QED
    BY <1>1, <2>1, <2>3 DEF Apart, n
<1> QED
  BY <1>1, <1>3, <1>4, <1>5

LEMMA PopFrontStep ==
    ASSUME RingInv, PopFront
    PROVE  RingInv'
<1>1. deque # <<>>
  BY RingFacts, FullAndEmpty, Capacity DEF PopFront
<1>2. TypeOK' /\ Apart' /\ Holds(mData, mBegin', deque')
  BY <1>1, RingFacts, DropFirst DEF PopFront
<1> QED
  BY <1>2 DEF RingInv, PopFront

LEMMA PopBackStep ==
    ASSUME RingInv, PopBack
    PROVE  RingInv'
<1>1. Len(deque) \in 1..N /\ deque # <<>>
  BY RingFacts, FullAndEmpty, Capacity DEF PopBack
<1>2. deque' \in Seq(Elems) /\ Len(deque') = Len(deque) - 1
  BY <1>1, RingFacts, FrontProperties DEF PopBack
<1>3. mEnd' \in Index /\ mEnd' = Ahead(mBegin, Len(deque) - 1)
  <2> DEFINE n == Len(deque)
  <2>1. n - 1 \in 0..(N - 1) /\ (n - 1) + 1 = n
    BY <1>1, Capacity
  <2>2. mEnd' \in Index /\ Ahead(mEnd', 1) = Ahead(mBegin, n)
    BY RingFacts, DecrAhead DEF PopBack, Apart
  <2> HIDE DEF n
  <2>3. Ahead(mBegin, n - 1) \in Index /\ Ahead(Ahead(mBegin, n - 1), 1) = Ahead(mBegin, n)
    BY <2>1, RingFacts, AheadSteps
  <2>4. mEnd' = Ahead(mBegin, n - 1)
    BY <2>2, <2>3, AheadInjective
  <2> QED
    BY <2>2, <2>4 DEF n
<1>4. Holds(mData', mBegin', deque')
  BY <1>1, RingFacts, HoldsFront DEF PopBack
<1>5. TypeOK'
  BY <1>2, <1>3, RingFacts DEF TypeOK, PopBack, Index
<1>6. Apart'
  BY <1>1, <1>2, <1>3, Capacity DEF Apart, PopBack
<1> QED
  BY <1>4, <1>5, <1>6 DEF RingInv

LEMMA AssignStep ==
    ASSUME RingInv, NEW e \in Elems, NEW i \in 0..(N - 1), Assign(i, e)
    PROVE  RingInv'
<1>1. i < Len(deque) /\ At(i) = Cell(mBegin + i)
  BY RingFacts, SizeIsLength, CellFromBegin DEF Assign, At
<1>2. /\ deque' = [deque EXCEPT ![i + 1] = e] /\ i + 1 \in 1..Len(deque)
      /\ deque' \in Seq(Elems) /\ Len(deque') = Len(deque)
  <2>1. i + 1 \in 1..Len(deque)
    BY <1>1, RingFacts, Capacity
  <2> QED
    BY <2>1, RingFacts, ExceptSeq DEF Assign
<1>3. mData' = [mData EXCEPT ![Cell(mBegin + i)] = e]
  BY <1>1 DEF Assign
<1>4. ASSUME NEW k \in 1..Len(deque) PROVE mData'[Cell(mBegin + k - 1)] = deque'[k]
  <2>1. k - 1 \in 0..(N - 1) /\ mBegin + (k - 1) = mBegin + k - 1
    BY RingFacts, Capacity DEF Index
  <2>2. Cell(mBegin + k - 1) \in 0..(N - 1) /\ mData[Cell(mBegin + k - 1)] = deque[k]
    BY <2>1, RingFacts, CellInRange DEF Holds
  <2>3. CASE k = i + 1
    BY <1>2, <1>3, <2>1, <2>2, <2>3, RingFacts
  <2>4. CASE k # i + 1
    <3>1. k - 1 # i
      BY <2>4, RingFacts, Capacity
    <3>2. Cell(mBegin + k - 1) # Cell(mBegin + i)
      BY <2>1, <3>1, RingFacts, CellsDiffer
    <3> QED
      BY <1>2, <1>3, <2>2, <2>4, <3>2, RingFacts
  <2> QED
    BY <2>3, <2>4
<1>5. Holds(mData', mBegin', deque')
  BY <1>2, <1>4 DEF Holds, Assign, indices
<1>6. TypeOK' /\ Apart'
  BY <1>2, <1>3, RingFacts DEF TypeOK, Apart, Assign, indices
<1> QED
  BY <1>5, <1>6 DEF RingInv

LEMMA RingInductive == RingInv /\ [Next]_vars => RingInv'
<1> SUFFICES ASSUME RingInv, [Next]_vars PROVE RingInv'
  OBVIOUS
<1>1. CASE UNCHANGED vars
  BY <1>1 DEF RingInv, TypeOK, Apart, vars
<1> QED
  BY <1>1, PushBackStep, PushFrontStep, PopFrontStep, PopBackStep, AssignStep
  DEF Next

LEMMA RingInvariant == Spec => []RingInv
BY RingInitial, RingInductive, PTL DEF Spec
-----------------------------------------------------------------------------
(* The variables keep their types: both indices stay below 2N and no write   *)
(* goes outside mData.                                                       *)
THEOREM RingTypes == Spec => []TypeOK
<1>1. RingInv => TypeOK
  BY DEF RingInv
<1> QED
  BY <1>1, RingInvariant, PTL

(* size(), empty() and full() tell how many elements were pushed and are     *)
(* left, for every power of two.                                             *)
THEOREM SizeCorrect == Spec => []SizeCounts
<1>1. RingInv => SizeCounts
  BY FullAndEmpty, SizeIsLength DEF RingInv, SizeCounts
<1> QED
  BY <1>1, RingInvariant, PTL

LEMMA RingPositions ==
    ASSUME RingInv
    PROVE  Positions
<1> SUFFICES ASSUME NEW i \in 1..Len(deque)
             PROVE  /\ mData[At(i - 1)] = deque[i]
                    /\ mData[ReverseAt(Len(deque) - i + 1)] = deque[i]
  BY DEF Positions
<1> DEFINE n == Len(deque)
<1>1. /\ n \in 0..N /\ mBegin \in Index /\ mEnd = Ahead(mBegin, n)
      /\ mData[Cell(mBegin + i - 1)] = deque[i]
  BY RingFacts DEF Apart, Holds
<1>2. i \in 1..n
  OBVIOUS
<1> HIDE DEF n
<1>3. /\ i - 1 \in 0..(N - 1) /\ n - i + 1 \in 1..n /\ n - (n - i + 1) = i - 1
      /\ mBegin + (i - 1) = mBegin + i - 1
  BY <1>1, <1>2, Capacity DEF Index
<1>4. At(i - 1) = Cell(mBegin + i - 1)
  BY <1>1, <1>3, CellFromBegin DEF At
<1>5. ReverseAt(n - i + 1) = Cell(mBegin + i - 1)
  BY <1>1, <1>3, CellFromEnd DEF ReverseAt
<1> QED
  BY <1>1, <1>4, <1>5 DEF n

(* at() and reverseAt() find the elements in the order the pushes put them.  *)
THEOREM PositionsCorrect == Spec => []Positions
BY RingInvariant, RingPositions, PTL
-----------------------------------------------------------------------------
(* The queue shared with an interrupt handler, up to an overrun: the ring    *)
(* holds the deque at every step of the program's calls, but for an element  *)
(* that has been counted and not yet written, after which it would hold it.  *)
(* What the program has loaded is still true when it stores, and what it has *)
(* read at the front is what it pops.                                        *)
Written == [mData EXCEPT ![ReverseAt(1)] = elem]
Content == IF pc = "write" THEN Written ELSE mData

ProgramSteps == {"idle", "store begin", "store end", "write",
                 "load begin", "pop"}
Shared ==
    /\ TypeOK /\ Apart /\ Holds(Content, mBegin, deque)
    /\ elem \in Elems /\ pc \in ProgramSteps
    /\ pc \in {"store begin", "store end", "write"} => producer = "program"
    /\ pc \in {"load begin", "pop"} =>
           producer = "interrupt" /\ deque # <<>> /\ Head(deque) = elem
    /\ pc \in {"store begin", "pop"} => loaded = mBegin
    /\ pc = "store begin" => Len(deque) = N
    /\ pc = "store end" => Len(deque) < N
    /\ wrong => early
    /\ tool = "ring" => pc = "idle"

QueueInv == overran \/ Shared

LEMMA SharedFacts ==
    ASSUME Shared
    PROVE  /\ TypeOK /\ Apart /\ mBegin \in Index /\ mEnd \in Index
           /\ deque \in Seq(Elems) /\ Len(deque) \in 0..N
           /\ mData \in [0..(N - 1) -> Elems]
           /\ (pc # "write" => RingInv)
           /\ (Full <=> Len(deque) = N) /\ (Empty <=> deque = <<>>)
<1>1. TypeOK /\ Apart /\ (pc # "write" => Holds(mData, mBegin, deque))
  BY DEF Shared, Content
<1>2. mBegin \in Index /\ mEnd \in Index /\ deque \in Seq(Elems)
      /\ mData \in [0..(N - 1) -> Elems]
  BY <1>1 DEF TypeOK, Index
<1>3. Len(deque) \in 0..N /\ (Len(deque) = 0 <=> deque = <<>>)
  BY <1>1, <1>2, Capacity, EmptySeq DEF Apart
<1> QED
  BY <1>1, <1>2, <1>3, FullAndEmpty DEF RingInv

(* The front element is where at(0) finds it, unless it is the one that has  *)
(* not been written.                                                         *)
LEMMA FrontIsOldest ==
    ASSUME Shared, deque # <<>>, pc # "write" \/ Len(deque) # 1
    PROVE  mData[At(0)] = Head(deque)
<1> DEFINE n == Len(deque)
<1>1. n \in 1..N /\ mBegin \in Index /\ mEnd = Ahead(mBegin, n)
  BY SharedFacts, EmptySeq DEF Apart
<1>2. Content[Cell(mBegin + 1 - 1)] = deque[1] /\ Head(deque) = deque[1]
  <2>1. 1 \in 1..Len(deque)
    BY <1>1, Capacity
  <2>2. Head(deque) = deque[1]
    BY SharedFacts
  <2> QED
    BY <2>1, <2>2 DEF Shared, Holds
<1> HIDE DEF n
<1>3. /\ At(0) = Cell(mBegin) /\ mBegin + 1 - 1 = mBegin /\ mBegin + 0 = mBegin
      /\ ReverseAt(1) = Cell(mBegin + (n - 1))
      /\ n - 1 \in 0..(N - 1) /\ 0 \in 0..(N - 1)
  BY <1>1, FirstCell, CellFromEnd, Capacity DEF At, ReverseAt, Index
<1>4. CASE pc # "write"
  BY <1>2, <1>3, <1>4 DEF Content
<1>5. CASE pc = "write"
  <2>1. n - 1 # 0
    BY <1>1, <1>5 DEF n
  <2>2. Cell(mBegin + 0) # Cell(mBegin + (n - 1)) /\ Cell(mBegin + 0) \in 0..(N - 1)
    BY <1>1, <1>3, <2>1, CellsDiffer, CellInRange
  <2>3. Content[Cell(mBegin)] = mData[Cell(mBegin)]
    BY <1>3, <1>5, <2>2, SharedFacts DEF Content, Written
  <2> QED
    BY <1>2, <1>3, <2>3
<1> QED
  BY <1>4, <1>5

LEMMA SharedInit == UtilitiesInit => QueueInv
<1> SUFFICES ASSUME UtilitiesInit PROVE Shared
  BY DEF QueueInv
<1>1. RingInv /\ pc = "idle" /\ elem \in Elems /\ wrong = FALSE
  BY RingInitial DEF UtilitiesInit, QueueInit
<1> QED
  BY <1>1 DEF RingInv, Shared, Content, ProgramSteps

LEMMA SharedUnchanged ==
    ASSUME Shared, UNCHANGED <<tool, queueVars>>
    PROVE  Shared'
BY DEF Shared, queueVars, vars, control, verdicts, TypeOK, Apart, Content, Written,
       ReverseAt, Slot, Minus

(* A ring used by itself. *)
LEMMA RingOfOne ==
    ASSUME Shared, tool = "ring", Next, UNCHANGED <<tool, control, verdicts>>
    PROVE  Shared'
<1>1. pc = "idle" /\ RingInv
  BY SharedFacts DEF Shared
<1>2. RingInv'
  BY <1>1, RingInductive
<1> QED
  BY <1>1, <1>2 DEF Shared, RingInv, Content, control, verdicts
-----------------------------------------------------------------------------
(* The steps of the program. *)
LEMMA ReadFrontStep ==
    ASSUME Shared, tool # "ring", tool' = tool, ReadFront
    PROVE  Shared'
<1>1. /\ producer = "interrupt" /\ producer' = producer
      /\ pc = "idle" /\ pc' = "load begin"
      /\ elem' = mData[At(0)] /\ UNCHANGED <<vars, loaded, wrong, early>>
  BY DEF ReadFront, Goto
<1>2. deque # <<>>
  BY SharedFacts DEF ReadFront
<1>3. elem' = Head(deque) /\ Head(deque) \in Elems
  <2>1. Head(deque) \in Elems
    BY <1>2, SharedFacts
  <2> QED
    BY <1>1, <1>2, <2>1, FrontIsOldest
<1>4. TypeOK' /\ Apart' /\ Holds(Content', mBegin', deque')
  BY <1>1 DEF Shared, vars, TypeOK, Apart, Content
<1> QED
  BY <1>1, <1>2, <1>3, <1>4 DEF Shared, vars, ProgramSteps

LEMMA LoadForPopStep ==
    ASSUME Shared, tool # "ring", tool' = tool, LoadForPop
    PROVE  Shared'
<1>1. /\ producer' = producer /\ pc = "load begin" /\ pc' = "pop"
      /\ loaded' = mBegin /\ UNCHANGED <<vars, elem, wrong, early>>
  BY DEF LoadForPop, Goto
<1>2. TypeOK' /\ Apart' /\ Holds(Content', mBegin', deque')
  BY <1>1 DEF Shared, vars, TypeOK, Apart, Content
<1> QED
  BY <1>1, <1>2 DEF Shared, vars, ProgramSteps

LEMMA StorePopStep ==
    ASSUME Shared, tool # "ring", tool' = tool, StorePop
    PROVE  Shared'
<1>1. /\ producer' = producer /\ pc = "pop" /\ pc' = "idle"
      /\ mBegin' = Incr(mBegin) /\ deque # <<>> /\ deque' = Tail(deque)
      /\ (wrong' => wrong) /\ early' = early
      /\ UNCHANGED <<mEnd, mData, loaded, elem>>
  <2>1. deque # <<>> /\ Head(deque) = elem /\ loaded = mBegin
    BY DEF Shared, StorePop, Goto
  <2>2. wrong' => wrong
    BY <2>1 DEF StorePop
  <2> QED
    BY <2>1, <2>2 DEF StorePop, Goto, Drop
<1>2. Holds(mData, mBegin, deque)
  BY <1>1 DEF Shared, Content
<1>3. TypeOK' /\ Apart' /\ Holds(mData, mBegin', deque')
  BY <1>1, <1>2, SharedFacts, DropFirst
<1>4. Holds(Content', mBegin', deque')
  BY <1>1, <1>3 DEF Content
<1> QED
  BY <1>1, <1>3, <1>4 DEF Shared, ProgramSteps

LEMMA BeginPushStep ==
    ASSUME Shared, tool # "ring", tool' = tool, NEW e \in Elems, BeginPush(e)
    PROVE  Shared'
<1>1. /\ producer = "program" /\ producer' = producer /\ pc = "idle"
      /\ pc' = (IF Full THEN "store begin" ELSE "store end")
      /\ loaded' = mBegin /\ elem' = e
      /\ UNCHANGED <<vars, wrong, early>>
  BY DEF BeginPush, Goto
<1>2. TypeOK' /\ Apart' /\ Holds(Content', mBegin', deque')
  BY <1>1 DEF Shared, vars, TypeOK, Apart, Content
<1>3. IF Full THEN Len(deque) = N ELSE Len(deque) < N
  BY SharedFacts, Capacity
<1> QED
  BY <1>1, <1>2, <1>3 DEF Shared, vars, ProgramSteps

LEMMA StoreBeginStep ==
    ASSUME Shared, tool # "ring", tool' = tool, StoreBegin
    PROVE  Shared'
<1>1. /\ producer' = producer /\ pc = "store begin" /\ pc' = "store end"
      /\ mBegin' = Incr(mBegin) /\ deque # <<>> /\ deque' = Tail(deque)
      /\ Len(deque) = N
      /\ UNCHANGED <<mEnd, mData, loaded, elem, wrong, early>>
  <2>1. loaded = mBegin /\ Len(deque) = N
    BY DEF Shared, StoreBegin, Goto
  <2>2. deque # <<>>
    BY <2>1, SharedFacts, Capacity
  <2> QED
    BY <2>1, <2>2 DEF StoreBegin, Goto, Drop
<1>2. Holds(mData, mBegin, deque)
  BY <1>1 DEF Shared, Content
<1>3. /\ TypeOK' /\ Apart' /\ Holds(mData, mBegin', deque')
      /\ Len(deque') < N
  <2>1. /\ TypeOK' /\ Apart' /\ Holds(mData, mBegin', deque')
        /\ Len(deque') = Len(deque) - 1
    BY <1>1, <1>2, SharedFacts, DropFirst
  <2>2. N - 1 < N
    BY Capacity
  <2> QED
    BY <1>1, <2>1, <2>2
<1>4. Holds(Content', mBegin', deque')
  BY <1>1, <1>3 DEF Content
<1> QED
  BY <1>1, <1>3, <1>4 DEF Shared, ProgramSteps

LEMMA StoreEndStep ==
    ASSUME Shared, tool # "ring", tool' = tool, StoreEnd
    PROVE  Shared'
<1> DEFINE n == Len(deque)
<1>1. /\ producer' = producer /\ pc = "store end" /\ pc' = "write"
      /\ mEnd' = Incr(mEnd) /\ deque' = Append(deque, elem)
      /\ UNCHANGED <<mBegin, mData, loaded, elem, wrong, early>>
  BY DEF StoreEnd, Goto
<1>2. /\ n \in 0..(N - 1) /\ elem \in Elems /\ deque \in Seq(Elems)
      /\ mBegin \in Index /\ mEnd \in Index /\ mEnd = Ahead(mBegin, n)
      /\ Holds(mData, mBegin, deque)
  <2>1. Len(deque) < N /\ elem \in Elems /\ Holds(mData, mBegin, deque)
    BY <1>1 DEF Shared, Content
  <2>2. mEnd = Ahead(mBegin, Len(deque))
    BY SharedFacts DEF Apart
  <2>3. Len(deque) \in 0..(N - 1)
    BY <2>1, SharedFacts, Capacity
  <2> QED
    BY <2>1, <2>2, <2>3, SharedFacts
<1>3. deque' \in Seq(Elems) /\ Len(deque') = n + 1
  BY <1>1, <1>2, AppendProperties
<1>4. mEnd' = Ahead(mBegin, n + 1) /\ mEnd' \in Index
  <2> HIDE DEF n
  <2>1. mEnd' = Ahead(mEnd, 1)
    BY <1>1, <1>2, IncrAhead
  <2> QED
    BY <1>2, <2>1, AheadSteps
<1>5. TypeOK'
  BY <1>1, <1>3, <1>4, SharedFacts DEF TypeOK, Index
<1>6. Apart'
  <2>1. n + 1 <= N
    BY <1>2, Capacity
  <2> QED
    BY <1>1, <1>3, <1>4, <2>1 DEF Apart
<1>7. ReverseAt(1)' = Cell(mBegin + n)
  <2> HIDE DEF n
  <2>1. n + 1 \in 0..N /\ 1 \in 1..(n + 1) /\ (n + 1) - 1 = n
    BY <1>2, Capacity
  <2>2. Slot(Minus(Ahead(mBegin, n + 1), 1)) = Cell(mBegin + ((n + 1) - 1))
    BY <1>2, <2>1, CellFromEnd
  <2> QED
    BY <1>4, <2>1, <2>2 DEF ReverseAt, Slot, Minus
<1>8. Content' = [mData EXCEPT ![Cell(mBegin + Len(deque))] = elem]
  BY <1>1, <1>7 DEF Content, Written
<1>9. Holds(Content', mBegin', deque')
  <2>1. Len(deque) < N
    BY <1>2, Capacity
  <2> QED
    BY <1>1, <1>2, <1>8, <2>1, SharedFacts, HoldsAppend
<1> QED
  BY <1>1, <1>2, <1>5, <1>6, <1>9 DEF Shared, ProgramSteps

LEMMA WriteBackStep ==
    ASSUME Shared, tool # "ring", tool' = tool, WriteBack
    PROVE  Shared'
<1>1. /\ producer' = producer /\ pc = "write" /\ pc' = "idle"
      /\ mData' = Written /\ elem \in Elems
      /\ UNCHANGED <<mBegin, mEnd, deque, loaded, elem, wrong, early>>
  BY DEF WriteBack, Goto, Written, Shared
<1>2. Content' = mData' /\ Content = Written
  BY <1>1 DEF Content
<1>3. TypeOK'
  <2>1. mData' \in [0..(N - 1) -> Elems]
    BY <1>1, SharedFacts DEF Written
  <2> QED
    BY <1>1, <2>1, SharedFacts DEF TypeOK, Index
<1>4. Apart' /\ Holds(Content', mBegin', deque')
  BY <1>1, <1>2 DEF Shared, Apart
<1> QED
  BY <1>1, <1>3, <1>4 DEF Shared, ProgramSteps

LEMMA AppendKeepsHead ==
    ASSUME NEW s \in Seq(Elems), s # <<>>, NEW e \in Elems
    PROVE  Head(Append(s, e)) = Head(s) /\ Append(s, e) # <<>>
<1> DEFINE longer == Append(s, e)
<1>1. Len(s) \in Nat /\ Len(s) # 0
  BY EmptySeq
<1>2. /\ longer \in Seq(Elems) /\ Len(longer) = Len(s) + 1
      /\ longer[1] = s[1]
  BY <1>1, AppendProperties
<1> HIDE DEF longer
<1>3. longer # <<>>
  BY <1>1, <1>2, EmptySeq
<1>4. Head(longer) = longer[1]
  BY <1>2, <1>3
<1> QED
  BY <1>2, <1>3, <1>4 DEF longer

(* The interrupt handler's calls, at any step of the program. *)
LEMMA InterruptPushStep ==
    ASSUME Shared, tool # "ring", tool' = tool, NEW e \in Elems,
           InterruptPush(e), ~overran'
    PROVE  Shared'
<1>1. /\ producer = "interrupt" /\ PushBack(e) /\ (Full => pc = "idle")
      /\ UNCHANGED <<control, early, wrong>>
  BY DEF InterruptPush
<1>2. pc # "write" /\ pc # "store begin" /\ pc # "store end"
  BY <1>1 DEF Shared
<1>3. RingInv /\ RingInv'
  BY <1>1, <1>2, SharedFacts, PushBackStep
<1>4. Holds(Content', mBegin', deque')
  BY <1>1, <1>2, <1>3 DEF RingInv, Content, control
<1>5. pc \in {"load begin", "pop"} =>
          deque' # <<>> /\ Head(deque') = elem /\ mBegin' = mBegin
  <2> SUFFICES ASSUME pc \in {"load begin", "pop"}
               PROVE  deque' # <<>> /\ Head(deque') = elem /\ mBegin' = mBegin
    OBVIOUS
  <2>1. deque # <<>> /\ Head(deque) = elem /\ ~Full
    BY <1>1 DEF Shared
  <2>2. deque' = Append(deque, e) /\ mBegin' = mBegin
    BY <1>1, <2>1 DEF PushBack
  <2>3. deque \in Seq(Elems)
    BY SharedFacts
  <2>4. Head(Append(deque, e)) = Head(deque) /\ Append(deque, e) # <<>>
    BY <2>1, <2>3, AppendKeepsHead
  <2> QED
    BY <2>1, <2>2, <2>4
<1> QED
  BY <1>1, <1>2, <1>3, <1>4, <1>5 DEF Shared, RingInv, control

LEMMA InterruptPopStep ==
    ASSUME Shared, tool # "ring", tool' = tool, InterruptPop, ~overran'
    PROVE  Shared'
<1>1. /\ producer = "program" /\ PopFront /\ pc # "store begin"
      /\ wrong' = (wrong \/ mData[At(0)] # Head(deque))
      /\ early' = (early \/ (pc = "write" /\ Size = 1))
      /\ UNCHANGED control
  BY DEF InterruptPop
<1>2. /\ deque # <<>> /\ mBegin' = Incr(mBegin) /\ deque' = Tail(deque)
      /\ UNCHANGED <<mEnd, mData>>
  BY <1>1, SharedFacts DEF PopFront
<1>3. /\ TypeOK' /\ Apart' /\ Holds(Content, mBegin', deque')
      /\ Len(deque') = Len(deque) - 1
  BY <1>2, SharedFacts, DropFirst DEF Shared
<1>4. Content' = Content
  BY <1>1, <1>2 DEF Content, Written, ReverseAt, Slot, Minus, control
<1>5. wrong' => early'
  <2>1. CASE pc = "write" /\ Len(deque) = 1
    BY <1>1, <2>1, SharedFacts, SizeIsLength
  <2>2. CASE ~(pc = "write" /\ Len(deque) = 1)
    <3>1. mData[At(0)] = Head(deque)
      BY <1>2, <2>2, FrontIsOldest
    <3>2. wrong => early
      BY DEF Shared
    <3> QED
      BY <1>1, <3>1, <3>2
  <2> QED
    BY <2>1, <2>2
<1>6. pc = "store end" => Len(deque') < N
  <2>1. pc = "store end" => Len(deque) < N
    BY DEF Shared
  <2>2. \A k \in 0..N : k < N => k - 1 < N
    BY Capacity
  <2> QED
    BY <1>3, <2>1, <2>2, SharedFacts
<1>7. pc \notin {"load begin", "pop", "store begin"}
  BY <1>1 DEF Shared
<1> QED
  BY <1>1, <1>3, <1>4, <1>5, <1>6, <1>7 DEF Shared, control

LEMMA QueueStep ==
    ASSUME QueueInv, [UtilitiesNext]_allVars
    PROVE  QueueInv'
<1>1. CASE UNCHANGED <<tool, queueVars>>
  BY <1>1, SharedUnchanged DEF QueueInv, queueVars, verdicts
<1>2. CASE tool = "ring" /\ Next /\ UNCHANGED <<tool, control, verdicts>>
  BY <1>2, RingOfOne DEF QueueInv, verdicts
<1>3. CASE tool = "queue" /\ QueueNext /\ UNCHANGED tool
  <2> SUFFICES ASSUME ~overran' PROVE Shared'
    BY DEF QueueInv
  <2>1. Shared /\ tool # "ring" /\ tool' = tool
    BY <1>3 DEF QueueInv, QueueNext
  <2> QED
    BY <1>3, <2>1, ReadFrontStep, LoadForPopStep, StorePopStep, BeginPushStep,
       StoreBeginStep, StoreEndStep, WriteBackStep, InterruptPushStep,
       InterruptPopStep DEF QueueNext
<1>4. \/ UNCHANGED <<tool, queueVars>>
      \/ tool = "ring" /\ Next /\ UNCHANGED <<tool, control, verdicts>>
      \/ tool = "queue" /\ QueueNext /\ UNCHANGED tool
  BY DEF UtilitiesNext, allVars, ringVars, queueVars
<1> QED
  BY <1>1, <1>2, <1>3, <1>4

(* OnlyTwoRaces: for every power of two, every width of size_t and any       *)
(* elements, wherever the interrupts fall.                                   *)
THEOREM QueueHasTwoRaces == UtilitiesSpec => []OnlyTwoRaces
<1>1. ASSUME QueueInv PROVE OnlyTwoRaces
  <2>1. CASE overran
    BY <2>1 DEF OnlyTwoRaces
  <2>2. CASE ~overran
    <3>1. Shared
      BY <1>1, <2>2 DEF QueueInv
    <3>2. SizeCounts
      BY <3>1, SharedFacts, FullAndEmpty, SizeIsLength DEF SizeCounts
    <3>3. pc # "write" => Positions
      BY <3>1, SharedFacts, RingPositions
    <3> QED
      BY <3>1, <3>2, <3>3 DEF OnlyTwoRaces, Shared
  <2> QED
    BY <2>1, <2>2
<1>2. QueueInv => OnlyTwoRaces
  BY <1>1
<1> QED
  BY <1>2, SharedInit, QueueStep, PTL DEF UtilitiesSpec
-----------------------------------------------------------------------------

Places == VariantNames \cup V!Temporaries

(* What storage can look like between the moves of a swap: any destructor    *)
(* pointer over raw storage, an object, or the husk of one.                  *)
Dtors == Types \cup {Void, Gone}
VariantObjects == [type : Types, val : Values \cup {Husk}]
Memories == [slots : [Places -> [dtor : Dtors, obj : VariantObjects \cup {Raw}]],
             lost : SUBSET (Values \cup {Husk})]

HuskOf(obj) == [type |-> obj.type, val |-> Husk]

(* What it looks like between calls. *)
Husks == [type : Types, val : {Husk}]
Emptied(s) == s.dtor = Void /\ s.obj \in Husks \cup {Raw}
Filled(s) == s.obj \in V!Contents /\ s.dtor = s.obj.type
Good(mem) ==
    /\ mem \in Memories
    /\ \A q \in Places : mem.slots[q] = V!Dead \/ Emptied(mem.slots[q])
                             \/ Filled(mem.slots[q])
    /\ mem.lost \subseteq {Husk}

CellOf(s) == IF s.dtor \in {Gone, Void} THEN s.dtor ELSE s.obj

LEMMA Marks ==
  ASSUME V!MarksDiffer
  PROVE  /\ Void \notin Types /\ Gone \notin Types /\ Gone # Void
         /\ Raw \notin VariantObjects /\ Husk \notin Values
         /\ "tmp" \notin VariantNames /\ "other" \notin VariantNames
         /\ Void \notin V!Contents /\ Gone \notin V!Contents
BY DEF V!MarksDiffer, VariantObjects, V!Contents

(* A move from an empty variant, or of an object onto itself. *)
LEMMA MoveNothing ==
  ASSUME NEW mem \in Memories, NEW d \in Places, NEW s \in Places,
         \/ mem.slots[s].dtor = Void
         \/ d = s /\ mem.slots[s].obj \in VariantObjects
  PROVE  V!MoveTo(mem, d, s) = mem
<1>1. CASE mem.slots[s].dtor = Void
  BY <1>1 DEF V!MoveTo, V!Visited
<1>2. CASE /\ mem.slots[s].dtor # Void
           /\ d = s /\ mem.slots[s].obj \in VariantObjects
  <2>1. [mem.slots EXCEPT ![s].obj.val = Husk, ![d].obj = mem.slots[s].obj]
            = mem.slots
    BY <1>2 DEF Memories
  <2> QED
    BY <1>2, <2>1 DEF V!MoveTo, V!Visited, Memories
<1> QED
  BY <1>1, <1>2

(* A move from one variant into another. *)
LEMMA MoveObject ==
  ASSUME NEW mem \in Memories, NEW d \in Places, NEW s \in Places, d # s,
         mem.slots[s].dtor # Void, mem.slots[s].obj \in VariantObjects,
         NEW after, after = V!MoveTo(mem, d, s)
  PROVE  /\ after \in Memories
         /\ after.slots[d].dtor = mem.slots[d].dtor
         /\ after.slots[d].obj = mem.slots[s].obj
         /\ after.slots[s].dtor = mem.slots[s].dtor
         /\ after.slots[s].obj = HuskOf(mem.slots[s].obj)
         /\ \A q \in Places \ {d, s} : after.slots[q] = mem.slots[q]
         /\ after.lost = mem.lost \cup V!Left(mem.slots[d])
<1> DEFINE shifted == [mem.slots EXCEPT ![s].obj.val = Husk,
                                      ![d].obj = mem.slots[s].obj]
<1>1. after = [slots |-> shifted, lost |-> mem.lost \cup V!Left(mem.slots[d])]
  BY DEF V!MoveTo, V!Visited
<1>2. /\ shifted[d] = [dtor |-> mem.slots[d].dtor, obj |-> mem.slots[s].obj]
      /\ shifted[s] = [dtor |-> mem.slots[s].dtor,
                     obj |-> HuskOf(mem.slots[s].obj)]
      /\ \A q \in Places \ {d, s} : shifted[q] = mem.slots[q]
      /\ shifted = [q \in Places |-> shifted[q]]
  BY DEF Memories, HuskOf, VariantObjects
<1>3. shifted \in [Places -> [dtor : Dtors, obj : VariantObjects \cup {Raw}]]
  <2>1. HuskOf(mem.slots[s].obj) \in VariantObjects
    BY DEF HuskOf, VariantObjects
  <2> HIDE DEF shifted
  <2> QED
    BY <1>2, <2>1 DEF Memories
<1>4. V!Left(mem.slots[d]) \subseteq Values \cup {Husk}
  BY DEF V!Left, Memories, VariantObjects
<1> HIDE DEF shifted
<1>5. after.slots = shifted /\ after.lost = mem.lost \cup V!Left(mem.slots[d])
  BY <1>1
<1>6. after \in Memories
  <2>1. mem.lost \cup V!Left(mem.slots[d]) \in SUBSET (Values \cup {Husk})
    BY <1>4 DEF Memories
  <2> QED
    BY <1>1, <1>3, <2>1 DEF Memories
<1> QED
  BY <1>2, <1>5, <1>6

(* Setting a destructor pointer, and making a variant in unused storage. *)
LEMMA PointToSets ==
  ASSUME NEW mem \in Memories, NEW d \in Places, NEW dtor \in Dtors,
         NEW after, after = V!PointTo(mem, d, dtor)
  PROVE  /\ after \in Memories
         /\ after.slots[d].dtor = dtor
         /\ after.slots[d].obj = mem.slots[d].obj
         /\ \A q \in Places \ {d} : after.slots[q] = mem.slots[q]
         /\ after.lost = mem.lost
<1> DEFINE set == [mem.slots EXCEPT ![d].dtor = dtor]
<1>1. after = [slots |-> set, lost |-> mem.lost]
  BY DEF V!PointTo, Memories
<1>2. /\ set \in [Places -> [dtor : Dtors, obj : VariantObjects \cup {Raw}]]
      /\ set[d] = [dtor |-> dtor, obj |-> mem.slots[d].obj]
      /\ \A q \in Places \ {d} : set[q] = mem.slots[q]
  BY DEF Memories
<1> HIDE DEF set
<1> QED
  BY <1>1, <1>2 DEF Memories

LEMMA MadeSets ==
  ASSUME NEW mem \in Memories, NEW n \in Places,
         NEW s \in [dtor : Dtors, obj : VariantObjects \cup {Raw}],
         NEW after, after = V!Made(mem, n, s)
  PROVE  /\ after \in Memories
         /\ after.slots[n] = s
         /\ \A q \in Places \ {n} : after.slots[q] = mem.slots[q]
         /\ after.lost = mem.lost
<1> DEFINE set == [mem.slots EXCEPT ![n] = s]
<1>1. after = [slots |-> set, lost |-> mem.lost]
  BY DEF V!Made, Memories
<1>2. /\ set \in [Places -> [dtor : Dtors, obj : VariantObjects \cup {Raw}]]
      /\ set[n] = s
      /\ \A q \in Places \ {n} : set[q] = mem.slots[q]
  BY DEF Memories
<1> HIDE DEF set
<1> QED
  BY <1>1, <1>2 DEF Memories

LEMMA DestroyedSets ==
  ASSUME NEW mem \in Memories, NEW n \in Places,
         NEW after, after = V!Destroyed(mem, n)
  PROVE  /\ after \in Memories
         /\ after.slots[n] = V!Dead
         /\ \A q \in Places \ {n} : after.slots[q] = mem.slots[q]
         /\ mem.slots[n].dtor # Void => after.lost = mem.lost
         /\ after.lost \subseteq mem.lost \cup V!Left(mem.slots[n])
<1> DEFINE set == [mem.slots EXCEPT ![n] = V!Dead]
           lost == mem.lost \cup IF V!Visited(mem.slots[n]) THEN {}
                                 ELSE V!Left(mem.slots[n])
<1>1. after = [slots |-> set, lost |-> lost]
  BY DEF V!Destroyed
<1>2. /\ set \in [Places -> [dtor : Dtors, obj : VariantObjects \cup {Raw}]]
      /\ set[n] = V!Dead
      /\ \A q \in Places \ {n} : set[q] = mem.slots[q]
  BY DEF Memories, V!Dead, Dtors
<1>3. lost \in SUBSET (Values \cup {Husk})
  BY DEF V!Left, Memories, VariantObjects
<1>4. /\ after.slots = set /\ after.lost = lost
      /\ mem.slots[n].dtor # Void => lost = mem.lost
  BY <1>1 DEF V!Visited
<1>5. after \in Memories
  <2> HIDE DEF set, lost
  <2> QED
    BY <1>1, <1>2, <1>3 DEF Memories
<1> QED
  BY <1>2, <1>4, <1>5

LEMMA DestroyedOthers ==
  ASSUME NEW mem \in Memories, NEW n \in Places, NEW q \in Places \ {n}
  PROVE  V!Destroyed(mem, n).slots[q] = mem.slots[q]
BY DestroyedSets

(* Each of a swap's moves: d, which holds nothing of value, takes s's        *)
(* destructor pointer and s's object.                                        *)
LEMMA PointedMove ==
  ASSUME V!MarksDiffer, NEW mem \in Memories, NEW d \in Places,
         NEW s \in Places, d # s,
         mem.slots[d].obj \in Husks \cup {Raw},
         Emptied(mem.slots[s]) \/ Filled(mem.slots[s]),
         NEW after,
         after = V!MoveTo(V!PointTo(mem, d, mem.slots[s].dtor), d, s)
  PROVE  /\ after \in Memories /\ after.lost \subseteq mem.lost \cup {Husk}
         /\ Emptied(mem.slots[s]) <=> Emptied(after.slots[d])
         /\ Filled(mem.slots[s]) => Filled(after.slots[d])
         /\ Filled(mem.slots[s]) => after.slots[d].obj = mem.slots[s].obj
         /\ after.slots[s].obj \in Husks \cup {Raw}
         /\ Filled(mem.slots[s]) => after.slots[s].obj \in Husks
         /\ after.slots[s].dtor = mem.slots[s].dtor
         /\ \A q \in Places \ {d, s} : after.slots[q] = mem.slots[q]
<1> DEFINE k == V!PointTo(mem, d, mem.slots[s].dtor)
<1>1. mem.slots[s].dtor \in Dtors
  BY DEF Memories
<1>2. /\ k \in Memories /\ k.lost = mem.lost
      /\ k.slots[d].dtor = mem.slots[s].dtor
      /\ k.slots[d].obj = mem.slots[d].obj
      /\ \A q \in Places \ {d} : k.slots[q] = mem.slots[q]
  BY <1>1, PointToSets
<1>3. after = V!MoveTo(k, d, s) /\ k.slots[s] = mem.slots[s]
  BY <1>2
<1> HIDE DEF k
<1>4. CASE Emptied(mem.slots[s])
  <2>1. after = k
    BY <1>2, <1>3, <1>4, MoveNothing DEF Emptied
  <2>2. ~Filled(mem.slots[s])
    BY <1>4, Marks DEF Emptied, Filled, V!Contents
  <2> QED
    BY <1>2, <1>4, <2>1, <2>2 DEF Emptied
<1>5. CASE Filled(mem.slots[s])
  <2>1. /\ mem.slots[s].obj \in VariantObjects /\ mem.slots[s].dtor # Void
        /\ HuskOf(mem.slots[s].obj) \in Husks
    BY <1>5, Marks DEF Filled, V!Contents, VariantObjects, HuskOf, Husks
  <2>2. V!Left(k.slots[d]) \subseteq {Husk}
    BY <1>2, Marks DEF V!Left, Husks, VariantObjects
  <2>3. /\ after \in Memories /\ after.lost = k.lost \cup V!Left(k.slots[d])
        /\ after.slots[d].dtor = k.slots[d].dtor
        /\ after.slots[d].obj = k.slots[s].obj
        /\ after.slots[s].dtor = k.slots[s].dtor
        /\ after.slots[s].obj = HuskOf(k.slots[s].obj)
        /\ \A q \in Places \ {d, s} : after.slots[q] = k.slots[q]
    BY <1>2, <1>3, <2>1, MoveObject
  <2>4. ~Emptied(mem.slots[s]) /\ ~Emptied(after.slots[d])
    BY <1>2, <1>3, <1>5, <2>1, <2>3 DEF Emptied
  <2>5. Filled(after.slots[d])
    BY <1>2, <1>3, <1>5, <2>3 DEF Filled
  <2> QED
    BY <1>2, <1>3, <2>1, <2>2, <2>3, <2>4, <2>5
<1> QED
  BY <1>4, <1>5

(* A swap exchanges the cells of its operands, even if they are one, and     *)
(* destroys nothing of value.                                                *)
LEMMA SwapExchanges ==
  ASSUME V!MarksDiffer, NEW mem, Good(mem), mem.slots["tmp"] = V!Dead,
         NEW l \in Places, NEW r \in Places, l # "tmp", r # "tmp",
         mem.slots[l] # V!Dead, mem.slots[r] # V!Dead,
         NEW after, after = V!Swapped(mem, l, r)
  PROVE  /\ Good(after) /\ after.slots["tmp"] = V!Dead
         /\ after.slots[l] # V!Dead /\ after.slots[r] # V!Dead
         /\ CellOf(after.slots[l]) = CellOf(mem.slots[r])
         /\ CellOf(after.slots[r]) = CellOf(mem.slots[l])
         /\ \A q \in Places \ {l, r} : after.slots[q] = mem.slots[q]
<1> DEFINE z == V!Made(mem, "tmp", V!Fresh)
           a == V!MoveTo(V!PointTo(z, "tmp", mem.slots[l].dtor), "tmp", l)
           b == V!MoveTo(V!PointTo(a, l, a.slots[r].dtor), l, r)
           c == V!MoveTo(V!PointTo(b, r, b.slots["tmp"].dtor), r, "tmp")
<1>1. after = V!Destroyed(c, "tmp")
  BY DEF V!Swapped
<1>2. /\ mem \in Memories /\ "tmp" \in Places
      /\ V!Fresh \in [dtor : Dtors, obj : VariantObjects \cup {Raw}]
      /\ V!Fresh.obj = Raw /\ mem.lost \subseteq {Husk}
      /\ Emptied(mem.slots[l]) \/ Filled(mem.slots[l])
      /\ Emptied(mem.slots[r]) \/ Filled(mem.slots[r])
  BY DEF Good, Places, V!Temporaries, V!Fresh, Dtors
<1>3. /\ z \in Memories /\ z.slots["tmp"] = V!Fresh /\ z.lost = mem.lost
      /\ \A q \in Places \ {"tmp"} : z.slots[q] = mem.slots[q]
  BY <1>2, MadeSets
<1> HIDE DEF z
<1>4. /\ z.slots[l] = mem.slots[l] /\ z.slots[r] = mem.slots[r]
      /\ z.slots["tmp"].obj \in Husks \cup {Raw}
  BY <1>2, <1>3
<1>5. /\ a \in Memories /\ a.lost \subseteq {Husk}
      /\ Emptied(mem.slots[l]) <=> Emptied(a.slots["tmp"])
      /\ Filled(mem.slots[l]) => Filled(a.slots["tmp"])
      /\ Filled(mem.slots[l]) => a.slots["tmp"].obj = mem.slots[l].obj
      /\ a.slots[l].obj \in Husks \cup {Raw}
      /\ Filled(mem.slots[l]) => a.slots[l].obj \in Husks
      /\ a.slots[l].dtor = mem.slots[l].dtor
      /\ \A q \in Places \ {"tmp", l} : a.slots[q] = mem.slots[q]
  <2>1. a = V!MoveTo(V!PointTo(z, "tmp", z.slots[l].dtor), "tmp", l)
    BY <1>4
  <2> HIDE DEF a
  <2>2. /\ a \in Memories /\ a.lost \subseteq z.lost \cup {Husk}
        /\ Emptied(z.slots[l]) <=> Emptied(a.slots["tmp"])
        /\ Filled(z.slots[l]) => Filled(a.slots["tmp"])
        /\ Filled(z.slots[l]) => a.slots["tmp"].obj = z.slots[l].obj
        /\ a.slots[l].obj \in Husks \cup {Raw}
        /\ Filled(z.slots[l]) => a.slots[l].obj \in Husks
        /\ a.slots[l].dtor = z.slots[l].dtor
        /\ \A q \in Places \ {"tmp", l} : a.slots[q] = z.slots[q]
    BY <1>2, <1>3, <1>4, <2>1, PointedMove
  <2> QED
    BY <1>2, <1>3, <1>4, <2>2
<1> HIDE DEF a
<1>6. /\ b \in Memories /\ b.lost \subseteq {Husk}
      /\ b.slots["tmp"] = a.slots["tmp"]
      /\ b.slots[r].obj \in Husks \cup {Raw}
      /\ l # r => /\ Emptied(mem.slots[r]) <=> Emptied(b.slots[l])
                  /\ Filled(mem.slots[r]) => Filled(b.slots[l])
                  /\ Filled(mem.slots[r]) =>
                         b.slots[l].obj = mem.slots[r].obj
      /\ \A q \in Places \ {"tmp", l, r} : b.slots[q] = mem.slots[q]
  <2>1. CASE l # r
    <3>1. a.slots[r] = mem.slots[r]
      BY <1>5, <2>1
    <3>2. b = V!MoveTo(V!PointTo(a, l, a.slots[r].dtor), l, r)
      OBVIOUS
    <3> HIDE DEF b
    <3>3. Emptied(a.slots[r]) \/ Filled(a.slots[r])
      BY <1>2, <3>1
    <3>4. /\ b \in Memories /\ b.lost \subseteq a.lost \cup {Husk}
          /\ Emptied(a.slots[r]) <=> Emptied(b.slots[l])
          /\ Filled(a.slots[r]) => Filled(b.slots[l])
          /\ Filled(a.slots[r]) => b.slots[l].obj = a.slots[r].obj
          /\ b.slots[r].obj \in Husks \cup {Raw}
          /\ \A q \in Places \ {l, r} : b.slots[q] = a.slots[q]
      BY <1>5, <2>1, <3>2, <3>3, PointedMove
    <3> QED
      BY <1>2, <1>5, <2>1, <3>1, <3>4
  <2>2. CASE l = r
    <3> DEFINE k == V!PointTo(a, l, a.slots[r].dtor)
    <3>1. a.slots[r].dtor \in Dtors
      BY <1>5 DEF Memories
    <3>2. /\ k \in Memories /\ k.lost = a.lost
          /\ k.slots[l].dtor = a.slots[l].dtor
          /\ k.slots[l].obj = a.slots[l].obj
          /\ \A q \in Places \ {l} : k.slots[q] = a.slots[q]
      BY <1>5, <2>2, <3>1, PointToSets
    <3>3. b = V!MoveTo(k, l, l)
      BY <2>2
    <3> HIDE DEF k, b
    <3>4. k.slots[l].dtor = Void \/ k.slots[l].obj \in VariantObjects
      <4>1. CASE Emptied(mem.slots[l])
        BY <1>5, <3>2, <4>1 DEF Emptied
      <4>2. CASE Filled(mem.slots[l])
        BY <1>5, <3>2, <4>2 DEF Husks, VariantObjects
      <4> QED
        BY <1>2, <4>1, <4>2
    <3>5. b = k
      BY <3>2, <3>3, <3>4, MoveNothing
    <3> QED
      BY <1>2, <1>5, <2>2, <3>2, <3>5
  <2> QED
    BY <2>1, <2>2
<1> HIDE DEF b
<1>7. /\ c \in Memories /\ c.lost \subseteq {Husk}
      /\ Emptied(mem.slots[l]) <=> Emptied(c.slots[r])
      /\ Filled(mem.slots[l]) => Filled(c.slots[r])
      /\ Filled(mem.slots[l]) => c.slots[r].obj = mem.slots[l].obj
      /\ c.slots["tmp"].obj \in Husks \cup {Raw}
      /\ \A q \in Places \ {"tmp", r} : c.slots[q] = b.slots[q]
  <2>1. Emptied(b.slots["tmp"]) \/ Filled(b.slots["tmp"])
    BY <1>2, <1>5, <1>6
  <2>2. c = V!MoveTo(V!PointTo(b, r, b.slots["tmp"].dtor), r, "tmp")
    OBVIOUS
  <2>3. b \in Memories /\ b.slots[r].obj \in Husks \cup {Raw}
    BY <1>6
  <2>4. "tmp" \in Places /\ r # "tmp"
    BY <1>2
  <2> HIDE DEF c
  <2>5. /\ c \in Memories /\ c.lost \subseteq b.lost \cup {Husk}
        /\ Emptied(b.slots["tmp"]) <=> Emptied(c.slots[r])
        /\ Filled(b.slots["tmp"]) => Filled(c.slots[r])
        /\ Filled(b.slots["tmp"]) => c.slots[r].obj = b.slots["tmp"].obj
        /\ c.slots["tmp"].obj \in Husks \cup {Raw}
        /\ \A q \in Places \ {"tmp", r} : c.slots[q] = b.slots[q]
    BY <2>1, <2>2, <2>3, <2>4, PointedMove
  <2> QED
    BY <1>5, <1>6, <2>5
<1> HIDE DEF c
<1>8. /\ after \in Memories /\ after.slots["tmp"] = V!Dead
      /\ after.lost \subseteq {Husk}
      /\ \A q \in Places \ {"tmp"} : after.slots[q] = c.slots[q]
  <2>1. /\ after \in Memories /\ after.slots["tmp"] = V!Dead
        /\ after.lost \subseteq c.lost \cup V!Left(c.slots["tmp"])
        /\ \A q \in Places \ {"tmp"} : after.slots[q] = c.slots[q]
    <3>1. c \in Memories /\ "tmp" \in Places
      BY <1>2, <1>7
    <3>2. after \in Memories
      BY <1>1, <3>1, DestroyedSets
    <3>3. after.slots["tmp"] = V!Dead
      BY <1>1, <3>1, DestroyedSets
    <3>4. after.lost \subseteq c.lost \cup V!Left(c.slots["tmp"])
      BY <1>1, <3>1, DestroyedSets
    <3>5. ASSUME NEW q \in Places \ {"tmp"}
          PROVE  after.slots[q] = c.slots[q]
      BY <1>1, <3>1, DestroyedOthers
    <3> QED
      BY <3>2, <3>3, <3>4, <3>5
  <2>2. V!Left(c.slots["tmp"]) \subseteq {Husk}
    BY <1>7 DEF V!Left, Husks
  <2> QED
    BY <1>7, <2>1, <2>2
<1>9. /\ Emptied(mem.slots[l]) <=> Emptied(after.slots[r])
      /\ Filled(mem.slots[l]) =>
             Filled(after.slots[r]) /\ after.slots[r].obj = mem.slots[l].obj
      /\ Emptied(mem.slots[r]) <=> Emptied(after.slots[l])
      /\ Filled(mem.slots[r]) =>
             Filled(after.slots[l]) /\ after.slots[l].obj = mem.slots[r].obj
  <2>1. /\ after.slots[r] = c.slots[r]
        /\ l # r => after.slots[l] = b.slots[l]
    BY <1>7, <1>8
  <2>2. CASE l # r
    BY <1>6, <1>7, <2>1, <2>2
  <2>3. CASE l = r
    BY <1>7, <2>1, <2>3
  <2> QED
    BY <2>2, <2>3
<1>10. \A q \in Places \ {l, r} : after.slots[q] = mem.slots[q]
  BY <1>6, <1>7, <1>8
<1>11. Good(after)
  BY <1>2, <1>8, <1>9, <1>10 DEF Good
<1>12. \A s, t : /\ Emptied(s) <=> Emptied(t)
                 /\ Emptied(s) \/ (Filled(s) /\ Filled(t) /\ s.obj = t.obj)
                 => CellOf(s) = CellOf(t) /\ t # V!Dead
  BY Marks DEF Emptied, Filled, CellOf, V!Contents, V!Dead
<1> QED
  BY <1>2, <1>8, <1>9, <1>10, <1>11, <1>12

-----------------------------------------------------------------------------
(* Between calls, no temporary is left over. *)
NoTemporaries(slots) == slots["tmp"] = V!Dead /\ slots["other"] = V!Dead
VariantInv == Good(V!Memory) /\ NoTemporaries(slot)

CellsOf(slots) == [n \in VariantNames |-> CellOf(slots[n])]

LEMMA Becoming ==
  ASSUME NEW mem, V!Becomes(mem), Good(mem), NoTemporaries(mem.slots)
  PROVE  VariantInv'
<1>1. slot' = mem.slots /\ abandoned' = mem.lost
  BY DEF V!Becomes
<1>2. mem = [slots |-> mem.slots, lost |-> mem.lost]
  BY DEF Good, Memories
<1>3. V!Memory' = mem
  BY <1>1, <1>2 DEF V!Memory
<1> QED
  BY <1>1, <1>3 DEF VariantInv

LEMMA Unfolded ==
  ASSUME V!MarksDiffer, VariantInv
  PROVE  /\ Good(V!Memory) /\ V!Memory.slots = slot /\ V!Memory.lost = abandoned
         /\ slot["tmp"] = V!Dead /\ slot["other"] = V!Dead
         /\ "tmp" \in Places /\ "other" \in Places
         /\ \A n \in VariantNames : n \in Places /\ n # "tmp" /\ n # "other"
         /\ \A n \in Places : V!IsLive(n) <=> slot[n] # V!Dead
         /\ \A n \in Places : V!IsLive(n) <=> CellOf(slot[n]) # Gone
<1>1. /\ Good(V!Memory) /\ V!Memory.slots = slot /\ V!Memory.lost = abandoned
      /\ slot["tmp"] = V!Dead /\ slot["other"] = V!Dead
  BY DEF VariantInv, NoTemporaries, V!Memory
<1>2. /\ "tmp" \in Places /\ "other" \in Places
      /\ \A n \in VariantNames : n \in Places /\ n # "tmp" /\ n # "other"
  BY Marks DEF Places, V!Temporaries
<1>3. ASSUME NEW n \in Places
      PROVE  /\ V!IsLive(n) <=> slot[n] # V!Dead
             /\ V!IsLive(n) <=> CellOf(slot[n]) # Gone
  <2>1. CASE slot[n] = V!Dead
    BY <2>1 DEF V!Dead, V!IsLive, CellOf
  <2>2. CASE Emptied(slot[n])
    BY <2>2, Marks DEF Emptied, V!Dead, V!IsLive, CellOf
  <2>3. CASE Filled(slot[n])
    BY <2>3, Marks DEF Filled, V!Dead, V!IsLive, CellOf, V!Contents
  <2> QED
    BY <1>1, <2>1, <2>2, <2>3 DEF Good
<1> QED
  BY <1>1, <1>2, <1>3

(* A variant made in unused storage keeps the memory good. *)
LEMMA MadeIsGood ==
  ASSUME V!MarksDiffer, NEW mem, Good(mem), NEW n \in Places,
         mem.slots[n] = V!Dead,
         NEW s, s = V!Fresh \/ \E c \in V!Contents : s = V!Holding(c),
         NEW after, after = V!Made(mem, n, s)
  PROVE  /\ Good(after) /\ after.slots[n] = s /\ s # V!Dead
         /\ \A q \in Places \ {n} : after.slots[q] = mem.slots[q]
         /\ s = V!Fresh => CellOf(s) = Void
         /\ \A c \in V!Contents : s = V!Holding(c) => CellOf(s) = c
<1>1. /\ s \in [dtor : Dtors, obj : VariantObjects \cup {Raw}] /\ s # V!Dead
      /\ Emptied(s) \/ Filled(s)
  BY Marks DEF V!Fresh, V!Holding, Dtors, VariantObjects, V!Contents, Emptied, Filled, V!Dead
<1>2. /\ after \in Memories /\ after.slots[n] = s /\ after.lost = mem.lost
      /\ \A q \in Places \ {n} : after.slots[q] = mem.slots[q]
  BY <1>1, MadeSets DEF Good
<1>3. Good(after)
  BY <1>1, <1>2 DEF Good
<1>4. /\ s = V!Fresh => CellOf(s) = Void
      /\ \A c \in V!Contents : s = V!Holding(c) => CellOf(s) = c
  BY Marks DEF V!Fresh, V!Holding, CellOf, V!Contents
<1> QED
  BY <1>1, <1>2, <1>3, <1>4

(* So does destroying a variant, wherever it is. *)
LEMMA DestroyedIsGood ==
  ASSUME V!MarksDiffer, NEW mem, Good(mem), NEW n \in Places,
         mem.slots[n] # V!Dead,
         NEW after, after = V!Destroyed(mem, n)
  PROVE  /\ Good(after) /\ after.slots[n] = V!Dead
         /\ \A q \in Places \ {n} : after.slots[q] = mem.slots[q]
<1>1. mem \in Memories /\ mem.lost \subseteq {Husk}
  BY DEF Good
<1>2. /\ after \in Memories /\ after.slots[n] = V!Dead
      /\ mem.slots[n].dtor # Void => after.lost = mem.lost
      /\ after.lost \subseteq mem.lost \cup V!Left(mem.slots[n])
      /\ \A q \in Places \ {n} : after.slots[q] = mem.slots[q]
  BY <1>1, DestroyedSets
<1>3. after.lost \subseteq {Husk}
  <2>1. CASE Emptied(mem.slots[n])
    BY <1>1, <1>2, <2>1 DEF Emptied, V!Left, Husks
  <2>2. CASE Filled(mem.slots[n])
    BY <1>1, <1>2, <2>2, Marks DEF Filled, V!Contents
  <2> QED
    BY <2>1, <2>2 DEF Good
<1> QED
  BY <1>2, <1>3 DEF Good

-----------------------------------------------------------------------------
(* One lemma per operation: the memory stays good, and the cells change as   *)
(* ValueCells has them.                                                      *)
LEMMA VariantConstruct ==
  ASSUME V!MarksDiffer, VariantInv, NEW n \in VariantNames, NEW c \in V!Contents,
         V!Construct(n, c)
  PROVE  VariantInv' /\ V!Cells!Make(n, c)
<1> DEFINE after == V!Made(V!Memory, n, V!Holding(c))
<1>1. ~V!IsLive(n) /\ V!Becomes(after) /\ slot' = after.slots
  BY DEF V!Construct, V!Becomes
<1>2. n \in Places /\ n # "tmp" /\ n # "other" /\ V!Memory.slots[n] = V!Dead
  BY <1>1, Unfolded
<1>3. /\ Good(after) /\ after.slots[n] = V!Holding(c)
      /\ CellOf(V!Holding(c)) = c
      /\ \A q \in Places \ {n} : after.slots[q] = slot[q]
  BY <1>2, Unfolded, MadeIsGood
<1> HIDE DEF after
<1>4. NoTemporaries(after.slots)
  BY <1>2, <1>3, Unfolded DEF NoTemporaries
<1>5. VariantInv'
  BY <1>1, <1>3, <1>4, Becoming
<1>6. CellsOf(slot') = [CellsOf(slot) EXCEPT ![n] = c]
  <2>1. \A q \in VariantNames \ {n} : slot'[q] = slot[q]
    BY <1>1, <1>3, Unfolded
  <2> QED
    BY <1>1, <1>3, <2>1 DEF CellsOf
<1>7. CellOf(slot[n]) = Gone
  BY <1>1, <1>2, Unfolded
<1> QED
  BY <1>5, <1>6, <1>7 DEF V!Cells!Make, V!Cells!IsLive, CellsOf, CellOf

LEMMA MoveConstructStep ==
  ASSUME V!MarksDiffer, VariantInv, NEW n \in VariantNames, NEW m \in VariantNames,
         V!MoveConstruct(n, m)
  PROVE  VariantInv' /\ V!Cells!MakeFrom(n, m)
<1> DEFINE fresh == V!Made(V!Memory, n, V!Fresh)
           after == V!Swapped(fresh, n, m)
<1>1. ~V!IsLive(n) /\ V!IsLive(m) /\ V!Becomes(after) /\ slot' = after.slots
  BY DEF V!MoveConstruct, V!Becomes, V!Moved
<1>2. /\ n \in Places /\ n # "tmp" /\ n # "other" /\ V!Memory.slots[n] = V!Dead
      /\ m \in Places /\ m # "tmp" /\ m # "other" /\ slot[m] # V!Dead /\ n # m
  BY <1>1, Unfolded
<1>3. /\ Good(fresh) /\ fresh.slots[n] = V!Fresh /\ V!Fresh # V!Dead
      /\ CellOf(V!Fresh) = Void
      /\ \A q \in Places \ {n} : fresh.slots[q] = slot[q]
  BY <1>2, Unfolded, MadeIsGood
<1> HIDE DEF fresh
<1>4. /\ fresh.slots["tmp"] = V!Dead /\ fresh.slots["other"] = V!Dead
      /\ fresh.slots[m] = slot[m]
  BY <1>2, <1>3, Unfolded
<1>5. /\ Good(after) /\ after.slots["tmp"] = V!Dead
      /\ CellOf(after.slots[n]) = CellOf(slot[m])
      /\ CellOf(after.slots[m]) = Void
      /\ \A q \in Places \ {n, m} : after.slots[q] = fresh.slots[q]
  BY <1>2, <1>3, <1>4, SwapExchanges
<1> HIDE DEF after
<1>6. NoTemporaries(after.slots)
  BY <1>2, <1>4, <1>5, Unfolded DEF NoTemporaries
<1>7. VariantInv'
  BY <1>1, <1>5, <1>6, Becoming
<1>8. CellsOf(slot') = [CellsOf(slot) EXCEPT ![n] = CellOf(slot[m]),
                                             ![m] = Void]
  <2>1. \A q \in VariantNames \ {n, m} : slot'[q] = slot[q]
    BY <1>1, <1>3, <1>5, Unfolded
  <2> QED
    BY <1>1, <1>2, <1>5, <2>1 DEF CellsOf
<1>9. CellOf(slot[n]) = Gone /\ CellOf(slot[m]) # Gone
  BY <1>1, <1>2, Unfolded
<1> QED
  BY <1>7, <1>8, <1>9 DEF V!Cells!MakeFrom, V!Cells!IsLive, CellsOf, CellOf

LEMMA SwapStep ==
  ASSUME V!MarksDiffer, VariantInv, NEW n \in VariantNames, NEW m \in VariantNames, V!Swap(n, m)
  PROVE  VariantInv' /\ V!Cells!Exchange(n, m)
<1> DEFINE after == V!Swapped(V!Memory, n, m)
<1>1. V!IsLive(n) /\ V!IsLive(m) /\ V!Becomes(after) /\ slot' = after.slots
  BY DEF V!Swap, V!Becomes
<1>2. /\ n \in Places /\ n # "tmp" /\ n # "other" /\ slot[n] # V!Dead
      /\ m \in Places /\ m # "tmp" /\ m # "other" /\ slot[m] # V!Dead
  BY <1>1, Unfolded
<1>3. /\ Good(after) /\ after.slots["tmp"] = V!Dead
      /\ CellOf(after.slots[n]) = CellOf(slot[m])
      /\ CellOf(after.slots[m]) = CellOf(slot[n])
      /\ \A q \in Places \ {n, m} : after.slots[q] = slot[q]
  BY <1>2, Unfolded, SwapExchanges
<1> HIDE DEF after
<1>4. NoTemporaries(after.slots)
  BY <1>2, <1>3, Unfolded DEF NoTemporaries
<1>5. VariantInv'
  BY <1>1, <1>3, <1>4, Becoming
<1>6. CellsOf(slot') = [CellsOf(slot) EXCEPT ![n] = CellOf(slot[m]),
                                             ![m] = CellOf(slot[n])]
  <2>1. \A q \in VariantNames \ {n, m} : slot'[q] = slot[q]
    BY <1>1, <1>3, Unfolded
  <2> QED
    BY <1>1, <1>2, <1>3, <2>1 DEF CellsOf
<1>7. CellOf(slot[n]) # Gone /\ CellOf(slot[m]) # Gone
  BY <1>1, <1>2, Unfolded
<1> QED
  BY <1>5, <1>6, <1>7 DEF V!Cells!Exchange, V!Cells!IsLive, CellsOf, CellOf

LEMMA DestroyStep ==
  ASSUME V!MarksDiffer, VariantInv, NEW n \in VariantNames, V!Destroy(n)
  PROVE  VariantInv' /\ V!Cells!Drop(n)
<1> DEFINE after == V!Destroyed(V!Memory, n)
<1>1. V!IsLive(n) /\ V!Becomes(after) /\ slot' = after.slots
  BY DEF V!Destroy, V!Becomes
<1>2. n \in Places /\ n # "tmp" /\ n # "other" /\ V!Memory.slots[n] # V!Dead
  BY <1>1, Unfolded
<1>3. /\ Good(after) /\ after.slots[n] = V!Dead
      /\ \A q \in Places \ {n} : after.slots[q] = slot[q]
  BY <1>2, Unfolded, DestroyedIsGood
<1> HIDE DEF after
<1>4. NoTemporaries(after.slots)
  BY <1>2, <1>3, Unfolded DEF NoTemporaries
<1>5. VariantInv'
  BY <1>1, <1>3, <1>4, Becoming
<1>6. CellsOf(slot') = [CellsOf(slot) EXCEPT ![n] = Gone]
  <2>1. CellOf(V!Dead) = Gone
    BY DEF CellOf, V!Dead
  <2>2. \A q \in VariantNames \ {n} : slot'[q] = slot[q]
    BY <1>1, <1>3, Unfolded
  <2> QED
    BY <1>1, <1>3, <2>1, <2>2 DEF CellsOf
<1>7. CellOf(slot[n]) # Gone
  BY <1>1, <1>2, Unfolded
<1> QED
  BY <1>5, <1>6, <1>7 DEF V!Cells!Drop, V!Cells!IsLive, CellsOf, CellOf

(* operator=: the variable swaps with `other`, and its old value goes. *)
LEMMA AssignFromSets ==
  ASSUME V!MarksDiffer, NEW mem, Good(mem), NEW n \in VariantNames,
         mem.slots["tmp"] = V!Dead, mem.slots["other"] # V!Dead,
         mem.slots[n] # V!Dead, V!AssignFrom(mem, n)
  PROVE  /\ VariantInv' /\ CellOf(slot'[n]) = CellOf(mem.slots["other"])
         /\ \A q \in VariantNames \ {n} : slot'[q] = mem.slots[q]
<1> DEFINE swapped == V!Swapped(mem, n, "other")
           after == V!Destroyed(swapped, "other")
<1>1. V!Becomes(after) /\ slot' = after.slots
  BY DEF V!AssignFrom, V!Becomes
<1>2. /\ "tmp" \in Places /\ "other" \in Places /\ "tmp" # "other"
      /\ n \in Places /\ n # "tmp" /\ n # "other"
      /\ \A q \in VariantNames : q \in Places /\ q # "tmp" /\ q # "other"
  BY Marks DEF Places, V!Temporaries
<1>3. /\ Good(swapped) /\ swapped.slots["tmp"] = V!Dead
      /\ swapped.slots["other"] # V!Dead
      /\ CellOf(swapped.slots[n]) = CellOf(mem.slots["other"])
      /\ \A q \in Places \ {n, "other"} : swapped.slots[q] = mem.slots[q]
  BY <1>2, SwapExchanges
<1> HIDE DEF swapped
<1>4. /\ Good(after) /\ after.slots["other"] = V!Dead
      /\ \A q \in Places \ {"other"} : after.slots[q] = swapped.slots[q]
  BY <1>2, <1>3, DestroyedIsGood
<1> HIDE DEF after
<1>5. NoTemporaries(after.slots)
  BY <1>2, <1>3, <1>4 DEF NoTemporaries
<1>6. VariantInv'
  BY <1>1, <1>4, <1>5, Becoming
<1> QED
  BY <1>1, <1>2, <1>3, <1>4, <1>6

LEMMA AssignValueStep ==
  ASSUME V!MarksDiffer, VariantInv, NEW n \in VariantNames, NEW c \in V!Contents,
         V!AssignValue(n, c)
  PROVE  VariantInv' /\ V!Cells!Assign(n, c)
<1> DEFINE fresh == V!Made(V!Memory, "other", V!Holding(c))
<1>1. V!IsLive(n) /\ V!AssignFrom(fresh, n)
  BY DEF V!AssignValue
<1>2. /\ n \in Places /\ n # "tmp" /\ n # "other" /\ slot[n] # V!Dead
      /\ "other" \in Places /\ V!Memory.slots["other"] = V!Dead
  BY <1>1, Unfolded
<1>3. /\ Good(fresh) /\ fresh.slots["other"] = V!Holding(c) /\ V!Holding(c) # V!Dead
      /\ CellOf(V!Holding(c)) = c
      /\ \A q \in Places \ {"other"} : fresh.slots[q] = slot[q]
  BY <1>2, Unfolded, MadeIsGood
<1> HIDE DEF fresh
<1>4. fresh.slots["tmp"] = V!Dead /\ fresh.slots[n] # V!Dead
  BY <1>2, <1>3, Unfolded
<1>5. /\ VariantInv' /\ CellOf(slot'[n]) = c
      /\ \A q \in VariantNames \ {n} : slot'[q] = fresh.slots[q]
  BY <1>1, <1>3, <1>4, AssignFromSets
<1>6. CellsOf(slot') = [CellsOf(slot) EXCEPT ![n] = c]
  <2>1. \A q \in VariantNames \ {n} : slot'[q] = slot[q]
    BY <1>3, <1>5, Unfolded
  <2> QED
    BY <1>5, <2>1 DEF CellsOf
<1>7. CellOf(slot[n]) # Gone
  BY <1>1, <1>2, Unfolded
<1> QED
  BY <1>5, <1>6, <1>7 DEF V!Cells!Assign, V!Cells!IsLive, CellsOf, CellOf

LEMMA AssignVariantStep ==
  ASSUME V!MarksDiffer, VariantInv, NEW n \in VariantNames, NEW m \in VariantNames,
         V!AssignVariant(n, m)
  PROVE  VariantInv' /\ V!Cells!Take(n, m)
<1> DEFINE fresh == V!Made(V!Memory, "other", V!Fresh)
           taken == V!Swapped(fresh, "other", m)
<1>1. V!IsLive(n) /\ V!IsLive(m) /\ V!AssignFrom(taken, n)
  BY DEF V!AssignVariant, V!Moved
<1>2. /\ n \in Places /\ n # "tmp" /\ n # "other" /\ slot[n] # V!Dead
      /\ m \in Places /\ m # "tmp" /\ m # "other" /\ slot[m] # V!Dead
      /\ "other" \in Places /\ "other" # "tmp"
      /\ V!Memory.slots["other"] = V!Dead
  BY <1>1, Unfolded
<1>3. /\ Good(fresh) /\ fresh.slots["other"] = V!Fresh /\ V!Fresh # V!Dead
      /\ CellOf(V!Fresh) = Void
      /\ \A q \in Places \ {"other"} : fresh.slots[q] = slot[q]
  BY <1>2, Unfolded, MadeIsGood
<1> HIDE DEF fresh
<1>4. fresh.slots["tmp"] = V!Dead /\ fresh.slots[m] = slot[m]
  BY <1>2, <1>3, Unfolded
<1>5. /\ Good(taken) /\ taken.slots["tmp"] = V!Dead
      /\ taken.slots["other"] # V!Dead /\ taken.slots[m] # V!Dead
      /\ CellOf(taken.slots["other"]) = CellOf(slot[m])
      /\ CellOf(taken.slots[m]) = Void
      /\ \A q \in Places \ {"other", m} : taken.slots[q] = fresh.slots[q]
  BY <1>2, <1>3, <1>4, SwapExchanges
<1> HIDE DEF taken
<1>6. \A q \in VariantNames \ {m} : taken.slots[q] = slot[q]
  BY <1>3, <1>5, Unfolded
<1>7. taken.slots[n] # V!Dead
  BY <1>2, <1>5, <1>6
<1>8. /\ VariantInv' /\ CellOf(slot'[n]) = CellOf(slot[m])
      /\ \A q \in VariantNames \ {n} : slot'[q] = taken.slots[q]
  BY <1>1, <1>5, <1>7, AssignFromSets
<1>9. CellsOf(slot') = IF n = m THEN CellsOf(slot)
                       ELSE [CellsOf(slot) EXCEPT ![n] = CellOf(slot[m]),
                                                  ![m] = Void]
  <2>1. \A q \in VariantNames \ {n, m} : slot'[q] = slot[q]
    BY <1>6, <1>8
  <2>2. n # m => CellOf(slot'[m]) = Void
    BY <1>5, <1>8
  <2> QED
    BY <1>8, <2>1, <2>2 DEF CellsOf
<1>10. CellOf(slot[n]) # Gone /\ CellOf(slot[m]) # Gone
  BY <1>1, <1>2, Unfolded
<1> QED
  BY <1>8, <1>9, <1>10 DEF V!Cells!Take, V!Cells!IsLive, CellsOf, CellOf

(* A visitor writes through the reference apply() finds. *)
LEMMA VisitStep ==
  ASSUME V!MarksDiffer, VariantInv, NEW n \in VariantNames, NEW x \in Values, V!Visit(n, x)
  PROVE  VariantInv' /\ \E c \in V!Contents : V!Cells!Write(n, c)
<1> DEFINE set == [slot EXCEPT ![n].obj.val = x]
           after == [V!Memory EXCEPT !.slots[n].obj.val = x]
<1>1. V!IsLive(n) /\ slot[n].dtor # Void /\ V!Becomes(after)
  BY DEF V!Visit, V!Visited
<1>2. after = [slots |-> set, lost |-> abandoned]
  BY DEF V!Memory
<1>3. n \in Places /\ n # "tmp" /\ n # "other" /\ Filled(slot[n])
  BY <1>1, Unfolded DEF Good, Emptied
<1>4. slot \in [Places -> [dtor : Dtors, obj : VariantObjects \cup {Raw}]]
  BY Unfolded DEF Good, Memories
<1>5. PICK c \in V!Contents : c = [type |-> slot[n].obj.type, val |-> x]
  BY <1>3 DEF Filled, V!Contents
<1>6. /\ set[n] = [dtor |-> slot[n].dtor, obj |-> c]
      /\ \A q \in Places \ {n} : set[q] = slot[q]
      /\ set = [q \in Places |-> set[q]]
  BY <1>3, <1>4, <1>5 DEF Filled, V!Contents
<1> HIDE DEF set
<1>7. set \in [Places -> [dtor : Dtors, obj : VariantObjects \cup {Raw}]]
  BY <1>3, <1>4, <1>5, <1>6 DEF V!Contents, VariantObjects
<1>8. after.slots = set /\ after.lost = abandoned
  BY <1>2
<1>9. after \in Memories
  BY <1>2, <1>7, Unfolded DEF Good, Memories
<1>10. Filled(set[n])
  BY <1>3, <1>5, <1>6 DEF Filled
<1> HIDE DEF after
<1>11. Good(after)
  BY <1>3, <1>6, <1>8, <1>9, <1>10, Unfolded DEF Good
<1>12. NoTemporaries(after.slots)
  BY <1>3, <1>6, <1>8, Unfolded DEF NoTemporaries
<1>13. VariantInv'
  BY <1>1, <1>11, <1>12, Becoming
<1>14. /\ CellOf(slot[n]) = slot[n].obj /\ slot[n].obj \in V!Contents
       /\ CellOf(set[n]) = c
  BY <1>3, <1>5, <1>6, Marks DEF CellOf, Filled, V!Contents
<1>15. CellsOf(slot') = [CellsOf(slot) EXCEPT ![n] = c]
  <2>1. slot' = set
    BY <1>1, <1>8 DEF V!Becomes
  <2>2. \A q \in VariantNames \ {n} : set[q] = slot[q]
    BY <1>6, Unfolded
  <2> QED
    BY <1>14, <2>1, <2>2 DEF CellsOf
<1>16. V!Cells!Write(n, c)
  BY <1>14, <1>15 DEF V!Cells!Write, CellsOf, CellOf
<1> QED
  BY <1>13, <1>16

LEMMA VariantInit ==
  ASSUME V!MarksDiffer, V!Init
  PROVE  VariantInv /\ V!Cells!Init
<1>1. V!Memory = [slots |-> [q \in Places |-> V!Dead], lost |-> {}]
  BY DEF V!Memory, V!Init, Places
<1>2. V!Dead \in [dtor : Dtors, obj : VariantObjects \cup {Raw}]
  BY DEF V!Dead, Dtors
<1>3. V!Memory \in Memories
  BY <1>1, <1>2 DEF Memories
<1>4. VariantInv
  BY <1>1, <1>3 DEF VariantInv, Good, NoTemporaries, V!Init, Places, V!Temporaries
<1>5. \A n \in VariantNames : slot[n] = V!Dead /\ V!Dead.dtor = Gone
  BY DEF V!Init, V!Dead
<1> QED
  BY <1>4, <1>5 DEF V!Cells!Init

(* The refinement mapping of ImplementsCells. *)
cells == [n \in VariantNames |-> IF slot[n].dtor \in {Gone, Void}
                         THEN slot[n].dtor ELSE slot[n].obj]

LEMMA VariantNext ==
  ASSUME V!MarksDiffer, VariantInv, [V!Next]_variantVars
  PROVE  VariantInv' /\ [V!Cells!Next]_cells
<1>1. CASE UNCHANGED variantVars
  BY <1>1 DEF variantVars, VariantInv, V!Memory, cells
<1>2. CASE V!Next
  <2> PICK n \in VariantNames :
         \/ V!Destroy(n)
         \/ \E x \in Values : V!Visit(n, x)
         \/ \E c \in V!Contents : V!Construct(n, c) \/ V!AssignValue(n, c)
         \/ \E m \in VariantNames :
                V!MoveConstruct(n, m) \/ V!AssignVariant(n, m) \/ V!Swap(n, m)
    BY <1>2 DEF V!Next
  <2>1. CASE V!Destroy(n)
    BY <2>1, DestroyStep DEF V!Cells!Next
  <2>2. CASE \E x \in Values : V!Visit(n, x)
    BY <2>2, VisitStep DEF V!Cells!Next
  <2>3. CASE \E c \in V!Contents : V!Construct(n, c)
    BY <2>3, VariantConstruct DEF V!Cells!Next
  <2>4. CASE \E c \in V!Contents : V!AssignValue(n, c)
    BY <2>4, AssignValueStep DEF V!Cells!Next
  <2>5. CASE \E m \in VariantNames : V!MoveConstruct(n, m)
    BY <2>5, MoveConstructStep DEF V!Cells!Next
  <2>6. CASE \E m \in VariantNames : V!AssignVariant(n, m)
    BY <2>6, AssignVariantStep DEF V!Cells!Next
  <2>7. CASE \E m \in VariantNames : V!Swap(n, m)
    BY <2>7, SwapStep DEF V!Cells!Next
  <2> QED
    BY <2>1, <2>2, <2>3, <2>4, <2>5, <2>6, <2>7
<1> QED
  BY <1>1, <1>2
-----------------------------------------------------------------------------
(* DestructorFits: however variants are made, moved, swapped, assigned and   *)
(* written through, whatever their types, the destructor pointer fits the    *)
(* object, and no value is overwritten or left without its destructor.       *)
THEOREM VariantFits == V!Spec => []V!DestructorFits
<1>1. V!Init => VariantInv
  BY DistinctAssumption, VariantInit
<1>2. VariantInv /\ [V!Next]_variantVars => VariantInv'
  BY DistinctAssumption, VariantNext
<1>3. VariantInv => V!DestructorFits
  BY DistinctAssumption, Unfolded, Marks DEF V!DestructorFits, Good, V!Dead, Emptied, Filled
<1> QED
  BY <1>1, <1>2, <1>3, PTL DEF V!Spec, V!vars, variantVars

(* ImplementsCells: every behaviour of variants is one of the cells their    *)
(* users think of; all moves are between variants, and each empties its      *)
(* source.                                                                   *)
THEOREM VariantRefines == V!Spec => V!ImplementsCells
<1>1. V!Init => VariantInv /\ V!Cells!Init
  BY DistinctAssumption, VariantInit
<1>2. VariantInv /\ [V!Next]_variantVars => VariantInv' /\ [V!Cells!Next]_cells
  BY DistinctAssumption, VariantNext
<1> QED
  BY <1>1, <1>2, PTL DEF V!Spec, V!vars, variantVars, V!ImplementsCells, V!Cells!Spec, cells
-----------------------------------------------------------------------------
(* A behaviour of the classes side by side is one of each class.             *)
LEMMA EachByItself ==
  /\ [UtilitiesNext]_allVars => [V!Next]_variantVars
  /\ [UtilitiesNext]_allVars => [W!Next]_versions
  /\ [UtilitiesNext]_allVars => [L!Next]_logVars
  /\ [UtilitiesNext]_allVars => [G!Next]_loggerVars
  /\ [UtilitiesNext]_allVars => [P!Next]_pack
  /\ [UtilitiesNext]_allVars => [O!Next]_globalVars
BY DEF UtilitiesNext, allVars, variantVars, logVars, loggerVars, globalVars

(* DestructorFits and ImplementsCells of variants among the others. *)
THEOREM VariantsFit == UtilitiesSpec => []DestructorFits
<1>1. UtilitiesInit => V!Init
  BY DEF UtilitiesInit
<1>2. UtilitiesSpec => V!Spec
  BY <1>1, EachByItself, PTL
  DEF UtilitiesSpec, V!Spec, V!vars, variantVars
<1> QED
  BY <1>2, VariantFits, PTL DEF DestructorFits

THEOREM VariantsImplementCells == UtilitiesSpec => ImplementsCells
<1>1. UtilitiesInit => V!Init
  BY DEF UtilitiesInit
<1>2. UtilitiesSpec => V!Spec
  BY <1>1, EachByItself, PTL
  DEF UtilitiesSpec, V!Spec, V!vars, variantVars
<1> QED
  BY <1>2, VariantRefines, PTL DEF ImplementsCells
-----------------------------------------------------------------------------
(* A non-empty set of numbers has a smallest. *)
LEMMA Smallest ==
    ASSUME NEW S \in SUBSET Nat, S # {}
    PROVE  \E m \in S : \A k \in S : m <= k
<1>1. IsWellFoundedOn(OpToRel(<, Nat), Nat)
  BY NatLessThanWellFounded, Zenon
<1>2. PICK m \in S : \A k \in S : ~(<<k, m>> \in OpToRel(<, Nat))
  BY <1>1, WFMin, Zenon
<1>3. \A k \in S : ~(k < m)
  BY <1>2 DEF OpToRel
<1> QED
  BY <1>3

LEMMA Largest ==
    ASSUME NEW b \in Nat, NEW S \in SUBSET (0..b), S # {}
    PROVE  \E m \in S : \A k \in S : k <= m
<1> DEFINE R == {k \in 0..b : b - k \in S}
<1>1. R \in SUBSET Nat /\ R # {}
  <2>1. PICK m \in S : TRUE
    OBVIOUS
  <2>2. b - m \in 0..b /\ b - (b - m) = m
    OBVIOUS
  <2>3. b - m \in R
    BY <2>1, <2>2
  <2>4. R \in SUBSET Nat
    OBVIOUS
  <2> HIDE DEF R
  <2> QED
    BY <2>3, <2>4
<1> HIDE DEF R
<1>2. PICK r \in R : \A k \in R : r <= k
  BY <1>1, Smallest
<1>3. b - r \in S /\ r \in 0..b
  BY <1>2 DEF R
<1>4. ASSUME NEW k \in S PROVE k <= b - r
  <2>1. b - k \in 0..b /\ b - (b - k) = k
    OBVIOUS
  <2>2. b - k \in R
    BY <2>1 DEF R
  <2>3. r <= b - k
    BY <1>2, <2>2
  <2> QED
    BY <1>3, <2>3
<1> QED
  BY <1>3, <1>4

(* What a Version holds, whatever was parsed.                                *)
UnsignedId == [kind : {0}, rank : 0..MaxRank]
Id == UnsignedId \cup [kind : {1}, rank : 0..(2 * MaxRank + 1)]
BuildId == {l \in W!Lexeme : l.shape \in W!IsIdentifier}
VersionData ==
    [numbers : Seq(UnsignedId),
     pre : {<<>>} \cup {<<q>> : q \in Seq(Id) \ {<<>>}},
     build : {<<>>} \cup {<<q>> : q \in Seq(BuildId) \ {<<>>}}]
VersionInv == versions \in [VersionNames -> VersionData]

LEMMA Ranks == MaxRank \in Nat
BY DistinctAssumption DEF W!TextsFit

(* `element % '.'` takes a first part of the list, of matching elements.     *)
LEMMA ListTakes ==
    ASSUME NEW list \in Seq(W!Lexeme), NEW matching, NEW leaving
    PROVE  LET l == W!List(list, matching, leaving) IN
           /\ l.taken \in Seq({x \in W!Lexeme : x.shape \in matching})
           /\ l.matched <=> l.taken # <<>>
<1> DEFINE Ends(n) == \/ n = Len(list) \/ list[n + 1].shape \notin matching
                      \/ n > 0 /\ list[n].shape \in leaving
           good == {x \in W!Lexeme : x.shape \in matching}
           Stops(n) == Ends(n) /\ \A k \in 0..(n - 1) : ~Ends(k)
           n == CHOOSE n \in 0..Len(list) : Stops(n)
           taken == SubSeq(list, 1, n)
<1>0. Len(list) \in Nat
  OBVIOUS
<1>1. n \in 0..Len(list) /\ Stops(n)
  <2> DEFINE all == {k \in 0..Len(list) : Ends(k)}
  <2>1. Len(list) \in all
    BY <1>0
  <2>2. PICK m \in all : \A k \in all : m <= k
    <3>1. all \in SUBSET Nat /\ all # {}
      BY <2>1
    <3> HIDE DEF all
    <3> QED
      BY <3>1, Smallest
  <2> HIDE DEF Ends
  <2>3. m \in 0..Len(list) /\ Stops(m)
    BY <1>0, <2>2
  <2> HIDE DEF Stops
  <2> QED
    BY <2>3
<1>2. \A k \in 1..n : list[k].shape \in matching
  <2> TAKE k \in 1..n
  <2>1. k - 1 \in 0..(n - 1) /\ (k - 1) + 1 = k
    BY <1>0, <1>1
  <2>2. ~Ends(k - 1)
    BY <1>1, <2>1
  <2> QED
    BY <2>1, <2>2
<1>3. W!List(list, matching, leaving) =
         [taken |-> taken, matched |-> n > 0,
          all |-> n > 0 /\ n = Len(list) /\ list[n].shape \notin leaving]
  BY DEF W!List
<1> HIDE DEF n
<1>4. taken \in Seq(good) /\ Len(taken) = n
  <2>1. \A k \in 1..n : list[k] \in good
    BY <1>0, <1>1, <1>2
  <2>2. Len(taken) = n /\ \A k \in 1..n : taken[k] = list[k]
    BY <1>0, <1>1
  <2>3. taken = [k \in 1..n |-> list[k]]
    BY <1>0, <1>1
  <2> HIDE DEF taken, good
  <2> QED
    BY <1>0, <1>1, <2>1, <2>2, <2>3
<1>5. n > 0 <=> taken # <<>>
  <2> HIDE DEF taken
  <2> QED
    BY <1>0, <1>1, <1>4
<1>6. /\ W!List(list, matching, leaving).taken = taken
      /\ W!List(list, matching, leaving).matched <=> n > 0
  <2> DEFINE all == n > 0 /\ n = Len(list) /\ list[n].shape \notin leaving
             matched == n > 0
  <2>1. W!List(list, matching, leaving) =
           [taken |-> taken, matched |-> matched, all |-> all]
    BY <1>3
  <2> HIDE DEF taken, all, matched
  <2>2. /\ W!List(list, matching, leaving).taken = taken
        /\ W!List(list, matching, leaving).matched = matched
    BY <2>1
  <2> QED
    BY <2>2 DEF matched
<1> HIDE DEF taken
<1> QED
  BY <1>4, <1>5, <1>6

(* Whatever the text, what is parsed of it is data of a Version.             *)
LEMMA ParsedIsData ==
    ASSUME NEW t, t.numbers \in Seq(W!Lexeme), W!Optional(t.pre), W!Optional(t.build)
    PROVE  W!Parsed(t).data \in VersionData
<1> DEFINE n == W!Numbers(t.numbers)
           ids == W!Identifiers(t.pre[1])
           b == W!BuildMetadata(t.build[1])
           hasPre == n.all /\ t.pre # <<>> /\ ids.matched
           preDone == n.all /\ (t.pre # <<>> => ids.all)
           hasBuild == preDone /\ t.build # <<>> /\ b.matched
           numbers == W!Each(n.taken, W!Unsigned)
           pre == W!Each(ids.taken, W!PreRelease)
<1>1. W!Parsed(t).data = [numbers |-> numbers,
                          pre |-> IF hasPre THEN <<pre>> ELSE <<>>,
                          build |-> IF hasBuild THEN <<b.taken>> ELSE <<>>]
  BY DEF W!Parsed
<1>2. \A x \in W!Lexeme : W!Unsigned(x) \in UnsignedId /\ W!PreRelease(x) \in Id
  BY Ranks DEF W!Lexeme, W!Unsigned, W!PreRelease, W!String, UnsignedId, Id
<1>3. numbers \in Seq(UnsignedId)
  <2>1. n.taken \in Seq({x \in W!Lexeme : x.shape \in W!StartsUint})
    BY ListTakes DEF W!Numbers
  <2>2. \A i \in DOMAIN n.taken : n.taken[i] \in W!Lexeme
    BY <2>1
  <2> HIDE DEF n
  <2> QED
    BY <1>2, <2>1, <2>2 DEF W!Each
<1>4. ASSUME hasPre PROVE pre \in Seq(Id) \ {<<>>}
  <2>1. t.pre[1] \in Seq(W!Lexeme)
    BY <1>4 DEF W!Optional
  <2>2. /\ ids.taken \in Seq({x \in W!Lexeme : x.shape \in W!IsIdentifier})
        /\ ids.taken # <<>>
    BY <1>4, <2>1, ListTakes DEF W!Identifiers
  <2>3. \A i \in DOMAIN ids.taken : ids.taken[i] \in W!Lexeme
    BY <2>2
  <2> HIDE DEF ids
  <2>4. pre \in Seq(Id) /\ DOMAIN pre = DOMAIN ids.taken
    BY <1>2, <2>2, <2>3 DEF W!Each
  <2> HIDE DEF pre
  <2> QED
    BY <2>2, <2>4
<1>5. ASSUME hasBuild PROVE b.taken \in Seq(BuildId) \ {<<>>}
  <2>1. t.build[1] \in Seq(W!Lexeme)
    BY <1>5 DEF W!Optional
  <2> QED
    BY <1>5, <2>1, ListTakes DEF W!BuildMetadata, BuildId
<1> HIDE DEF numbers, pre, hasPre, hasBuild, b
<1> QED
  BY <1>1, <1>3, <1>4, <1>5 DEF VersionData

LEMMA VersionStep ==
    ASSUME VersionInv, [W!Next]_versions
    PROVE  VersionInv'
<1>1. ASSUME NEW n \in VersionNames, NEW t \in Texts, W!Parse(n, t)
      PROVE  VersionInv'
  <2>1. W!Parsed(t).data \in VersionData
    BY DistinctAssumption, ParsedIsData DEF W!TextsFit
  <2> QED
    BY <1>1, <2>1 DEF W!Parse, VersionInv
<1> QED
  BY <1>1 DEF W!Next, VersionInv

LEMMA VersionInit == W!Init => VersionInv
<1>1. <<>> \in Seq(UnsignedId)
  OBVIOUS
<1>2. W!NoData \in VersionData
  BY <1>1 DEF W!NoData, VersionData
<1> QED
  BY <1>2 DEF W!Init, VersionInv

(* The key of a list: places, and an end.                                    *)
Terminated(s) == W!Each(s, W!Place) \o <<0>>

LEMMA PlacesOrder ==
    ASSUME NEW x \in Id, NEW y \in Id
    PROVE  /\ W!Place(x) \in Nat /\ 0 < W!Place(x) /\ W!Place(x) < W!Release
           /\ W!IdLess(x, y) <=> W!Place(x) < W!Place(y)
           /\ W!Place(x) = W!Place(y) => x = y
<1>1. /\ x.kind \in {0, 1} /\ x.rank \in 0..(2 * MaxRank + 1)
      /\ x.kind = 0 => x.rank <= MaxRank
      /\ y.kind \in {0, 1} /\ y.rank \in 0..(2 * MaxRank + 1)
      /\ y.kind = 0 => y.rank <= MaxRank
      /\ x = [kind |-> x.kind, rank |-> x.rank]
      /\ y = [kind |-> y.kind, rank |-> y.rank]
  BY Ranks DEF Id, UnsignedId
<1>2. /\ W!Place(x) = 1 + x.rank + IF x.kind = 0 THEN 0 ELSE MaxRank + 1
      /\ W!Place(y) = 1 + y.rank + IF y.kind = 0 THEN 0 ELSE MaxRank + 1
  BY <1>1, Ranks DEF W!Place
<1>3. W!Release = 4 * MaxRank + 10
  BY DEF W!Release
<1>4. W!IdLess(x, y) <=> x.kind < y.kind \/ (x.kind = y.kind /\ x.rank < y.rank)
  BY DEF W!IdLess
<1> DEFINE k == x.kind
           l == y.kind
           r == x.rank
           q == y.rank
<1>5. W!Place(x) = W!Place(y) => k = l /\ r = q
  BY <1>1, <1>2, Ranks
<1>6. k = l /\ r = q => x = y
  BY <1>1
<1>7. /\ W!Place(x) \in Nat /\ 0 < W!Place(x) /\ W!Place(x) < W!Release
      /\ (k < l \/ (k = l /\ r < q)) <=> W!Place(x) < W!Place(y)
  BY <1>1, <1>2, <1>3, Ranks
<1> QED
  BY <1>4, <1>5, <1>6, <1>7

LEMMA TerminatedAt ==
    ASSUME NEW s \in Seq(Id)
    PROVE  /\ Terminated(s) \in Seq(Nat) /\ Len(s) \in Nat
           /\ Len(Terminated(s)) = Len(s) + 1
           /\ DOMAIN Terminated(s) = 1..(Len(s) + 1)
           /\ \A i \in 1..Len(s) : s[i] \in Id /\ Terminated(s)[i] = W!Place(s[i])
           /\ Terminated(s)[Len(s) + 1] = 0
<1> DEFINE e == W!Each(s, W!Place)
<1>1. Len(s) \in Nat /\ DOMAIN s = 1..Len(s) /\ \A i \in 1..Len(s) : s[i] \in Id
  BY LenProperties
<1>2. e = [i \in 1..Len(s) |-> W!Place(s[i])]
  BY <1>1 DEF W!Each
<1>3. \A i \in 1..Len(s) : W!Place(s[i]) \in Nat
  BY <1>1, PlacesOrder
<1> HIDE DEF e
<1>4. e \in Seq(Nat) /\ Len(e) = Len(s)
  BY <1>1, <1>2, <1>3
<1>5. <<0>> \in Seq(Nat) /\ Len(<<0>>) = 1
  OBVIOUS
<1>6. /\ e \o <<0>> \in Seq(Nat) /\ Len(e \o <<0>>) = Len(s) + 1
      /\ \A i \in 1..Len(s) : (e \o <<0>>)[i] = e[i]
      /\ (e \o <<0>>)[Len(s) + 1] = 0
  BY <1>1, <1>4, <1>5
<1>7. Terminated(s) = e \o <<0>>
  BY DEF Terminated, e
<1> QED
  BY <1>1, <1>2, <1>6, <1>7

(* Two lists that differ do so before either's end, or at it.                *)
LEMMA TerminatedDiffer ==
    ASSUME NEW s \in Seq(Id), NEW t \in Seq(Id), s # t
    PROVE  \E i \in 1..Len(Terminated(s)) \cap 1..Len(Terminated(t)) :
               Terminated(s)[i] # Terminated(t)[i]
<1> SUFFICES ASSUME \A i \in 1..Len(Terminated(s)) \cap 1..Len(Terminated(t)) :
                        Terminated(s)[i] = Terminated(t)[i]
             PROVE  FALSE
  OBVIOUS
<1> DEFINE m == Len(s)
           n == Len(t)
<1>1. /\ m \in Nat /\ n \in Nat
      /\ \A i \in 1..m : s[i] \in Id /\ Terminated(s)[i] = W!Place(s[i])
      /\ \A i \in 1..n : t[i] \in Id /\ Terminated(t)[i] = W!Place(t[i])
      /\ Terminated(s)[m + 1] = 0 /\ Terminated(t)[n + 1] = 0
      /\ \A i \in 1..(m + 1) \cap 1..(n + 1) : Terminated(s)[i] = Terminated(t)[i]
  BY TerminatedAt
<1> HIDE DEF m, n
<1>2. /\ \A i \in 1..m : Terminated(s)[i] # 0
      /\ \A i \in 1..n : Terminated(t)[i] # 0
  <2>1. \A x \in Id : W!Place(x) # 0
    BY PlacesOrder
  <2> QED
    BY <1>1, <2>1
<1>3. m = n
  <2>1. CASE m < n
    <3>1. m + 1 \in 1..(m + 1) \cap 1..(n + 1) /\ m + 1 \in 1..n
      BY <1>1, <2>1
    <3> QED
      BY <1>1, <1>2, <3>1
  <2>2. CASE n < m
    <3>1. n + 1 \in 1..(m + 1) \cap 1..(n + 1) /\ n + 1 \in 1..m
      BY <1>1, <2>2
    <3> QED
      BY <1>1, <1>2, <3>1
  <2> QED
    BY <1>1, <2>1, <2>2
<1>4. ASSUME NEW i \in 1..m PROVE s[i] = t[i]
  <2>1. W!Place(s[i]) = W!Place(t[i]) /\ s[i] \in Id /\ t[i] \in Id
    BY <1>1, <1>3
  <2> QED
    BY <2>1, PlacesOrder
<1> QED
  BY <1>3, <1>4, SeqEqual DEF m, n

LEMMA Earlier ==
    ASSUME NEW n \in Nat, NEW i \in 1..n
    PROVE  \A j \in 1..(i - 1) : j \in 1..n
OBVIOUS

(* What follows a difference does not count.                                 *)
LEMMA PrecedesBefore ==
    ASSUME NEW u \in Seq(Nat), NEW v \in Seq(Nat), NEW x \in Seq(Nat), NEW y \in Seq(Nat),
           NEW d \in 1..Len(u) \cap 1..Len(v), u[d] # v[d]
    PROVE  /\ W!Precedes(u \o x, v \o y) <=> W!Precedes(u, v)
           /\ u \o x # v \o y
<1>1. /\ Len(u) \in Nat /\ Len(v) \in Nat
      /\ DOMAIN u = 1..Len(u) /\ DOMAIN v = 1..Len(v)
      /\ DOMAIN (u \o x) = 1..(Len(u) + Len(x)) /\ Len(x) \in Nat
      /\ DOMAIN (v \o y) = 1..(Len(v) + Len(y)) /\ Len(y) \in Nat
      /\ \A i \in 1..Len(u) : (u \o x)[i] = u[i]
      /\ \A i \in 1..Len(v) : (v \o y)[i] = v[i]
  OBVIOUS
<1>2. (u \o x)[d] # (v \o y)[d]
  BY <1>1
<1>3. ASSUME W!Precedes(u, v) PROVE W!Precedes(u \o x, v \o y)
  <2>1. PICK i \in DOMAIN u \cap DOMAIN v :
           u[i] < v[i] /\ \A j \in 1..(i - 1) : u[j] = v[j]
    BY <1>3 DEF W!Precedes
  <2>2. /\ i \in 1..Len(u) /\ i \in 1..Len(v)
        /\ \A j \in 1..(i - 1) : j \in 1..Len(u) /\ j \in 1..Len(v)
        /\ i \in 1..(Len(u) + Len(x)) /\ i \in 1..(Len(v) + Len(y))
    <3>1. i \in 1..Len(u) /\ i \in 1..Len(v)
      BY <1>1, <2>1
    <3>2. /\ Len(u) \in Nat /\ Len(v) \in Nat
          /\ Len(x) \in Nat /\ Len(y) \in Nat
      BY <1>1
    <3>3. \A j \in 1..(i - 1) : j \in 1..Len(u) /\ j \in 1..Len(v)
      BY <3>1, <3>2, Earlier
    <3>4. i \in 1..(Len(u) + Len(x))
      BY <3>1, <3>2
    <3>5. i \in 1..(Len(v) + Len(y))
      BY <3>1, <3>2
    <3> QED
      BY <3>1, <3>3, <3>4, <3>5
  <2>3. /\ (u \o x)[i] < (v \o y)[i]
        /\ \A j \in 1..(i - 1) : (u \o x)[j] = (v \o y)[j]
    BY <1>1, <2>1, <2>2
  <2> QED
    BY <1>1, <2>2, <2>3 DEF W!Precedes
<1>4. ASSUME W!Precedes(u \o x, v \o y) PROVE W!Precedes(u, v)
  <2>1. PICK i \in DOMAIN (u \o x) \cap DOMAIN (v \o y) :
           /\ (u \o x)[i] < (v \o y)[i]
           /\ \A j \in 1..(i - 1) : (u \o x)[j] = (v \o y)[j]
    BY <1>4 DEF W!Precedes
  <2>2. i <= d
    <3>1. i \in 1..(Len(u) + Len(x)) /\ d \in 1..Len(u)
      BY <1>1, <2>1
    <3>2. d \in 1..(i - 1) => FALSE
      BY <1>2, <2>1
    <3> QED
      BY <1>1, <3>1, <3>2
  <2>3. /\ i \in 1..Len(u) /\ i \in 1..Len(v)
        /\ \A j \in 1..(i - 1) : j \in 1..Len(u) /\ j \in 1..Len(v)
    BY <1>1, <2>1, <2>2
  <2>4. u[i] < v[i] /\ \A j \in 1..(i - 1) : u[j] = v[j]
    BY <1>1, <2>1, <2>3
  <2> QED
    BY <1>1, <2>3, <2>4 DEF W!Precedes
<1> QED
  BY <1>2, <1>3, <1>4

(* A common beginning does not count.                                        *)
LEMMA PrecedesAfter ==
    ASSUME NEW u \in Seq(Nat), NEW x \in Seq(Nat), NEW y \in Seq(Nat)
    PROVE  /\ W!Precedes(u \o x, u \o y) <=> W!Precedes(x, y)
           /\ u \o x = u \o y => x = y
<1> DEFINE n == Len(u)
<1>1. /\ n \in Nat /\ Len(x) \in Nat /\ Len(y) \in Nat
      /\ DOMAIN x = 1..Len(x) /\ DOMAIN y = 1..Len(y)
      /\ DOMAIN (u \o x) = 1..(n + Len(x)) /\ DOMAIN (u \o y) = 1..(n + Len(y))
      /\ Len(u \o x) = n + Len(x) /\ Len(u \o y) = n + Len(y)
      /\ \A i \in 1..n : (u \o x)[i] = u[i] /\ (u \o y)[i] = u[i]
      /\ \A i \in 1..Len(x) : (u \o x)[n + i] = x[i]
      /\ \A i \in 1..Len(y) : (u \o y)[n + i] = y[i]
      /\ \A i \in 1..n : u[i] \in Nat
  OBVIOUS
<1> HIDE DEF n
<1>2. ASSUME W!Precedes(x, y) PROVE W!Precedes(u \o x, u \o y)
  <2>1. PICK i \in DOMAIN x \cap DOMAIN y :
           x[i] < y[i] /\ \A j \in 1..(i - 1) : x[j] = y[j]
    BY <1>2 DEF W!Precedes
  <2>2. n + i \in DOMAIN (u \o x) \cap DOMAIN (u \o y)
    BY <1>1, <2>1
  <2>3. (u \o x)[n + i] < (u \o y)[n + i]
    BY <1>1, <2>1
  <2>4. ASSUME NEW j \in 1..((n + i) - 1) PROVE (u \o x)[j] = (u \o y)[j]
    <3>1. CASE j <= n
      BY <1>1, <3>1
    <3>2. CASE ~(j <= n)
      <4>1. /\ j - n \in 1..(i - 1) /\ n + (j - n) = j
            /\ j - n \in 1..Len(x) /\ j - n \in 1..Len(y)
        <5>1. i \in 1..Len(x) /\ i \in 1..Len(y) /\ n \in Nat
          BY <1>1, <2>1
        <5>2. Len(x) \in Nat /\ Len(y) \in Nat
          BY <1>1
        <5>3. /\ i \in Nat /\ j \in Nat /\ i <= Len(x) /\ i <= Len(y)
              /\ j \in 1..(n + i - 1)
          BY <5>1, <5>2
        <5>4. j - n \in 1..(i - 1) /\ j - n \in Nat /\ n + (j - n) = j
          BY <3>2, <5>1, <5>3
        <5> QED
          BY <5>2, <5>3, <5>4
      <4>2. (u \o x)[n + (j - n)] = x[j - n] /\ (u \o y)[n + (j - n)] = y[j - n]
        BY <1>1, <4>1
      <4> QED
        BY <2>1, <4>1, <4>2
    <3> QED
      BY <3>1, <3>2
  <2> QED
    BY <2>2, <2>3, <2>4 DEF W!Precedes
<1>3. ASSUME W!Precedes(u \o x, u \o y) PROVE W!Precedes(x, y)
  <2>1. PICK i \in DOMAIN (u \o x) \cap DOMAIN (u \o y) :
           /\ (u \o x)[i] < (u \o y)[i]
           /\ \A j \in 1..(i - 1) : (u \o x)[j] = (u \o y)[j]
    BY <1>3 DEF W!Precedes
  <2>2. ~(i <= n)
    BY <1>1, <2>1
  <2>3. /\ i - n \in 1..Len(x) /\ i - n \in 1..Len(y) /\ n + (i - n) = i
        /\ \A j \in 1..((i - n) - 1) :
              n + j \in 1..(i - 1) /\ j \in 1..Len(x) /\ j \in 1..Len(y)
    <3>1. i \in 1..(n + Len(x)) /\ i \in 1..(n + Len(y)) /\ n \in Nat
      BY <1>1, <2>1
    <3>2. Len(x) \in Nat /\ Len(y) \in Nat
      BY <1>1
    <3> DEFINE k == i - n
    <3>3. /\ k \in Nat /\ k <= Len(x) /\ k <= Len(y) /\ k >= 1 /\ n + k = i
          /\ k \in 1..Len(x) /\ k \in 1..Len(y)
      BY <2>2, <3>1, <3>2
    <3> HIDE DEF k
    <3>4. ASSUME NEW j \in 1..(k - 1)
          PROVE  n + j \in 1..(i - 1) /\ j \in 1..Len(x) /\ j \in 1..Len(y)
      BY <3>1, <3>2, <3>3
    <3> QED
      BY <3>3, <3>4 DEF k
  <2>4. x[i - n] < y[i - n]
    <3>1. (u \o x)[n + (i - n)] = x[i - n] /\ (u \o y)[n + (i - n)] = y[i - n]
      BY <1>1, <2>3
    <3> QED
      BY <2>1, <2>3, <3>1
  <2>5. \A j \in 1..((i - n) - 1) : x[j] = y[j]
    BY <1>1, <2>1, <2>3
  <2> QED
    BY <1>1, <2>3, <2>4, <2>5 DEF W!Precedes
<1>4. ASSUME u \o x = u \o y PROVE x = y
  <2>1. Len(x) = Len(y)
    <3>1. n + Len(x) = n + Len(y)
      BY <1>1, <1>4
    <3>2. n \in Nat /\ Len(x) \in Nat /\ Len(y) \in Nat
      BY <1>1
    <3> QED
      BY <3>1, <3>2
  <2>2. \A i \in 1..Len(x) : x[i] = y[i]
    BY <1>1, <1>4, <2>1
  <2> QED
    BY <2>1, <2>2, SeqEqual
<1> QED
  BY <1>2, <1>3, <1>4

LEMMA VectorLessMeans ==
    ASSUME NEW s \in Seq(Id), NEW t \in Seq(Id)
    PROVE  W!VectorLess(s, t) <=> W!Precedes(Terminated(s), Terminated(t))
<1> DEFINE m == Len(s)
           n == Len(t)
           u == Terminated(s)
           v == Terminated(t)
<1>1. /\ m \in Nat /\ n \in Nat /\ DOMAIN u = 1..(m + 1) /\ DOMAIN v = 1..(n + 1)
      /\ \A i \in 1..m : s[i] \in Id /\ u[i] = W!Place(s[i])
      /\ \A i \in 1..n : t[i] \in Id /\ v[i] = W!Place(t[i])
      /\ u[m + 1] = 0 /\ v[n + 1] = 0
  BY TerminatedAt
<1>2. \A x, y \in Id : /\ W!Place(x) \in Nat /\ 0 < W!Place(x)
                       /\ W!IdLess(x, y) <=> W!Place(x) < W!Place(y)
                       /\ W!Place(x) = W!Place(y) => x = y
  BY PlacesOrder
<1>3. W!VectorLess(s, t) <=>
         \E i \in 1..n : /\ \A j \in 1..(i - 1) : j <= m /\ s[j] = t[j]
                         /\ i <= m => W!IdLess(s[i], t[i])
  BY DEF W!VectorLess
<1>4. W!Precedes(u, v) <=>
         \E i \in 1..(m + 1) \cap 1..(n + 1) :
             u[i] < v[i] /\ \A j \in 1..(i - 1) : u[j] = v[j]
  BY <1>1 DEF W!Precedes
<1> HIDE DEF m, n, u, v
<1>5. ASSUME NEW i \in 1..n, \A j \in 1..(i - 1) : j <= m /\ s[j] = t[j],
             i <= m => W!IdLess(s[i], t[i])
      PROVE  /\ i \in 1..(m + 1) \cap 1..(n + 1) /\ u[i] < v[i]
             /\ \A j \in 1..(i - 1) : u[j] = v[j]
  <2>1. i <= m + 1
    <3>1. CASE i = 1
      BY <1>1, <3>1
    <3>2. CASE i # 1
      <4>1. i - 1 \in 1..(i - 1)
        BY <1>1, <3>2
      <4> QED
        BY <1>1, <1>5, <4>1
    <3> QED
      BY <3>1, <3>2
  <2>2. i \in 1..(m + 1) /\ i \in 1..(n + 1)
    BY <1>1, <2>1
  <2>3. \A j \in 1..(i - 1) : j \in 1..m /\ j \in 1..n
    BY <1>1, <1>5
  <2>4. \A j \in 1..(i - 1) : u[j] = v[j]
    BY <1>1, <1>5, <2>3
  <2>5. u[i] < v[i]
    <3>1. CASE i <= m
      <4>1. i \in 1..m
        BY <1>1, <3>1
      <4> QED
        BY <1>1, <1>2, <1>5, <3>1, <4>1
    <3>2. CASE ~(i <= m)
      <4>1. i = m + 1
        BY <1>1, <2>1, <3>2
      <4>2. t[i] \in Id /\ v[i] = W!Place(t[i])
        BY <1>1
      <4>3. 0 < v[i]
        BY <1>2, <4>2
      <4>4. u[i] = 0
        BY <1>1, <4>1
      <4> QED
        BY <4>3, <4>4
    <3> QED
      BY <3>1, <3>2
  <2> QED
    BY <2>2, <2>4, <2>5
<1>6. ASSUME NEW i \in 1..(m + 1) \cap 1..(n + 1), u[i] < v[i],
             \A j \in 1..(i - 1) : u[j] = v[j]
      PROVE  /\ i \in 1..n /\ \A j \in 1..(i - 1) : j <= m /\ s[j] = t[j]
             /\ i <= m => W!IdLess(s[i], t[i])
  <2>1. \A k \in 1..(m + 1) : u[k] \in Nat
    <3> TAKE k \in 1..(m + 1)
    <3>1. CASE k \in 1..m
      <4>1. s[k] \in Id /\ u[k] = W!Place(s[k])
        BY <1>1, <3>1
      <4>2. W!Place(s[k]) \in Nat
        BY <1>2, <4>1
      <4> QED
        BY <4>1, <4>2
    <3>2. CASE k = m + 1
      BY <1>1, <3>2
    <3>3. k \in 1..m \/ k = m + 1
      BY <1>1
    <3> QED
      BY <3>1, <3>2, <3>3
  <2>2. i # n + 1
    <3>1. u[i] \in Nat /\ u[i] < v[i]
      BY <1>6, <2>1
    <3> QED
      BY <1>1, <3>1
  <2>3. i \in 1..n /\ \A j \in 1..(i - 1) : j \in 1..m /\ j \in 1..n
    BY <1>1, <2>2
  <2>4. \A j \in 1..(i - 1) : j <= m /\ s[j] = t[j]
    <3> TAKE j \in 1..(i - 1)
    <3>1. /\ j \in 1..m /\ j \in 1..n /\ u[j] = v[j]
          /\ s[j] \in Id /\ t[j] \in Id
      BY <1>1, <1>6, <2>3
    <3>2. W!Place(s[j]) = W!Place(t[j])
      BY <1>1, <3>1
    <3> QED
      BY <1>1, <1>2, <3>1, <3>2
  <2>5. ASSUME i <= m PROVE W!IdLess(s[i], t[i])
    <3>1. i \in 1..m
      BY <1>1, <2>5
    <3> QED
      BY <1>1, <1>2, <1>6, <2>3, <3>1
  <2> QED
    BY <2>3, <2>4, <2>5
<1> QED
  BY <1>3, <1>4, <1>5, <1>6 DEF u, v

(* The end of a key: of the pre-release, or of a release.                    *)
PreKey(pre) == IF pre = <<>> THEN <<W!Release>> ELSE Terminated(pre[1])

LEMMA ReleaseLast ==
    ASSUME NEW s \in Seq(Id)
    PROVE  /\ <<W!Release>> \in Seq(Nat)
           /\ W!Precedes(Terminated(s), <<W!Release>>)
           /\ ~W!Precedes(<<W!Release>>, Terminated(s))
           /\ ~W!Precedes(<<W!Release>>, <<W!Release>>)
           /\ Terminated(s) # <<W!Release>>
<1>1. W!Release \in Nat /\ W!Release > 0
  BY Ranks DEF W!Release
<1> DEFINE r == W!Release
<1>2. /\ 1 \in DOMAIN Terminated(s) /\ Terminated(s)[1] < W!Release
      /\ Terminated(s)[1] \in Nat
  <2>1. CASE Len(s) = 0
    <3>1. /\ DOMAIN Terminated(s) = 1..(Len(s) + 1)
          /\ Terminated(s)[Len(s) + 1] = 0
      BY TerminatedAt
    <3>2. Len(s) + 1 = 1
      BY <2>1
    <3>3. 1 \in DOMAIN Terminated(s) /\ Terminated(s)[1] = 0
      BY <3>1, <3>2
    <3> QED
      BY <1>1, <3>3
  <2>2. CASE Len(s) # 0
    <3>1. 1 \in 1..Len(s) /\ 1 \in 1..(Len(s) + 1)
      BY <2>2, TerminatedAt
    <3>2. s[1] \in Id /\ Terminated(s)[1] = W!Place(s[1])
      BY <3>1, TerminatedAt
    <3> QED
      BY <3>1, <3>2, TerminatedAt, PlacesOrder
  <2> QED
    BY <2>1, <2>2
<1> HIDE DEF r
<1>3. DOMAIN <<r>> = {1} /\ <<r>>[1] = r
  OBVIOUS
<1>4. <<r>> \in Seq(Nat)
  BY <1>1 DEF r
<1> QED
  BY <1>1, <1>2, <1>3, <1>4 DEF W!Precedes, r

LEMMA OrderOfData ==
    ASSUME NEW a \in VersionData, NEW b \in VersionData
    PROVE  /\ W!Less(a, b) <=> W!Precedes(W!Key(a), W!Key(b))
           /\ W!Equal(a, b) <=> W!Key(a) = W!Key(b)
<1> DEFINE m == a.numbers
           n == b.numbers
           x == PreKey(a.pre)
           y == PreKey(b.pre)
<1>1. /\ m \in Seq(Id) /\ n \in Seq(Id)
      /\ a.pre = <<>> \/ (a.pre # <<>> /\ a.pre[1] \in Seq(Id) /\ a.pre = <<a.pre[1]>>)
      /\ b.pre = <<>> \/ (b.pre # <<>> /\ b.pre[1] \in Seq(Id) /\ b.pre = <<b.pre[1]>>)
  <2>1. m \in Seq(UnsignedId) /\ n \in Seq(UnsignedId) /\ UnsignedId \subseteq Id
    BY DEF VersionData, Id
  <2>2. m \in Seq(Id) /\ n \in Seq(Id)
    BY <2>1, SeqMonotonic
  <2>3. \A q : <<q>> # <<>> /\ <<q>>[1] = q
    OBVIOUS
  <2> QED
    BY <2>2, <2>3 DEF VersionData
<1>2. /\ W!Key(a) = Terminated(m) \o x /\ W!Key(b) = Terminated(n) \o y
  BY DEF W!Key, PreKey, Terminated
<1>3. /\ Terminated(m) \in Seq(Nat) /\ Terminated(n) \in Seq(Nat)
      /\ x \in Seq(Nat) /\ y \in Seq(Nat)
  BY <1>1, TerminatedAt, ReleaseLast DEF PreKey
<1>4. CASE m # n
  <2>1. PICK d \in 1..Len(Terminated(m)) \cap 1..Len(Terminated(n)) :
           Terminated(m)[d] # Terminated(n)[d]
    BY <1>1, <1>4, TerminatedDiffer
  <2>2. /\ W!Precedes(W!Key(a), W!Key(b)) <=> W!VectorLess(m, n)
        /\ W!Key(a) # W!Key(b)
    <3> HIDE DEF m, n, x, y
    <3>1. /\ W!Precedes(Terminated(m) \o x, Terminated(n) \o y)
                <=> W!Precedes(Terminated(m), Terminated(n))
          /\ Terminated(m) \o x # Terminated(n) \o y
      BY <1>3, <2>1, PrecedesBefore
    <3> QED
      BY <1>1, <1>2, <3>1, VectorLessMeans
  <2> QED
    BY <1>4, <2>2 DEF W!Less, W!Equal
<1>5. CASE m = n
  <2>1. /\ W!Precedes(W!Key(a), W!Key(b)) <=> W!Precedes(x, y)
        /\ W!Key(a) = W!Key(b) <=> x = y
    <3> DEFINE u == Terminated(m)
    <3> HIDE DEF m, n, x, y
    <3>1. u \in Seq(Nat) /\ W!Key(a) = u \o x /\ W!Key(b) = u \o y
      BY <1>2, <1>3, <1>5, Zenon
    <3> HIDE DEF u
    <3>2. /\ W!Precedes(u \o x, u \o y) <=> W!Precedes(x, y)
          /\ u \o x = u \o y => x = y
      BY <1>3, <3>1, PrecedesAfter
    <3> QED
      BY <3>1, <3>2, Zenon
  <2>2. x = y => a.pre = b.pre
    <3>1. \A s, t \in Seq(Id) : Terminated(s) = Terminated(t) => s = t
      BY TerminatedDiffer
    <3> QED
      BY <1>1, <3>1, ReleaseLast DEF PreKey
  <2>3. W!Less(a, b) <=> W!Precedes(x, y)
    <3>1. CASE a.pre = <<>>
      BY <1>1, <1>5, <3>1, ReleaseLast DEF W!Less, W!OptionalLess, PreKey
    <3>2. CASE a.pre # <<>> /\ b.pre = <<>>
      BY <1>1, <1>5, <3>2, ReleaseLast DEF W!Less, W!OptionalLess, PreKey
    <3>3. CASE a.pre # <<>> /\ b.pre # <<>>
      <4>1. W!Precedes(x, y) <=> W!VectorLess(a.pre[1], b.pre[1])
        BY <1>1, <3>3, VectorLessMeans DEF PreKey
      <4> QED
        BY <1>5, <3>3, <4>1 DEF W!Less, W!OptionalLess
    <3> QED
      BY <3>1, <3>2, <3>3
  <2> QED
    BY <1>5, <2>1, <2>2, <2>3 DEF W!Equal
<1> QED
  BY <1>4, <1>5

(* A version's key is a sequence of numbers. *)
LEMMA KeyOfData ==
    ASSUME NEW a \in VersionData
    PROVE  W!Key(a) \in Seq(Nat)
<1>1. /\ a.numbers \in Seq(Id)
      /\ a.pre = <<>> \/ (a.pre # <<>> /\ a.pre[1] \in Seq(Id))
  <2>1. a.numbers \in Seq(UnsignedId) /\ UnsignedId \subseteq Id
    BY DEF VersionData, Id
  <2>2. a.numbers \in Seq(Id)
    BY <2>1, SeqMonotonic
  <2>3. \A q : <<q>> # <<>> /\ <<q>>[1] = q
    OBVIOUS
  <2> QED
    BY <2>2, <2>3 DEF VersionData
<1> DEFINE u == Terminated(a.numbers)
           x == PreKey(a.pre)
<1>2. W!Key(a) = u \o x
  BY DEF W!Key, PreKey, Terminated
<1>3. u \in Seq(Nat) /\ x \in Seq(Nat)
  BY <1>1, TerminatedAt, ReleaseLast DEF PreKey
<1> HIDE DEF u, x
<1> QED
  BY <1>2, <1>3

(* Of two versions that differ, one is less, and only one.                   *)
LEMMA PrecedesStrict ==
    ASSUME NEW u \in Seq(Nat), NEW v \in Seq(Nat), W!Precedes(u, v)
    PROVE  ~W!Precedes(v, u) /\ u # v
<1>1. PICK i \in DOMAIN u \cap DOMAIN v :
         u[i] < v[i] /\ \A j \in 1..(i - 1) : u[j] = v[j]
  BY DEF W!Precedes
<1>2. i \in Nat /\ i >= 1 /\ u[i] \in Nat /\ v[i] \in Nat
  BY <1>1
<1>3. u # v
  BY <1>1, <1>2
<1>4. ASSUME NEW k \in DOMAIN v \cap DOMAIN u, v[k] < u[k],
             \A j \in 1..(k - 1) : v[j] = u[j]
      PROVE  FALSE
  <2>1. k \in Nat /\ k >= 1 /\ u[k] \in Nat /\ v[k] \in Nat
    BY <1>4
  <2>2. i < k => i \in 1..(k - 1)
    BY <1>2, <2>1
  <2>3. k < i => k \in 1..(i - 1)
    BY <1>2, <2>1
  <2>4. ~(i < k)
    BY <1>1, <1>2, <1>4, <2>2
  <2>5. ~(k < i)
    BY <1>1, <1>4, <2>1, <2>3
  <2>6. i = k
    BY <1>2, <2>1, <2>4, <2>5
  <2> QED
    BY <1>1, <1>2, <1>4, <2>6
<1> QED
  BY <1>3, <1>4 DEF W!Precedes

LEMMA PrecedesTotal ==
    ASSUME NEW u \in Seq(Nat), NEW v \in Seq(Nat),
           NEW d \in 1..Len(u) \cap 1..Len(v), u[d] # v[d]
    PROVE  W!Precedes(u, v) \/ W!Precedes(v, u)
<1> DEFINE S == {i \in 1..Len(u) \cap 1..Len(v) : u[i] # v[i]}
<1>1. S \in SUBSET Nat /\ S # {}
  <2>1. S \subseteq Nat
    OBVIOUS
  <2>2. d \in S
    OBVIOUS
  <2> HIDE DEF S
  <2> QED
    BY <2>1, <2>2
<1>2. PICK m \in S : \A k \in S : m <= k
  <2> HIDE DEF S
  <2> QED
    BY <1>1, Smallest
<1>3. /\ m \in 1..Len(u) /\ m \in 1..Len(v) /\ u[m] # v[m]
      /\ DOMAIN u = 1..Len(u) /\ DOMAIN v = 1..Len(v)
      /\ Len(u) \in Nat /\ Len(v) \in Nat
  BY <1>2
<1>4. u[m] \in Nat /\ v[m] \in Nat
  BY <1>3
<1>5. ASSUME NEW j \in 1..(m - 1) PROVE u[j] = v[j]
  <2>1. j \in 1..Len(u) \cap 1..Len(v) /\ ~(m <= j)
    BY <1>3
  <2> QED
    BY <1>2, <2>1
<1>6. u[m] < v[m] \/ v[m] < u[m]
  BY <1>3, <1>4
<1> HIDE DEF S
<1> QED
  BY <1>3, <1>5, <1>6 DEF W!Precedes

LEMMA VectorsOrdered ==
    ASSUME NEW s \in Seq(Id), NEW t \in Seq(Id), s # t
    PROVE  W!VectorLess(s, t) \/ W!VectorLess(t, s)
<1>1. PICK d \in 1..Len(Terminated(s)) \cap 1..Len(Terminated(t)) :
         Terminated(s)[d] # Terminated(t)[d]
  BY TerminatedDiffer
<1>2. Terminated(s) \in Seq(Nat) /\ Terminated(t) \in Seq(Nat)
  BY TerminatedAt
<1>3. \/ W!Precedes(Terminated(s), Terminated(t))
      \/ W!Precedes(Terminated(t), Terminated(s))
  BY <1>1, <1>2, PrecedesTotal
<1> QED
  BY <1>3, VectorLessMeans

LEMMA KeysOrdered ==
    ASSUME NEW a \in VersionData, NEW b \in VersionData
    PROVE  W!Less(a, b) => ~W!Less(b, a) /\ ~W!Equal(a, b)
<1>1. W!Key(a) \in Seq(Nat) /\ W!Key(b) \in Seq(Nat)
  BY KeyOfData
<1>2. ASSUME W!Precedes(W!Key(a), W!Key(b))
      PROVE  ~W!Precedes(W!Key(b), W!Key(a)) /\ W!Key(a) # W!Key(b)
  BY <1>1, <1>2, PrecedesStrict
<1> QED
  BY <1>2, OrderOfData

LEMMA DataOrdered ==
    ASSUME NEW a \in VersionData, NEW b \in VersionData
    PROVE  /\ W!Equal(a, b) \/ W!Less(a, b) \/ W!Less(b, a)
           /\ W!Less(a, b) => ~W!Less(b, a) /\ ~W!Equal(a, b)
<1>1. /\ a.numbers \in Seq(Id) /\ b.numbers \in Seq(Id)
      /\ a.pre = <<>> \/ (a.pre[1] \in Seq(Id) /\ a.pre = <<a.pre[1]>>)
      /\ b.pre = <<>> \/ (b.pre[1] \in Seq(Id) /\ b.pre = <<b.pre[1]>>)
  <2>1. /\ a.numbers \in Seq(UnsignedId) /\ b.numbers \in Seq(UnsignedId)
        /\ UnsignedId \subseteq Id
    BY DEF VersionData, Id
  <2>2. a.numbers \in Seq(Id) /\ b.numbers \in Seq(Id)
    BY <2>1, SeqMonotonic
  <2>3. \A q : <<q>>[1] = q
    OBVIOUS
  <2> QED
    BY <2>2, <2>3 DEF VersionData
<1>2. CASE a.numbers # b.numbers
  <2>1. W!VectorLess(a.numbers, b.numbers) \/ W!VectorLess(b.numbers, a.numbers)
    BY <1>1, <1>2, VectorsOrdered
  <2> QED
    BY <1>2, <2>1, KeysOrdered DEF W!Less
<1>3. CASE a.numbers = b.numbers /\ a.pre # b.pre
  <2>1. CASE a.pre = <<>> \/ b.pre = <<>>
    <3>1. W!Less(a, b) \/ W!Less(b, a)
      BY <1>3, <2>1 DEF W!Less, W!OptionalLess
    <3> QED
      BY <3>1, KeysOrdered
  <2>2. CASE a.pre # <<>> /\ b.pre # <<>>
    <3>1. a.pre[1] # b.pre[1]
      BY <1>1, <1>3, <2>2, Zenon
    <3>2. \/ W!VectorLess(a.pre[1], b.pre[1])
          \/ W!VectorLess(b.pre[1], a.pre[1])
      BY <1>1, <2>2, <3>1, VectorsOrdered
    <3> QED
      BY <1>3, <2>2, <3>2, KeysOrdered DEF W!Less, W!OptionalLess
  <2> QED
    BY <2>1, <2>2
<1>4. CASE a.numbers = b.numbers /\ a.pre = b.pre
  BY <1>4, KeysOrdered DEF W!Equal
<1> QED
  BY <1>2, <1>3, <1>4

(* OrderIsPrecedence: for any numbers, identifiers and texts.                *)
THEOREM VersionsOrdered == UtilitiesSpec => []OrderIsPrecedence
<1>1. UtilitiesInit => VersionInv
  BY VersionInit DEF UtilitiesInit
<1>2. VersionInv => OrderIsPrecedence
  BY OrderOfData, DataOrdered
  DEF VersionInv, OrderIsPrecedence, W!OrderIsPrecedence, W!NotEqual, W!Greater,
      W!AtMost, W!AtLeast
<1> QED
  BY <1>1, <1>2, EachByItself, VersionStep, PTL DEF UtilitiesSpec

(* A list that matches throughout is taken whole.                            *)
LEMMA ListWhole ==
    ASSUME NEW list \in Seq(W!Lexeme), NEW matching, NEW leaving,
           \A i \in 1..Len(list) :
               list[i].shape \in matching /\ list[i].shape \notin leaving
    PROVE  LET l == W!List(list, matching, leaving) IN
           /\ l.taken = list
           /\ list # <<>> => l.matched /\ l.all
<1> DEFINE Ends(n) == \/ n = Len(list) \/ list[n + 1].shape \notin matching
                      \/ n > 0 /\ list[n].shape \in leaving
           Stops(n) == Ends(n) /\ \A k \in 0..(n - 1) : ~Ends(k)
           n == CHOOSE n \in 0..Len(list) : Stops(n)
           taken == SubSeq(list, 1, n)
           all == n > 0 /\ n = Len(list) /\ list[n].shape \notin leaving
           matched == n > 0
<1>1. Len(list) \in Nat
  OBVIOUS
<1>2. \A k \in 0..(Len(list) - 1) : ~Ends(k)
  <2> TAKE k \in 0..(Len(list) - 1)
  <2>1. k + 1 \in 1..Len(list) /\ k # Len(list) /\ (k > 0 => k \in 1..Len(list))
    BY <1>1
  <2> QED
    BY <2>1
<1>3. n = Len(list)
  <2>1. Len(list) \in 0..Len(list) /\ Stops(Len(list))
    BY <1>1, <1>2
  <2>2. \A k \in 0..Len(list) : Stops(k) => k = Len(list)
    BY <1>1, <1>2
  <2> HIDE DEF Stops
  <2> QED
    BY <2>1, <2>2
<1>4. W!List(list, matching, leaving) =
         [taken |-> taken, matched |-> matched, all |-> all]
  BY DEF W!List
<1> HIDE DEF n
<1>5. taken = list
  <2>1. /\ taken \in Seq(W!Lexeme) /\ Len(taken) = Len(list)
        /\ \A i \in 1..Len(list) : taken[i] = list[i]
    BY <1>1, <1>3
  <2> HIDE DEF taken
  <2> QED
    BY <2>1, SeqEqual
<1>6. list # <<>> => matched /\ all
  <2> SUFFICES ASSUME list # <<>> PROVE matched /\ all
    OBVIOUS
  <2>1. Len(list) > 0 /\ Len(list) \in 1..Len(list)
    BY <1>1
  <2> QED
    BY <1>3, <2>1
<1> HIDE DEF taken, matched, all
<1>7. /\ W!List(list, matching, leaving).taken = taken
      /\ W!List(list, matching, leaving).matched = matched
      /\ W!List(list, matching, leaving).all = all
  BY <1>4
<1> QED
  BY <1>5, <1>6, <1>7

(* What is printed of an element reads as it.                                *)
LEMMA ReadBack ==
    ASSUME NEW x \in Id
    PROVE  /\ W!Printed(x) \in W!Lexeme
           /\ W!Printed(x).shape \in W!IsIdentifier
           /\ W!Printed(x).shape \notin W!EndsAfterDigits
           /\ W!PreRelease(W!Printed(x)) = x
           /\ x \in UnsignedId => /\ W!Printed(x).shape \in W!StartsUint
                                  /\ W!Unsigned(W!Printed(x)) = x
<1>1. /\ x.kind \in {0, 1} /\ x.rank \in 0..(2 * MaxRank + 1)
      /\ x.kind = 0 => x.rank <= MaxRank
      /\ x = [kind |-> x.kind, rank |-> x.rank]
      /\ x \in UnsignedId => x.kind = 0
  BY Ranks DEF Id, UnsignedId
<1> DEFINE l == W!Printed(x)
<1>2. CASE x.kind = 0
  <2>1. /\ l = [shape |-> "number", rank |-> x.rank]
        /\ l.shape = "number" /\ l.rank = x.rank
    BY <1>2 DEF W!Printed
  <2>2. l \in W!Lexeme
    BY <1>1, <1>2, <2>1, Ranks DEF W!Lexeme, W!Shapes
  <2>3. W!Unsigned(l) = x
    BY <1>1, <1>2, <2>1 DEF W!Unsigned
  <2> HIDE DEF l
  <2>4. l.shape \in W!StartsUint /\ l.shape \in W!IsIdentifier
        /\ l.shape \notin W!EndsAfterDigits
    BY <2>1 DEF W!StartsUint, W!IsIdentifier, W!Shapes, W!EndsAfterDigits
  <2> QED
    BY <2>2, <2>3, <2>4 DEF W!PreRelease, l
<1>3. CASE x.kind = 1 /\ x.rank > MaxRank
  <2>1. /\ l = [shape |-> "word", rank |-> x.rank - MaxRank - 1]
        /\ l.shape = "word" /\ l.rank = x.rank - MaxRank - 1
    BY <1>3 DEF W!Printed
  <2>2. l \in W!Lexeme
    <3>1. x.rank - MaxRank - 1 \in 0..MaxRank
      BY <1>1, <1>3, Ranks
    <3> QED
      BY <2>1, <3>1 DEF W!Lexeme, W!Shapes
  <2> HIDE DEF l
  <2>3. W!String(l) = x
    <3>1. l.rank + (MaxRank + 1) = x.rank
      BY <1>1, <1>3, <2>1, Ranks
    <3>2. W!String(l) = [kind |-> 1, rank |-> l.rank + (MaxRank + 1)]
      BY <2>1 DEF W!String
    <3> QED
      BY <1>1, <1>3, <3>1, <3>2
  <2>4. /\ l.shape \notin W!StartsUint /\ l.shape \in W!IsIdentifier
        /\ l.shape \notin W!EndsAfterDigits
    BY <2>1 DEF W!StartsUint, W!IsIdentifier, W!Shapes, W!EndsAfterDigits
  <2>5. W!PreRelease(l) = x
    BY <2>3, <2>4 DEF W!PreRelease
  <2> QED
    BY <1>1, <1>3, <2>2, <2>4, <2>5 DEF l
<1>4. CASE x.kind = 1 /\ ~(x.rank > MaxRank)
  <2>1. /\ l = [shape |-> "overflow", rank |-> x.rank]
        /\ l.shape = "overflow" /\ l.rank = x.rank
    BY <1>4 DEF W!Printed
  <2>2. l \in W!Lexeme
    <3>1. x.rank \in 0..MaxRank
      BY <1>1, <1>4, Ranks
    <3> QED
      BY <2>1, <3>1 DEF W!Lexeme, W!Shapes
  <2> HIDE DEF l
  <2>3. W!String(l) = x
    <3>1. l.rank + 0 = x.rank
      BY <1>1, <2>1, Ranks
    <3>2. W!String(l) = [kind |-> 1, rank |-> l.rank + 0]
      BY <2>1 DEF W!String
    <3> QED
      BY <1>1, <1>4, <3>1, <3>2
  <2>4. /\ l.shape \notin W!StartsUint /\ l.shape \in W!IsIdentifier
        /\ l.shape \notin W!EndsAfterDigits
    BY <2>1 DEF W!StartsUint, W!IsIdentifier, W!Shapes, W!EndsAfterDigits
  <2>5. W!PreRelease(l) = x
    BY <2>3, <2>4 DEF W!PreRelease
  <2> QED
    BY <1>1, <1>4, <2>2, <2>4, <2>5 DEF l
<1> QED
  BY <1>1, <1>2, <1>3, <1>4

LEMMA EachReadBack ==
    ASSUME NEW s \in Seq(Id)
    PROVE  LET l == W!Each(s, W!Printed) IN
           /\ l \in Seq(W!Lexeme) /\ Len(l) = Len(s)
           /\ s # <<>> => l # <<>>
           /\ \A i \in 1..Len(l) : /\ l[i].shape \in W!IsIdentifier
                                   /\ l[i].shape \notin W!EndsAfterDigits
           /\ W!Each(l, W!PreRelease) = s
           /\ s \in Seq(UnsignedId) =>
                 /\ \A i \in 1..Len(l) : l[i].shape \in W!StartsUint
                 /\ W!Each(l, W!Unsigned) = s
<1> DEFINE l == W!Each(s, W!Printed)
           n == Len(s)
<1>1. /\ n \in Nat /\ DOMAIN s = 1..n /\ \A i \in 1..n : s[i] \in Id
      /\ s = [i \in 1..n |-> s[i]]
  BY LenProperties
<1>2. l = [i \in 1..n |-> W!Printed(s[i])]
  BY <1>1 DEF W!Each
<1>3. \A i \in 1..n : W!Printed(s[i]) \in W!Lexeme
  BY <1>1, ReadBack
<1>9. s # <<>> => n # 0
  OBVIOUS
<1>10. s \in Seq(UnsignedId) => \A i \in 1..n : s[i] \in UnsignedId
  OBVIOUS
<1> HIDE DEF l, n
<1>4. l \in Seq(W!Lexeme) /\ Len(l) = n /\ DOMAIN l = 1..n
  BY <1>1, <1>2, <1>3
<1>5. \A i \in 1..n : l[i] = W!Printed(s[i])
  BY <1>2
<1>6. \A i \in 1..Len(l) : /\ l[i].shape \in W!IsIdentifier
                           /\ l[i].shape \notin W!EndsAfterDigits
  BY <1>1, <1>4, <1>5, ReadBack
<1>7. W!Each(l, W!PreRelease) = s
  <2>1. W!Each(l, W!PreRelease) = [i \in 1..n |-> W!PreRelease(l[i])]
    BY <1>4 DEF W!Each
  <2>2. \A i \in 1..n : W!PreRelease(l[i]) = s[i]
    BY <1>1, <1>5, ReadBack
  <2> QED
    BY <1>1, <2>1, <2>2
<1>8. ASSUME s \in Seq(UnsignedId)
      PROVE  /\ \A i \in 1..Len(l) : l[i].shape \in W!StartsUint
             /\ W!Each(l, W!Unsigned) = s
  <2>1. \A i \in 1..n : /\ W!Printed(s[i]).shape \in W!StartsUint
                        /\ W!Unsigned(W!Printed(s[i])) = s[i]
    BY <1>1, <1>8, <1>10, ReadBack
  <2>2. W!Each(l, W!Unsigned) = [i \in 1..n |-> W!Unsigned(l[i])]
    BY <1>4 DEF W!Each
  <2> QED
    BY <1>1, <1>4, <1>5, <2>1, <2>2
<1>11. s # <<>> => l # <<>>
  BY <1>4, <1>9
<1> QED
  BY <1>4, <1>6, <1>7, <1>8, <1>11 DEF l, n

LEMMA DataReadBack ==
    ASSUME NEW d \in VersionData, d.numbers # <<>>
    PROVE  W!Parsed(W!Format(d)).ok /\ W!Parsed(W!Format(d)).data = d
<1> DEFINE t == W!Format(d)
           n == W!Numbers(t.numbers)
           ids == W!Identifiers(t.pre[1])
           b == W!BuildMetadata(t.build[1])
           hasPre == n.all /\ t.pre # <<>> /\ ids.matched
           preDone == n.all /\ (t.pre # <<>> => ids.all)
           hasBuild == preDone /\ t.build # <<>> /\ b.matched
           numbers == W!Each(n.taken, W!Unsigned)
           pre == W!Each(ids.taken, W!PreRelease)
           thePre == IF hasPre THEN <<pre>> ELSE <<>>
           theBuild == IF hasBuild THEN <<b.taken>> ELSE <<>>
           data == [numbers |-> numbers, pre |-> thePre, build |-> theBuild]
           ok == preDone /\ (t.build # <<>> => b.all) /\ ~t.rest
<1>1. W!Parsed(t).data = data /\ W!Parsed(t).ok = ok
  <2>1. W!Parsed(t) = [data |-> data, ok |-> ok]
    BY DEF W!Parsed
  <2> HIDE DEF data, ok, t
  <2> QED
    BY <2>1
<1>2. /\ d = [numbers |-> d.numbers, pre |-> d.pre, build |-> d.build]
      /\ d.numbers \in Seq(UnsignedId)
      /\ d.pre \in {<<>>} \cup {<<q>> : q \in Seq(Id) \ {<<>>}}
      /\ d.build \in {<<>>} \cup {<<q>> : q \in Seq(BuildId) \ {<<>>}}
  BY DEF VersionData
<1>3. d.numbers \in Seq(Id)
  <2>1. UnsignedId \subseteq Id
    BY DEF Id
  <2> QED
    BY <1>2, <2>1, SeqMonotonic
<1>4. /\ t.numbers = W!Each(d.numbers, W!Printed)
      /\ t.pre = IF d.pre = <<>> THEN <<>> ELSE <<W!Each(d.pre[1], W!Printed)>>
      /\ t.build = d.build /\ t.rest = FALSE
  BY DEF W!Format
<1> HIDE DEF t
<1>5. n.all /\ numbers = d.numbers
  <2>1. /\ t.numbers \in Seq(W!Lexeme) /\ t.numbers # <<>>
        /\ \A i \in 1..Len(t.numbers) : /\ t.numbers[i].shape \in W!StartsUint
                                        /\ t.numbers[i].shape \notin W!EndsAfterDigits
        /\ W!Each(t.numbers, W!Unsigned) = d.numbers
    BY <1>2, <1>3, <1>4, EachReadBack
  <2>2. n.taken = t.numbers /\ n.all
    BY <2>1, ListWhole DEF W!Numbers
  <2> HIDE DEF n
  <2> QED
    BY <2>1, <2>2
<1>6. preDone /\ thePre = d.pre
  <2>1. CASE d.pre = <<>>
    <3>1. t.pre = <<>>
      BY <1>4, <2>1
    <3> HIDE DEF n, ids, pre
    <3> QED
      BY <1>5, <2>1, <3>1
  <2>2. CASE d.pre # <<>>
    <3>1. PICK q \in Seq(Id) \ {<<>>} : d.pre = <<q>>
      BY <1>2, <2>2
    <3>2. /\ d.pre[1] = q /\ t.pre = <<W!Each(q, W!Printed)>>
          /\ t.pre[1] = W!Each(q, W!Printed) /\ t.pre # <<>>
      BY <1>4, <2>2, <3>1
    <3>3. /\ t.pre[1] \in Seq(W!Lexeme) /\ t.pre[1] # <<>>
          /\ \A i \in 1..Len(t.pre[1]) : /\ t.pre[1][i].shape \in W!IsIdentifier
                                         /\ t.pre[1][i].shape \notin W!EndsAfterDigits
          /\ W!Each(t.pre[1], W!PreRelease) = q
      BY <3>2, EachReadBack
    <3>4. ids.taken = t.pre[1] /\ ids.matched /\ ids.all
      BY <3>3, ListWhole DEF W!Identifiers
    <3> HIDE DEF n, ids
    <3>5. pre = q
      BY <3>3, <3>4
    <3> HIDE DEF pre
    <3> QED
      BY <1>5, <3>1, <3>2, <3>4, <3>5
  <2> QED
    BY <2>1, <2>2
<1>7. theBuild = d.build /\ (t.build # <<>> => b.all)
  <2>1. CASE d.build = <<>>
    <3> HIDE DEF b, preDone
    <3> QED
      BY <1>4, <2>1
  <2>2. CASE d.build # <<>>
    <3>1. PICK q \in Seq(BuildId) \ {<<>>} : d.build = <<q>>
      BY <1>2, <2>2
    <3>2. t.build[1] = q /\ t.build # <<>>
      BY <1>4, <2>2, <3>1
    <3>3. q \in Seq(W!Lexeme) /\ \A i \in 1..Len(q) : q[i].shape \in W!IsIdentifier
      <4>1. BuildId \subseteq W!Lexeme
        BY DEF BuildId
      <4>2. q \in Seq(W!Lexeme)
        BY <4>1, SeqMonotonic
      <4>3. \A i \in 1..Len(q) : q[i] \in BuildId
        OBVIOUS
      <4> QED
        BY <4>2, <4>3 DEF BuildId
    <3>4. b.taken = q /\ b.matched /\ b.all
      BY <3>2, <3>3, ListWhole DEF W!BuildMetadata
    <3> HIDE DEF b, preDone
    <3> QED
      BY <1>6, <3>1, <3>2, <3>4
  <2> QED
    BY <2>1, <2>2
<1> HIDE DEF n, b, preDone, hasBuild, numbers, thePre, theBuild
<1> QED
  BY <1>1, <1>2, <1>4, <1>5, <1>6, <1>7 DEF t

(* FormatRoundTrips: for any numbers, identifiers and texts.                 *)
THEOREM VersionsReadBack == UtilitiesSpec => []FormatRoundTrips
<1>1. UtilitiesInit => VersionInv
  BY VersionInit DEF UtilitiesInit
<1>2. VersionInv => FormatRoundTrips
  BY DataReadBack DEF VersionInv, FormatRoundTrips, W!FormatRoundTrips
<1> QED
  BY <1>1, <1>2, EachByItself, VersionStep, PTL DEF UtilitiesSpec
-----------------------------------------------------------------------------
(* The notifiers ahead of `next` have run: a sink is without a formatter only*)
(* between the two steps of the notifier that runs, for an option given; and *)
(* each option given whose notifier has ended has a sink.                    *)
LogInv ==
    /\ next \in L!Options \cup {"-", "end", "throw"}
    /\ given \subseteq L!Options
    /\ sinks \in [L!Options -> Nat] /\ round \in Nat
    /\ round = 0 => next = "-"
    /\ \/ bare = {}
       \/ /\ bare = {next} /\ next \in given \cap {"console", "file"}
          /\ sinks[next] > 0
    /\ round > 0 => (enabled <=> given \cap L!Before(next) # {})
    /\ \A o \in given \cap L!Before(next) : sinks[o] > 0
    /\ <<"syslog", FALSE>> \notin written
    /\ <<"console", FALSE>> \notin written

LEMMA Notifiers ==
  /\ L!Options = {"console", "file", "syslog"}
  /\ L!Before("console") = {} /\ L!Before("file") = {"console"}
  /\ L!Before("syslog") = {"console", "file"}
  /\ L!Before("end") = {"console", "file", "syslog"}
  /\ L!Before("throw") = {"console"} /\ L!Before("-") = {}
  /\ L!After("console") = "file" /\ L!After("file") = "syslog"
  /\ L!After("syslog") = "end"
BY DEF L!Options, L!Before, L!After

(* A notifier that ends without adding a sink was of an option not given,    *)
(* and one that ends with one switches logging on.                           *)
LEMMA NotifierEnds ==
  ASSUME next \in L!Options
  PROVE  /\ L!After(next) \in L!Options \cup {"end"}
         /\ L!Before(L!After(next)) = L!Before(next) \cup {next}
         /\ next \notin L!Before(next)
BY Notifiers

LEMMA LogStep ==
  ASSUME LogInv, [L!Next]_logVars
  PROVE  LogInv'
<1>1. CASE UNCHANGED logVars
  BY <1>1 DEF LogInv, logVars
<1>2. CASE L!OptionsDescription
  BY <1>2, Notifiers DEF LogInv, L!OptionsDescription
<1>3. CASE \E on \in SUBSET L!Options : L!Notify(on)
  BY <1>3, Notifiers DEF LogInv, L!Notify
<1>4. CASE L!Skip
  <2>1. next \in L!Options /\ next \notin given /\ next' = L!After(next)
    BY <1>4 DEF L!Skip
  <2>2. given \cap L!Before(L!After(next)) = given \cap L!Before(next)
    BY <2>1, NotifierEnds
  <2>3. bare = {} /\ UNCHANGED <<enabled, sinks, bare, given, round, written>>
    BY <1>4, <2>1 DEF LogInv, L!Skip
  <2>4. next' \in L!Options \cup {"end"} /\ round > 0
    BY <2>1, NotifierEnds, Notifiers DEF LogInv
  <2> QED
    BY <2>1, <2>2, <2>3, <2>4 DEF LogInv
<1>5. CASE \E path \in L!Paths : L!AddSink(path)
  <2>1. next \in given /\ bare = {} /\ UNCHANGED <<given, round, written>>
        /\ sinks' = [sinks EXCEPT ![next] = @ + 1]
    BY <1>5 DEF L!AddSink
  <2>2. next \in L!Options /\ round > 0
    BY <1>5, <2>1, Notifiers DEF LogInv, L!AddSink
  <2>3. /\ sinks' \in [L!Options -> Nat] /\ sinks'[next] > 0
        /\ \A o \in L!Options : sinks'[o] >= sinks[o]
    BY <2>1, <2>2 DEF LogInv
  <2>4. CASE next = "syslog"
    <3>1. bare' = {} /\ next' = "end" /\ enabled' = TRUE
      BY <1>5, <2>4, Notifiers DEF L!AddSink
    <3>2. \A o \in given \cap L!Before("end") : sinks'[o] > 0
      BY <2>3, <2>4, Notifiers DEF LogInv
    <3> QED
      BY <2>1, <2>2, <2>3, <2>4, <3>1, <3>2, Notifiers DEF LogInv
  <2>5. CASE next # "syslog"
    <3>1. bare' = {next} /\ next' = next /\ enabled' = enabled
      BY <1>5, <2>5 DEF L!AddSink
    <3> QED
      BY <2>1, <2>2, <2>3, <2>5, <3>1, Notifiers DEF LogInv
  <2> QED
    BY <2>4, <2>5
<1>6. CASE \E path \in L!Paths : L!Throw(path)
  BY <1>6, Notifiers DEF LogInv, L!Throw
<1>7. CASE L!SetFormatter
  <2>1. /\ bare = {next} /\ next \in given \cap {"console", "file"}
        /\ sinks[next] > 0
    BY <1>7 DEF LogInv, L!SetFormatter
  <2>2. next \in L!Options /\ L!Before(L!After(next)) = L!Before(next) \cup {next}
    BY <2>1, NotifierEnds, Notifiers
  <2>3. /\ bare' = {} /\ enabled' = TRUE /\ next' = L!After(next)
        /\ UNCHANGED <<sinks, given, round, written>>
    BY <1>7 DEF L!SetFormatter
  <2> QED
    BY <2>1, <2>2, <2>3, NotifierEnds, Notifiers DEF LogInv
<1>8. CASE L!Log
  BY <1>8, Notifiers DEF LogInv, L!Log
<1> QED
  BY <1>1, <1>2, <1>3, <1>4, <1>5, <1>6, <1>7, <1>8 DEF L!Next

(* OnWithASink: for any number of rounds of options.                         *)
THEOREM LogsOnWithASink == UtilitiesSpec => []OnWithASink
<1>1. UtilitiesInit => LogInv
  BY Notifiers DEF UtilitiesInit, L!Init, LogInv
<1>2. LogInv => OnWithASink
  BY Notifiers DEF LogInv, OnWithASink, L!OnWithASink
<1> QED
  BY <1>1, <1>2, EachByItself, LogStep, PTL DEF UtilitiesSpec
-----------------------------------------------------------------------------
(* What the task of a handler keeps is the handler's own logger if it has a  *)
(* get_logger(), and the default logger of a thread otherwise.               *)
LoggersInv ==
    /\ DOMAIN attributes = G!Loggers /\ DOMAIN meant = Handlers
    /\ DOMAIN lg = Handlers /\ DOMAIN kind = Handlers /\ dangled \subseteq Handlers
    /\ \A h \in Handlers : kind[h] \in {"idle", "plain", "util", "composed"}
    /\ \A h \in Handlers :
           \/ lg[h] = None
           \/ kind[h] = "composed" /\ lg[h] = G!Own(h)
           \/ /\ kind[h] \in {"plain", "util"}
              /\ \E t \in Threads : lg[h] = G!Default("composed", t)
    /\ \A h \in Handlers : kind[h] = "idle" => meant[h] = {}
    /\ OperationsKeepTheirLogger

LEMMA LoggersDiffer ==
  /\ \A h \in Handlers : G!Own(h) \in G!Loggers /\ G!Own(h) # G!Scope
  /\ \A g, h \in Handlers : G!Own(g) = G!Own(h) => g = h
  /\ G!Scope \in G!Loggers
  /\ \A t : \A f \in {"util", "composed"} : \A h \in Handlers :
         G!Own(h) # G!Default(f, t)
  /\ \A t \in Threads : \A f \in {"util", "composed"} :
         G!Default(f, t) \in G!Loggers
BY DEF G!Loggers, G!Own, G!Default, G!Scope

LEMMA OwnIsAlive == \A h \in Handlers : ~G!Dead(G!Own(h))
BY LoggersDiffer DEF G!Dead

(* An operation is given its logger. *)
LEMMA BeginStep ==
  ASSUME LoggersInv, NEW h \in Handlers, NEW k \in {"plain", "util", "composed"},
         NEW tags, G!Begin(h, k, tags),
         \/ attributes' = [attributes EXCEPT ![G!Own(h)] = tags]
         \/ attributes' = attributes /\ tags = {}
  PROVE  LoggersInv'
<1> USE DEF LoggersInv, OperationsKeepTheirLogger, G!OperationsKeepTheirLogger
<1>1. /\ kind[h] = "idle" /\ kind' = [kind EXCEPT ![h] = k]
      /\ meant' = [meant EXCEPT ![h] = tags]
      /\ UNCHANGED <<token, lg, ended, dangled>>
  BY DEF G!Begin
<1>2. lg[h] = None /\ h \notin dangled
  BY <1>1
<1>3. DOMAIN attributes' = G!Loggers
      /\ \A g \in Handlers : attributes'[G!Own(g)] = meant'[g]
  BY <1>1, LoggersDiffer
<1> QED
  BY <1>1, <1>2, <1>3

(* An attribute goes to its own logger, or to one that is nobody's own.      *)
LEMMA AddAttributeStep ==
  ASSUME LoggersInv, NEW h \in Handlers, NEW framework \in {"util", "composed"},
         NEW l \in G!Loggers, NEW a, G!AddAttribute(h, framework, l, a),
         IF kind[h] = framework THEN l = G!Own(h)
                                ELSE \A g \in Handlers : l # G!Own(g),
         UNCHANGED <<token, kind, lg, ended, dangled>>
  PROVE  LoggersInv'
<1> USE DEF LoggersInv, OperationsKeepTheirLogger, G!OperationsKeepTheirLogger
<1>1. /\ attributes' = [attributes EXCEPT ![l] = @ \cup {a}]
      /\ meant' = [meant EXCEPT ![h] = IF kind[h] = framework THEN @ \cup {a}
                                                              ELSE @]
  BY DEF G!AddAttribute
<1>2. DOMAIN attributes' = G!Loggers /\ DOMAIN meant' = Handlers
  BY <1>1
<1>3. ASSUME NEW g \in Handlers
      PROVE  /\ attributes'[G!Own(g)] = meant'[g]
             /\ kind[g] = "idle" => meant'[g] = {}
  BY <1>1, LoggersDiffer
<1> QED
  BY <1>2, <1>3

LEMMA KeepLoggerStep ==
  ASSUME LoggersInv, NEW h \in Handlers, NEW t \in Threads, G!KeepLogger(h, t)
  PROVE  LoggersInv'
<1>1. /\ kind[h] # "idle" /\ lg' = [lg EXCEPT ![h] = G!AssociatedLogger(h, t)]
      /\ UNCHANGED <<attributes, token, kind, ended, meant, dangled>>
  BY DEF G!KeepLogger
<1>2. \/ kind[h] = "composed" /\ G!AssociatedLogger(h, t) = G!Own(h)
      \/ /\ kind[h] \in {"plain", "util"}
         /\ G!AssociatedLogger(h, t) = G!Default("composed", t)
  BY <1>1 DEF G!AssociatedLogger, LoggersInv
<1> QED
  BY <1>1, <1>2
  DEF LoggersInv, OperationsKeepTheirLogger, G!OperationsKeepTheirLogger

LEMMA AnnotateStep ==
  ASSUME LoggersInv, NEW h \in Handlers, NEW t \in Threads, NEW a,
         G!Annotate(h, t, a)
  PROVE  LoggersInv'
<1>1. /\ G!AddAttribute(h, "util", G!GetAssociatedLogger(h, t), a)
      /\ UNCHANGED <<token, kind, lg, ended, dangled>>
  BY DEF G!Annotate
<1>2. G!GetAssociatedLogger(h, t) = IF kind[h] = "util" THEN G!Own(h)
                                                       ELSE G!Default("util", t)
  BY DEF G!GetAssociatedLogger, G!DefaultAssociatedLogger
<1>3. G!GetAssociatedLogger(h, t) \in G!Loggers
  BY <1>2, LoggersDiffer
<1>4. kind[h] # "util" => \A g \in Handlers : G!GetAssociatedLogger(h, t) # G!Own(g)
  BY <1>2, LoggersDiffer
<1> QED
  BY <1>1, <1>2, <1>3, <1>4, AddAttributeStep

LEMMA TaskAnnotatesStep ==
  ASSUME LoggersInv, NEW h \in Handlers, NEW a, G!TaskAnnotates(h, a)
  PROVE  LoggersInv'
<1>1. /\ lg[h] # None /\ UNCHANGED <<token, kind, lg, ended>>
      /\ IF G!Dead(lg[h])
         THEN dangled' = dangled \cup {h} /\ UNCHANGED <<attributes, meant>>
         ELSE G!AddAttribute(h, "composed", lg[h], a) /\ UNCHANGED dangled
  BY DEF G!TaskAnnotates
<1>2. \/ kind[h] = "composed" /\ lg[h] = G!Own(h)
      \/ /\ kind[h] \in {"plain", "util"}
         /\ \E t \in Threads : lg[h] = G!Default("composed", t)
  BY <1>1 DEF LoggersInv
<1>3. CASE G!Dead(lg[h])
  <2>1. kind[h] \in {"plain", "util"}
    BY <1>2, <1>3, OwnIsAlive
  <2> QED
    BY <1>1, <1>3, <2>1
    DEF LoggersInv, OperationsKeepTheirLogger, G!OperationsKeepTheirLogger
<1>4. CASE ~G!Dead(lg[h])
  <2>1. lg[h] \in G!Loggers
    BY <1>2, LoggersDiffer
  <2>2. IF kind[h] = "composed" THEN lg[h] = G!Own(h)
                                ELSE \A g \in Handlers : lg[h] # G!Own(g)
    BY <1>2, LoggersDiffer
  <2> QED
    BY <1>1, <1>4, <2>1, <2>2, AddAttributeStep
<1> QED
  BY <1>3, <1>4

LEMMA LoggersStep ==
  ASSUME LoggersInv, [G!Next]_loggerVars
  PROVE  LoggersInv'
<1>1. CASE UNCHANGED loggerVars
  BY <1>1 DEF loggerVars, LoggersInv, OperationsKeepTheirLogger,
              G!OperationsKeepTheirLogger
<1>2. CASE G!AddAssociatedLogger \/ \E t \in Threads : G!EndThread(t)
  BY <1>2 DEF G!AddAssociatedLogger, G!EndThread, LoggersInv,
              OperationsKeepTheirLogger, G!OperationsKeepTheirLogger
<1>3. CASE \E a \in Attributes : G!Describe(a)
  BY <1>3, LoggersDiffer
  DEF G!Describe, LoggersInv, OperationsKeepTheirLogger, G!OperationsKeepTheirLogger
<1>4. ASSUME NEW h \in Handlers,
             \/ G!ConvertToken(h) \/ G!InitiatePlain(h)
             \/ \E tags \in SUBSET Attributes : G!InitiateWithLogger(h, tags)
      PROVE  LoggersInv'
  <2>1. CASE G!ConvertToken(h)
    BY <2>1, BeginStep DEF G!ConvertToken
  <2>2. CASE G!InitiatePlain(h)
    BY <2>2, BeginStep DEF G!InitiatePlain
  <2>3. ASSUME NEW tags \in SUBSET Attributes, G!InitiateWithLogger(h, tags)
        PROVE  LoggersInv'
    BY <2>3, BeginStep DEF G!InitiateWithLogger
  <2> QED
    BY <1>4, <2>1, <2>2, <2>3
<1> QED
  BY <1>1, <1>2, <1>3, <1>4, KeepLoggerStep, AnnotateStep, TaskAnnotatesStep
  DEF G!Next

(* OperationsKeepTheirLogger: for any handlers, threads and attributes.      *)
THEOREM LoggersAreKept == UtilitiesSpec => []OperationsKeepTheirLogger
<1>1. UtilitiesInit => LoggersInv
  BY LoggersDiffer DEF UtilitiesInit, G!Init, LoggersInv,
         OperationsKeepTheirLogger, G!OperationsKeepTheirLogger
<1>2. LoggersInv => OperationsKeepTheirLogger
  BY DEF LoggersInv
<1> QED
  BY <1>1, <1>2, EachByItself, LoggersStep, PTL DEF UtilitiesSpec
-----------------------------------------------------------------------------
(* What a pack holds.                                                        *)
PackInv == pack \in Seq(0..MaxArgument) /\ Len(pack) <= MaxSize

LEMMA PacksBounds == MaxArgument \in Nat /\ MaxSize \in Nat
BY DistinctAssumption DEF P!PacksFit

(* any: of what was computed from the last argument back.                    *)
LEMMA AnyMeans ==
    ASSUME NEW xs, NEW n \in Nat, n > 0, Len(xs) = n,
           \A i \in 1..n : xs[i] \in BOOLEAN
    PROVE  P!Any(xs) <=> \E i \in 1..n : xs[i]
<1> DEFINE FromHere(i) == \E k \in i..n : xs[k]
           f == [i \in 1..n |-> FromHere(i)]
           any == CHOOSE g : g = [i \in 1..n |-> xs[i] \/ (i < n /\ g[i + 1])]
<1>1. ASSUME NEW i \in 1..n
      PROVE  FromHere(i) <=> xs[i] \/ (i < n /\ FromHere(i + 1))
  <2>1. \A k \in i..n : k = i \/ (i < n /\ k \in (i + 1)..n)
    OBVIOUS
  <2>2. i \in i..n /\ \A k \in (i + 1)..n : k \in i..n
    OBVIOUS
  <2> QED
    BY <2>1, <2>2
<1>2. f = [i \in 1..n |-> xs[i] \/ (i < n /\ f[i + 1])]
  <2>1. ASSUME NEW i \in 1..n
        PROVE  FromHere(i) <=> xs[i] \/ (i < n /\ f[i + 1])
    <3>1. i < n => i + 1 \in 1..n
      OBVIOUS
    <3> HIDE DEF FromHere
    <3>2. i < n => f[i + 1] = FromHere(i + 1)
      BY <3>1
    <3> HIDE DEF f
    <3> QED
      BY <1>1, <3>2, Zenon
  <2> DEFINE Next1(i) == xs[i] \/ (i < n /\ f[i + 1])
  <2>2. \A i \in 1..n : FromHere(i) = Next1(i)
    <3> TAKE i \in 1..n
    <3>1. FromHere(i) <=> Next1(i)
      BY <2>1
    <3>2. FromHere(i) \in BOOLEAN /\ Next1(i) \in BOOLEAN
      BY Zenon
    <3> HIDE DEF FromHere, Next1
    <3> QED
      BY <3>1, <3>2
  <2>3. f = [i \in 1..n |-> FromHere(i)]
    BY Zenon
  <2> HIDE DEF FromHere, f, Next1
  <2>4. f = [i \in 1..n |-> Next1(i)]
    BY <2>2, <2>3
  <2> QED
    BY <2>4, Zenon DEF Next1
<1>3. any = [i \in 1..n |-> xs[i] \/ (i < n /\ any[i + 1])]
  <2> HIDE DEF f
  <2> QED
    BY <1>2, Zenon
<1>4. P!Any(xs) = any[1]
  BY DEF P!Any
<1> HIDE DEF any, f, FromHere
<1> DEFINE Bad == {i \in 1..n : ~(any[i] <=> FromHere(i))}
<1>5. Bad = {}
  <2> SUFFICES ASSUME Bad # {} PROVE FALSE
    OBVIOUS
  <2>1. Bad \in SUBSET (0..n)
    OBVIOUS
  <2>2. PICK i \in Bad : \A k \in Bad : k <= i
    <3> HIDE DEF Bad
    <3> QED
      BY <2>1, Largest
  <2>3. i \in 1..n /\ ~(any[i] <=> FromHere(i))
    BY <2>2
  <2>4. i < n => (any[i + 1] <=> FromHere(i + 1))
    <3> SUFFICES ASSUME i < n PROVE any[i + 1] <=> FromHere(i + 1)
      OBVIOUS
    <3>1. i + 1 \in 1..n /\ ~(i + 1 <= i)
      BY <2>3
    <3> QED
      BY <2>2, <3>1
  <2>5. any[i] <=> xs[i] \/ (i < n /\ any[i + 1])
    <3>1. any[i] = (xs[i] \/ (i < n /\ any[i + 1]))
      BY <1>3, <2>3, Zenon
    <3> QED
      BY <3>1, Zenon
  <2> QED
    BY <1>1, <2>3, <2>4, <2>5, Zenon
<1>6. 1 \in 1..n
  OBVIOUS
<1>7. any[1] <=> FromHere(1)
  BY <1>5, <1>6, Zenon
<1> QED
  BY <1>4, <1>7, Zenon DEF FromHere

(* max: what was kept of the arguments up to each.                           *)
LEMMA MaxMeans ==
    ASSUME NEW xs \in Seq(Nat), xs # <<>>
    PROVE  /\ \E i \in 1..Len(xs) : P!MaxOf(xs) = xs[i]
           /\ \A i \in 1..Len(xs) : xs[i] <= P!MaxOf(xs)
<1> DEFINE n == Len(xs)
           Tops(i) == {m \in Nat : /\ \E k \in 1..i : m = xs[k]
                                   /\ \A k \in 1..i : xs[k] <= m}
           Top(i) == CHOOSE m \in Nat : m \in Tops(i)
           f == [i \in 1..n |-> Top(i)]
           max == CHOOSE g : g = [i \in 1..n |->
                      IF i = 1 \/ xs[i] > g[i - 1] THEN xs[i] ELSE g[i - 1]]
<1>1. n \in Nat /\ n > 0 /\ \A i \in 1..n : xs[i] \in Nat
  OBVIOUS
<1>2. P!MaxOf(xs) = max[n]
  BY DEF P!MaxOf
<1> HIDE DEF n
<1>3. ASSUME NEW i \in 1..n, NEW k \in Tops(i), NEW l \in Tops(i) PROVE k = l
  <2>1. k \in Nat /\ l \in Nat
    OBVIOUS
  <2>2. PICK a \in 1..i : k = xs[a]
    OBVIOUS
  <2>3. PICK b \in 1..i : l = xs[b]
    OBVIOUS
  <2>4. xs[a] <= l /\ xs[b] <= k
    OBVIOUS
  <2> QED
    BY <2>1, <2>2, <2>3, <2>4
<1>4. xs[1] \in Tops(1)
  BY <1>1
<1>5. ASSUME NEW i \in 1..n, i # 1, NEW m \in Tops(i - 1)
      PROVE  (IF xs[i] > m THEN xs[i] ELSE m) \in Tops(i)
  <2>1. /\ i \in Nat /\ i - 1 \in 1..n /\ \A k \in 1..i : k = i \/ k \in 1..(i - 1)
        /\ \A k \in 1..(i - 1) : k \in 1..i
        /\ i \in 1..i
    BY <1>1, <1>5
  <2>2. m \in Nat /\ xs[i] \in Nat
    BY <1>1
  <2>3. CASE xs[i] > m
    <3>1. ASSUME NEW k \in 1..i PROVE xs[k] <= xs[i]
      <4>1. CASE k = i
        BY <2>2, <4>1
      <4>2. CASE k \in 1..(i - 1)
        <5>1. xs[k] <= m /\ xs[k] \in Nat
          BY <1>1, <4>2
        <5> QED
          BY <2>2, <2>3, <5>1
      <4> QED
        BY <2>1, <4>1, <4>2
    <3> QED
      BY <2>1, <2>2, <2>3, <3>1
  <2>4. CASE ~(xs[i] > m)
    <3>1. ASSUME NEW k \in 1..i PROVE xs[k] <= m
      <4>1. CASE k = i
        BY <2>2, <2>4, <4>1
      <4>2. CASE k \in 1..(i - 1)
        BY <4>2
      <4> QED
        BY <2>1, <4>1, <4>2
    <3>2. \E k \in 1..i : m = xs[k]
      <4>1. PICK k \in 1..(i - 1) : m = xs[k]
        OBVIOUS
      <4> QED
        BY <2>1, <4>1
    <3> QED
      BY <2>2, <2>4, <3>1, <3>2
  <2> QED
    BY <2>3, <2>4
<1>6. \A i \in 1..n : Tops(i) \in SUBSET Nat
  OBVIOUS
<1> HIDE DEF Tops
<1>7. \A i \in 1..n : Tops(i) # {}
  <2> DEFINE Bad == {i \in 1..n : Tops(i) = {}}
  <2> SUFFICES ASSUME Bad # {} PROVE FALSE
    OBVIOUS
  <2>1. Bad \in SUBSET Nat
    BY <1>1
  <2>2. PICK i \in Bad : \A k \in Bad : i <= k
    <3> HIDE DEF Bad
    <3> QED
      BY <2>1, Smallest
  <2>3. i # 1
    BY <1>4, <2>2
  <2>4. i - 1 \in 1..n /\ i \in 1..n /\ ~(i <= i - 1)
    BY <1>1, <2>2, <2>3
  <2>5. PICK m \in Tops(i - 1) : TRUE
    BY <2>2, <2>4
  <2> QED
    BY <1>5, <2>2, <2>3, <2>4, <2>5
<1>8. \A i \in 1..n : Top(i) \in Tops(i)
  BY <1>6, <1>7
<1> DEFINE Kept(g, i) == IF i = 1 \/ xs[i] > g[i - 1] THEN xs[i] ELSE g[i - 1]
<1>9. \A g, i : i \in 1..n /\ (i # 1 => g[i - 1] \in Tops(i - 1))
                => Kept(g, i) \in Tops(i)
  <2> SUFFICES ASSUME NEW g, NEW i \in 1..n, i # 1 => g[i - 1] \in Tops(i - 1)
               PROVE  Kept(g, i) \in Tops(i)
    OBVIOUS
  <2>1. CASE i = 1
    BY <1>4, <2>1
  <2>2. CASE i # 1
    BY <1>5, <2>2
  <2> QED
    BY <2>1, <2>2
<1>10. max = [i \in 1..n |-> Kept(max, i)]
  <2>1. \A i \in 1..n : Top(i) = Kept(f, i)
    <3> TAKE i \in 1..n
    <3>1. i # 1 => i - 1 \in 1..n
      BY <1>1
    <3>2. i # 1 => f[i - 1] = Top(i - 1)
      BY <3>1
    <3> HIDE DEF Top, Kept, f
    <3>3. Kept(f, i) \in Tops(i)
      BY <1>8, <1>9, <3>1, <3>2
    <3> QED
      BY <1>3, <1>8, <3>3
  <2>2. f = [i \in 1..n |-> Top(i)]
    BY Zenon
  <2> HIDE DEF Top, f, Kept
  <2>3. f = [i \in 1..n |-> Kept(f, i)]
    BY <2>1, <2>2
  <2> QED
    BY <2>3, Zenon DEF Kept
<1> HIDE DEF max, f, Top, Kept
<1> DEFINE Bad == {i \in 1..n : max[i] \notin Tops(i)}
<1>11. Bad = {}
  <2> SUFFICES ASSUME Bad # {} PROVE FALSE
    OBVIOUS
  <2>1. Bad \in SUBSET Nat
    BY <1>1
  <2>2. PICK i \in Bad : \A k \in Bad : i <= k
    <3> HIDE DEF Bad
    <3> QED
      BY <2>1, Smallest
  <2>3. i \in 1..n /\ max[i] = Kept(max, i)
    BY <1>10, <2>2
  <2>4. i # 1 => i - 1 \in 1..n /\ ~(i <= i - 1)
    BY <1>1, <2>3
  <2>5. i # 1 => max[i - 1] \in Tops(i - 1)
    BY <2>2, <2>4
  <2> QED
    BY <1>9, <2>2, <2>3, <2>5
<1>12. max[n] \in Tops(n)
  BY <1>1, <1>11
<1> QED
  BY <1>2, <1>12 DEF Tops, n

(* overload_linearly_t: the first that accepts, or the last.                 *)
LEMMA OverloadMeans ==
    ASSUME NEW hs, NEW x, NEW n \in Nat, n > 0, Len(hs) = n
    PROVE  LET k == P!OverloadLinearly(hs, x) IN
           /\ k \in 1..n /\ (k = n \/ P!Accepts(hs[k], x))
           /\ \A j \in 1..(k - 1) : ~P!Accepts(hs[j], x)
<1> DEFINE Taken(i) == {k \in i..n : /\ k = n \/ P!Accepts(hs[k], x)
                                     /\ \A j \in i..(k - 1) : ~P!Accepts(hs[j], x)}
           Which(i) == CHOOSE k : k \in Taken(i)
           f == [i \in 1..n |-> Which(i)]
           which == CHOOSE g : g = [i \in 1..n |->
                        IF i = n \/ P!Accepts(hs[i], x) THEN i ELSE g[i + 1]]
           Called(g, i) == IF i = n \/ P!Accepts(hs[i], x) THEN i ELSE g[i + 1]
<1>1. P!OverloadLinearly(hs, x) = which[1]
  BY DEF P!OverloadLinearly
<1>2. ASSUME NEW i \in 1..n, NEW k \in Taken(i), NEW l \in Taken(i) PROVE k = l
  <2>1. k \in i..n /\ l \in i..n
    OBVIOUS
  <2>2. CASE k < l
    <3>1. k \in i..(l - 1) /\ k # n
      BY <2>1, <2>2
    <3> QED
      BY <3>1
  <2>3. CASE l < k
    <3>1. l \in i..(k - 1) /\ l # n
      BY <2>1, <2>3
    <3> QED
      BY <3>1
  <2> QED
    BY <2>1, <2>2, <2>3
<1>3. ASSUME NEW g, NEW i \in 1..n, i # n => g[i + 1] \in Taken(i + 1)
      PROVE  Called(g, i) \in Taken(i)
  <2>1. CASE i = n \/ P!Accepts(hs[i], x)
    <3>1. i \in i..n /\ i..(i - 1) = {}
      OBVIOUS
    <3> QED
      BY <2>1, <3>1
  <2>2. CASE ~(i = n \/ P!Accepts(hs[i], x))
    <3>1. /\ g[i + 1] \in (i + 1)..n /\ (g[i + 1] = n \/ P!Accepts(hs[g[i + 1]], x))
          /\ \A j \in (i + 1)..(g[i + 1] - 1) : ~P!Accepts(hs[j], x)
      BY <1>3, <2>2
    <3>2. g[i + 1] \in i..n
      BY <3>1
    <3>3. \A j \in i..(g[i + 1] - 1) : j = i \/ j \in (i + 1)..(g[i + 1] - 1)
      BY <3>1
    <3> QED
      BY <2>2, <3>1, <3>2, <3>3
  <2> QED
    BY <2>1, <2>2
<1> HIDE DEF Taken, Called
<1>4. \A i \in 1..n : Taken(i) # {}
  <2> DEFINE Bad == {i \in 1..n : Taken(i) = {}}
  <2> SUFFICES ASSUME Bad # {} PROVE FALSE
    OBVIOUS
  <2>1. Bad \in SUBSET (0..n)
    OBVIOUS
  <2>2. PICK i \in Bad : \A k \in Bad : k <= i
    <3> HIDE DEF Bad
    <3> QED
      BY <2>1, Largest
  <2>3. i # n => i + 1 \in 1..n /\ ~(i + 1 <= i)
    BY <2>2
  <2> DEFINE g == [k \in {i + 1} |-> Which(k)]
  <2>4. g[i + 1] = Which(i + 1)
    OBVIOUS
  <2>5. i # n => g[i + 1] \in Taken(i + 1)
    BY <2>2, <2>3, <2>4
  <2> HIDE DEF g
  <2>6. i \in 1..n /\ Taken(i) = {}
    BY <2>2
  <2>7. Called(g, i) \in Taken(i)
    BY <1>3, <2>5, <2>6
  <2> QED
    BY <2>6, <2>7
<1>5. \A i \in 1..n : Which(i) \in Taken(i)
  BY <1>4
<1>6. which = [i \in 1..n |-> Called(which, i)]
  <2>1. \A i \in 1..n : Which(i) = Called(f, i)
    <3> TAKE i \in 1..n
    <3>1. i # n => i + 1 \in 1..n
      OBVIOUS
    <3>2. i # n => f[i + 1] = Which(i + 1)
      BY <3>1
    <3> HIDE DEF Which, f
    <3>3. i # n => f[i + 1] \in Taken(i + 1)
      BY <1>5, <3>1, <3>2
    <3>4. Called(f, i) \in Taken(i)
      BY <1>3, <3>3
    <3> QED
      BY <1>2, <1>5, <3>4
  <2>2. f = [i \in 1..n |-> Which(i)]
    BY Zenon
  <2> HIDE DEF Which, f
  <2>3. f = [i \in 1..n |-> Called(f, i)]
    BY <2>1, <2>2
  <2> QED
    BY <2>3, Zenon DEF Called
<1> HIDE DEF which, f, Which
<1> DEFINE Bad == {i \in 1..n : which[i] \notin Taken(i)}
<1>7. Bad = {}
  <2> SUFFICES ASSUME Bad # {} PROVE FALSE
    OBVIOUS
  <2>1. Bad \in SUBSET (0..n)
    OBVIOUS
  <2>2. PICK i \in Bad : \A k \in Bad : k <= i
    <3> HIDE DEF Bad
    <3> QED
      BY <2>1, Largest
  <2>3. i \in 1..n /\ which[i] = Called(which, i)
    BY <1>6, <2>2
  <2>4. i # n => i + 1 \in 1..n /\ ~(i + 1 <= i)
    BY <2>3
  <2>5. i # n => which[i + 1] \in Taken(i + 1)
    BY <2>2, <2>4
  <2> QED
    BY <1>3, <2>2, <2>3, <2>5
<1>8. which[1] \in Taken(1)
  BY <1>7
<1> QED
  BY <1>1, <1>8 DEF Taken

(* make_integer_sequence: 0 up to n - 1.                                     *)
LEMMA MakeMeans ==
    ASSUME NEW n \in 0..MaxSize
    PROVE  P!MakeIntegerSequence[n] = [i \in 1..n |-> i - 1]
<1> DEFINE Upto(k) == [i \in 1..k |-> i - 1]
           Made(g, k) == IF k = 0 THEN <<>> ELSE IF k = 1 THEN << 0 >>
                         ELSE P!MergeAndRenumber(g[k \div 2], g[k - k \div 2])
           f == [k \in 0..MaxSize |-> Upto(k)]
           make == CHOOSE g : g = [k \in 0..MaxSize |->
                       IF k = 0 THEN <<>> ELSE IF k = 1 THEN << 0 >>
                       ELSE P!MergeAndRenumber(g[k \div 2], g[k - k \div 2])]
<1>0. MaxSize \in Nat
  BY PacksBounds
<1>1. P!MakeIntegerSequence = make
  BY DEF P!MakeIntegerSequence
<1>2. ASSUME NEW k \in Nat, NEW l \in Nat
      PROVE  P!MergeAndRenumber(Upto(k), Upto(l)) = Upto(k + l)
  <2>1. Upto(k) \in Seq(Nat) /\ Len(Upto(k)) = k /\ DOMAIN Upto(l) = 1..l
    OBVIOUS
  <2> DEFINE t == [i \in 1..l |-> k + (i - 1)]
  <2>2. P!MergeAndRenumber(Upto(k), Upto(l)) = Upto(k) \o t
    <3>1. \A i \in 1..l : Upto(l)[i] = i - 1
      OBVIOUS
    <3>2. [i \in DOMAIN Upto(l) |-> Len(Upto(k)) + Upto(l)[i]] = t
      BY <2>1, <3>1
    <3> HIDE DEF Upto, t
    <3> QED
      BY <3>2 DEF P!MergeAndRenumber
  <2>3. t \in Seq(Nat) /\ Len(t) = l
    OBVIOUS
  <2>4. \A i \in 1..k : Upto(k)[i] = i - 1
    OBVIOUS
  <2>5. \A i \in 1..l : t[i] = (k + i) - 1
    OBVIOUS
  <2>6. Upto(k + l) \in Seq(Nat) /\ Len(Upto(k + l)) = k + l
    OBVIOUS
  <2>7. \A i \in 1..(k + l) : Upto(k + l)[i] = i - 1
    OBVIOUS
  <2> DEFINE u == Upto(k)
             v == Upto(k + l)
  <2> HIDE DEF u, v, t, Upto
  <2>8. u \in Seq(Nat) /\ Len(u) = k /\ \A i \in 1..k : u[i] = i - 1
    BY <2>1, <2>4, Zenon DEF u
  <2>9. v \in Seq(Nat) /\ Len(v) = k + l /\ \A i \in 1..(k + l) : v[i] = i - 1
    BY <2>6, <2>7, Zenon DEF v
  <2>10. u \o t \in Seq(Nat) /\ Len(u \o t) = k + l
    <3>1. u \in Seq(Nat) /\ t \in Seq(Nat)
      BY <2>3, <2>8
    <3>2. u \o t \in Seq(Nat) /\ Len(u \o t) = Len(u) + Len(t)
      BY <3>1, ConcatProperties
    <3> QED
      BY <2>3, <2>8, <3>2
  <2>11. ASSUME NEW i \in 1..(k + l) PROVE (u \o t)[i] = v[i]
    <3>1. CASE i <= k
      <4>1. i \in 1..k /\ (u \o t)[i] = u[i]
        BY <2>3, <2>8, <3>1
      <4> QED
        BY <2>8, <2>9, <4>1
    <3>2. CASE ~(i <= k)
      <4>1. i - k \in 1..l /\ k + (i - k) = i
        BY <3>2
      <4>2. (u \o t)[i] = t[i - k]
        <5>1. u \in Seq(Nat) /\ t \in Seq(Nat) /\ Len(u) = k /\ Len(t) = l
          BY <2>3, <2>8
        <5> QED
          BY <3>2, <5>1, ConcatProperties
      <4>3. t[i - k] = (k + (i - k)) - 1
        BY <2>5, <4>1
      <4> QED
        BY <2>9, <4>1, <4>2, <4>3
    <3> QED
      BY <3>1, <3>2
  <2>12. u \o t = v
    BY <2>9, <2>10, <2>11, SeqEqual
  <2> QED
    BY <2>2, <2>12, Zenon DEF u, v
<1>3. ASSUME NEW k \in 0..MaxSize, k > 1
      PROVE  /\ k \div 2 \in 0..MaxSize /\ k - k \div 2 \in 0..MaxSize
             /\ k \div 2 < k /\ k - k \div 2 < k /\ k \div 2 + (k - k \div 2) = k
  BY <1>0, <1>3
<1>4. Upto(0) = <<>> /\ Upto(1) = << 0 >>
  OBVIOUS
<1> HIDE DEF Upto
<1>5. ASSUME NEW g, NEW k \in 0..MaxSize,
             k > 1 => /\ g[k \div 2] = Upto(k \div 2)
                      /\ g[k - k \div 2] = Upto(k - k \div 2)
      PROVE  Made(g, k) = Upto(k)
  <2>1. CASE k = 0
    BY <1>4, <2>1
  <2>2. CASE k = 1
    BY <1>4, <2>2
  <2>3. CASE k > 1
    <3> DEFINE a == k \div 2
               b == k - k \div 2
    <3>1. a \in Nat /\ b \in Nat /\ a + b = k
      BY <1>0, <1>3, <2>3
    <3>2. Made(g, k) = P!MergeAndRenumber(g[a], g[b])
      BY <2>3
    <3>3. g[a] = Upto(a) /\ g[b] = Upto(b)
      BY <1>5, <2>3
    <3> HIDE DEF a, b, Made
    <3> QED
      BY <1>2, <3>1, <3>2, <3>3
  <2> QED
    BY <1>0, <2>1, <2>2, <2>3
<1>6. make = [k \in 0..MaxSize |-> Made(make, k)]
  <2>1. \A k \in 0..MaxSize : Upto(k) = Made(f, k)
    <3> TAKE k \in 0..MaxSize
    <3>1. k > 1 => /\ f[k \div 2] = Upto(k \div 2)
                   /\ f[k - k \div 2] = Upto(k - k \div 2)
      BY <1>3
    <3> HIDE DEF f, Made
    <3> QED
      BY <1>5, <3>1
  <2>2. f = [k \in 0..MaxSize |-> Upto(k)]
    BY Zenon
  <2> HIDE DEF f, Made
  <2>3. f = [k \in 0..MaxSize |-> Made(f, k)]
    BY <2>1, <2>2
  <2> QED
    BY <2>3, Zenon DEF Made
<1> HIDE DEF make, f, Made
<1> DEFINE Bad == {k \in 0..MaxSize : make[k] # Upto(k)}
<1>7. Bad = {}
  <2> SUFFICES ASSUME Bad # {} PROVE FALSE
    OBVIOUS
  <2>1. Bad \in SUBSET Nat
    BY <1>0
  <2>2. PICK k \in Bad : \A l \in Bad : k <= l
    <3> HIDE DEF Bad
    <3> QED
      BY <2>1, Smallest
  <2>3. k \in 0..MaxSize /\ make[k] = Made(make, k)
    BY <1>6, <2>2
  <2>4. k > 1 => /\ k \div 2 \in 0..MaxSize /\ k - k \div 2 \in 0..MaxSize
                 /\ ~(k <= k \div 2) /\ ~(k <= k - k \div 2)
    BY <1>0, <1>3, <2>3
  <2>5. k > 1 => /\ make[k \div 2] = Upto(k \div 2)
                 /\ make[k - k \div 2] = Upto(k - k \div 2)
    BY <2>2, <2>4
  <2> QED
    BY <1>5, <2>2, <2>3, <2>5
<1> QED
  BY <1>1, <1>7 DEF Upto

LEMMA PackApplied ==
    ASSUME PackInv
    PROVE  P!Apply(pack) = pack /\ P!ApplyTuple(pack) = pack
<1> DEFINE n == Len(pack)
           places == P!MakeIntegerSequence[n]
<1>1. n \in 0..MaxSize /\ pack = [i \in 1..n |-> pack[i]]
  BY PacksBounds DEF PackInv
<1>2. places = [i \in 1..n |-> i - 1]
  BY <1>1, MakeMeans
<1>3. /\ P!Apply(pack) = [i \in DOMAIN places |-> pack[places[i] + 1]]
      /\ P!ApplyTuple(pack) = [i \in DOMAIN places |-> pack[places[i] + 1]]
  BY DEF P!Apply, P!ApplyTuple, P!MakeIndexSequence
<1> HIDE DEF n, places
<1>4. DOMAIN places = 1..n /\ \A i \in 1..n : places[i] + 1 = i
  BY <1>1, <1>2
<1>5. [i \in DOMAIN places |-> pack[places[i] + 1]] = [i \in 1..n |-> pack[i]]
  BY <1>4
<1> QED
  BY <1>1, <1>3, <1>5, Zenon

LEMMA PackOrder == PackInv => PacksKeepOrder
<1> SUFFICES ASSUME PackInv PROVE PacksKeepOrder
  OBVIOUS
<1> DEFINE n == Len(pack)
<1>1. /\ n \in Nat /\ DOMAIN pack = 1..n /\ pack \in Seq(0..MaxArgument)
  BY DEF PackInv
<1>2. pack \in Seq(Nat)
  <2>1. 0..MaxArgument \subseteq Nat
    BY PacksBounds
  <2> QED
    BY <1>1, <2>1, SeqMonotonic
<1>3. pack # <<>> => n > 0
  BY <1>1
<1>4. ASSUME NEW x \in 0..MaxArgument, pack # <<>>
      PROVE  LET first == P!OverloadLinearly(pack, x)
                 fits == [i \in DOMAIN pack |-> P!Accepts(pack[i], x)] IN
             /\ P!Any(fits) <=> \E i \in DOMAIN pack : fits[i]
             /\ P!Any(fits) <=> fits[first]
             /\ \A i \in 1..(first - 1) : ~fits[i]
             /\ (\A i, j \in DOMAIN pack : i < j => pack[i] < pack[j])
                    => P!Overload(pack, x) = IF fits[first] THEN {first} ELSE {}
  <2> DEFINE first == P!OverloadLinearly(pack, x)
             fits == [i \in DOMAIN pack |-> P!Accepts(pack[i], x)]
  <2>1. /\ first \in 1..n /\ (first = n \/ P!Accepts(pack[first], x))
        /\ \A j \in 1..(first - 1) : ~P!Accepts(pack[j], x)
    BY <1>1, <1>3, <1>4, OverloadMeans
  <2>2. /\ \A i \in 1..n : fits[i] = (x <= pack[i])
        /\ \A i \in 1..n : fits[i] \in BOOLEAN
        /\ Len(fits) = n
    <3>1. fits = [i \in 1..n |-> x <= pack[i]]
      BY <1>1 DEF P!Accepts
    <3> HIDE DEF fits, n
    <3>2. \A i \in 1..n : (x <= pack[i]) \in BOOLEAN
      BY <1>1, <1>2
    <3>3. fits \in [1..n -> BOOLEAN]
      BY <3>1, <3>2
    <3>4. \A i \in 1..n : fits[i] = (x <= pack[i])
      BY <3>1, Zenon
    <3>5. Len(fits) = n
      BY <1>1, <3>3
    <3> QED
      BY <3>3, <3>4, <3>5
  <2> HIDE DEF fits, n, first
  <2>3. P!Any(fits) <=> \E i \in 1..n : fits[i]
    BY <1>1, <1>3, <1>4, <2>2, AnyMeans
  <2>4. (first = n \/ x <= pack[first]) /\ \A j \in 1..(first - 1) : ~(x <= pack[j])
    BY <2>1 DEF P!Accepts
  <2>5. \A j \in 1..(first - 1) : j \in 1..n /\ ~fits[j]
    <3>1. \A j \in 1..(first - 1) : j \in 1..n
      BY <1>1, <2>1
    <3> QED
      BY <2>2, <2>4, <3>1
  <2>6. (\E i \in 1..n : fits[i]) <=> fits[first]
    <3>1. ASSUME NEW i \in 1..n, fits[i] PROVE fits[first]
      <4>1. first = n => i = first \/ i \in 1..(first - 1)
        BY <1>1, <2>1
      <4>2. x <= pack[first] => fits[first]
        BY <2>1, <2>2
      <4> QED
        BY <2>4, <2>5, <3>1, <4>1, <4>2
    <3> QED
      BY <2>1, <3>1
  <2>7. DOMAIN pack = 1..n
    BY <1>1
  <2>8. ASSUME \A i, j \in 1..n : i < j => pack[i] < pack[j]
        PROVE  P!Overload(pack, x) = IF fits[first] THEN {first} ELSE {}
    <3>1. \A i \in 1..n : pack[i] \in Nat
      BY <1>1, <1>2
    <3>2. P!Overload(pack, x) =
             {i \in 1..n : /\ x <= pack[i]
                           /\ \A j \in (1..n) \ {i} :
                                  x <= pack[j] => pack[i] < pack[j]}
      BY <2>7 DEF P!Overload, P!Accepts
    <3>3. CASE ~fits[first]
      <4>1. \A i \in 1..n : ~(x <= pack[i])
        BY <2>2, <2>6, <3>3
      <4> QED
        BY <3>2, <3>3, <4>1
    <3>4. CASE fits[first]
      <4>1. x <= pack[first] /\ first \in 1..n
        BY <2>1, <2>2, <3>4
      <4>2. ASSUME NEW j \in (1..n) \ {first}, x <= pack[j]
            PROVE  pack[first] < pack[j]
        <5>1. j \notin 1..(first - 1)
          BY <2>4, <4>2
        <5>2. first < j
          BY <1>1, <4>1, <4>2, <5>1
        <5> QED
          BY <2>8, <4>1, <4>2, <5>2
      <4>3. ASSUME NEW i \in (1..n) \ {first}, x <= pack[i]
            PROVE  ~(pack[i] < pack[first])
        BY <3>1, <4>1, <4>2, <4>3
      <4>4. first \in P!Overload(pack, x)
        BY <3>2, <4>1, <4>2
      <4>5. \A i \in P!Overload(pack, x) : i = first
        BY <3>2, <4>1, <4>3
      <4> QED
        BY <3>4, <4>4, <4>5
    <3> QED
      BY <3>3, <3>4
  <2> QED
    BY <2>3, <2>5, <2>6, <2>7, <2>8, Zenon DEF fits, first
<1>5. pack # <<>> => /\ \E i \in DOMAIN pack : P!MaxOf(pack) = pack[i]
                     /\ \A i \in DOMAIN pack : pack[i] <= P!MaxOf(pack)
  BY <1>1, <1>2, MaxMeans
<1> QED
  BY <1>4, <1>5, PackApplied DEF PacksKeepOrder, P!PacksKeepOrder

(* PacksKeepOrder: for packs of any size.                                    *)
THEOREM PacksAreKeptInOrder == UtilitiesSpec => []PacksKeepOrder
<1>1. UtilitiesInit => PackInv
  BY PacksBounds DEF UtilitiesInit, P!Init, PackInv
<1>2. ASSUME PackInv, [P!Next]_pack PROVE PackInv'
  <2>1. ASSUME NEW x \in 0..MaxArgument, P!Extend(x) PROVE PackInv'
    <3>1. pack \in Seq(0..MaxArgument) /\ Len(pack) < MaxSize
      BY <1>2, <2>1 DEF PackInv, P!Extend
    <3>2. /\ Append(pack, x) \in Seq(0..MaxArgument)
          /\ Len(Append(pack, x)) = Len(pack) + 1
      BY <3>1
    <3> QED
      BY <2>1, <3>1, <3>2, PacksBounds DEF P!Extend, PackInv
  <2> QED
    BY <1>2, <2>1 DEF P!Next, PackInv
<1> QED
  BY <1>1, <1>2, EachByItself, PackOrder, PTL DEF UtilitiesSpec
-----------------------------------------------------------------------------
(* Whoever has the object, or is constructing it, has the latest one, which  *)
(* is not being destroyed; while one is under construction, by the user who  *)
(* has the mutex, nobody has one; and a pointer is to what wp was set to.    *)
Some == 1..made
GlobalInv ==
    /\ made \in Nat /\ made <= MaxObjects
    /\ p \in [Users -> Some \cup {Nothing}]
    /\ building \in [Users -> Some \cup {Nothing}]
    /\ dying \subseteq Some /\ wp \in Some \cup {Nothing}
    /\ \A u \in inside : p[u] = Nothing /\ \A v \in inside : u = v
    /\ \A u \in Users : building[u] # Nothing =>
           /\ u \in inside /\ building[u] = made /\ made \notin dying
           /\ \A v \in Users : p[v] = Nothing
    /\ \A u \in Users : p[u] # Nothing =>
           p[u] = made /\ p[u] = wp /\ made \notin dying

LEMMA NothingMade == Nothing \notin 1..MaxObjects /\ MaxObjects \in Nat
BY DistinctAssumption DEF O!GlobalAssumption

LEMMA ExpiredWhen ==
  ASSUME p \in [Users -> Some \cup {Nothing}], NEW o
  PROVE  O!Expired(o) <=> \A u \in Users : p[u] # o
BY DEF O!Expired, O!Range

LEMMA ResetKeeps ==
  ASSUME GlobalInv, NEW u \in Users, u \notin inside,
         NEW to \in Some \cup {Nothing},
         to = Nothing \/ \E v \in Users : p[v] = to /\ p[v] # Nothing,
         O!Reset(u, to), UNCHANGED <<inside, wp, made, building>>
  PROVE  GlobalInv'
<1>1. p' = [p EXCEPT ![u] = to] /\ p' \in [Users -> Some \cup {Nothing}]
  BY DEF GlobalInv, O!Reset
<1>2. dying' = dying \cup {o \in {p[u]} \ {Nothing} : O!Expired(o)'}
  BY DEF O!Reset
<1>3. dying' \subseteq Some
  BY <1>2 DEF GlobalInv
<1>4. \A v \in Users : p'[v] # Nothing => p'[v] = made /\ p'[v] = wp
  BY <1>1 DEF GlobalInv
<1>5. \A v \in Users : p'[v] # Nothing => made \notin dying'
  <2> SUFFICES ASSUME NEW v \in Users, p'[v] # Nothing PROVE made \notin dying'
    OBVIOUS
  <2>1. made \notin dying
    BY <1>1 DEF GlobalInv
  <2>2. ~O!Expired(made)'
    BY <1>1, <1>4 DEF O!Expired, O!Range
  <2> QED
    BY <1>2, <2>1, <2>2
<1>6. \A v \in Users : building[v] # Nothing =>
          (\A w \in Users : p'[w] = Nothing) /\ made \notin dying'
  <2> SUFFICES ASSUME NEW v \in Users, building[v] # Nothing
               PROVE  (\A w \in Users : p'[w] = Nothing) /\ made \notin dying'
    OBVIOUS
  <2>1. \A w \in Users : p[w] = Nothing
    BY DEF GlobalInv
  <2>2. to = Nothing /\ dying' = dying
    BY <1>2, <2>1
  <2> QED
    BY <1>1, <2>1, <2>2 DEF GlobalInv
<1>7. \A v \in inside : p'[v] = Nothing
  BY <1>1 DEF GlobalInv
<1> QED
  BY <1>1, <1>3, <1>4, <1>5, <1>6, <1>7 DEF GlobalInv, Some

LEMMA GlobalStep ==
  ASSUME GlobalInv, [O!Next]_globalVars
  PROVE  GlobalInv'
<1>1. CASE UNCHANGED globalVars
  BY <1>1 DEF globalVars, GlobalInv, Some
<1>2. ASSUME NEW u \in Users, O!Lock(u) PROVE GlobalInv'
  <2>1. inside = {} /\ p[u] = Nothing /\ inside' = {u}
        /\ UNCHANGED <<wp, made, building, dying, p>>
    BY <1>2 DEF O!Lock
  <2> QED
    BY <2>1 DEF GlobalInv, Some
<1>3. ASSUME NEW u \in Users, O!Find(u) PROVE GlobalInv'
  <2>1. /\ u \in inside /\ building[u] = Nothing /\ wp # Nothing
        /\ p' = [p EXCEPT ![u] = wp] /\ inside' = inside \ {u}
        /\ UNCHANGED <<wp, made, building, dying>>
    BY <1>3 DEF O!Find
  <2>2. PICK v \in Users : p[v] = wp
    BY <1>3, ExpiredWhen DEF O!Find, GlobalInv
  <2>3. wp = made /\ made \notin dying
    BY <2>1, <2>2 DEF GlobalInv
  <2>4. \A w \in Users : building[w] = Nothing
    BY <2>1, <2>2 DEF GlobalInv
  <2>5. p' \in [Users -> Some \cup {Nothing}] /\ \A w \in inside' : FALSE
    BY <2>1 DEF GlobalInv
  <2> QED
    BY <2>1, <2>3, <2>4, <2>5 DEF GlobalInv, Some
<1>4. ASSUME NEW u \in Users, O!Make(u) PROVE GlobalInv'
  <2>1. /\ u \in inside /\ building[u] = Nothing /\ made < MaxObjects
        /\ made' = made + 1 /\ building' = [building EXCEPT ![u] = made + 1]
        /\ UNCHANGED <<inside, wp, dying, p>>
    BY <1>4 DEF O!Make
  <2>2. \A v \in Users : p[v] = Nothing
    <3>1. wp = Nothing \/ O!Expired(wp)
      BY <1>4 DEF O!Make
    <3>2. wp = Nothing \/ \A v \in Users : p[v] # wp
      BY <3>1, ExpiredWhen DEF GlobalInv
    <3> QED
      BY <3>2 DEF GlobalInv
  <2>3. \A v \in Users : v # u => building[v] = Nothing
    BY <2>1 DEF GlobalInv
  <2>4. /\ made' \in Nat /\ made' <= MaxObjects /\ made' \notin dying'
        /\ Some \subseteq Some' /\ made' \in Some' /\ made' # Nothing
    BY <2>1, NothingMade DEF GlobalInv, Some
  <2>5. /\ building' \in [Users -> Some' \cup {Nothing}]
        /\ p' \in [Users -> Some' \cup {Nothing}]
        /\ dying' \subseteq Some' /\ wp' \in Some' \cup {Nothing}
    BY <2>1, <2>4 DEF GlobalInv
  <2>6. \A v \in Users : building'[v] # Nothing => v = u /\ building'[v] = made'
    BY <2>1, <2>3 DEF GlobalInv
  <2>7. \A v \in Users : p'[v] = Nothing
    BY <2>1, <2>2
  <2> HIDE DEF Some
  <2>8. inside' = inside
    BY <2>1
  <2> QED
    BY <2>1, <2>4, <2>5, <2>6, <2>7, <2>8 DEF GlobalInv
<1>5. ASSUME NEW u \in Users, O!Made(u) PROVE GlobalInv'
  <2>1. /\ building[u] # Nothing /\ building' = [building EXCEPT ![u] = Nothing]
        /\ inside' = inside \ {u} /\ UNCHANGED <<made, dying>>
        /\ wp' = building[u] /\ p' = [p EXCEPT ![u] = building[u]]
    BY <1>5 DEF O!Made, O!Leave
  <2>2. /\ u \in inside /\ building[u] = made /\ made \notin dying
        /\ \A v \in Users : p[v] = Nothing
    BY <2>1 DEF GlobalInv
  <2>3. /\ \A v \in inside' : FALSE
        /\ \A v \in Users : building'[v] = Nothing
    BY <2>1, <2>2 DEF GlobalInv
  <2>4. /\ p' \in [Users -> Some \cup {Nothing}] /\ wp' \in Some
        /\ building' \in [Users -> Some \cup {Nothing}]
    BY <2>1, NothingMade DEF GlobalInv
  <2> QED
    BY <2>1, <2>2, <2>3, <2>4 DEF GlobalInv, Some
<1>6. ASSUME NEW u \in Users, O!Throw(u) PROVE GlobalInv'
  <2>1. /\ building[u] # Nothing /\ building' = [building EXCEPT ![u] = Nothing]
        /\ inside' = inside \ {u} /\ UNCHANGED <<made, dying, wp, p>>
    BY <1>6 DEF O!Throw, O!Leave
  <2>2. \A v \in Users : building'[v] = Nothing
    BY <2>1 DEF GlobalInv
  <2> QED
    BY <2>1, <2>2 DEF GlobalInv, Some
<1>7. ASSUME NEW u \in Users, O!Release(u) PROVE GlobalInv'
  <2>1. u \notin inside
    BY <1>7 DEF O!Release, GlobalInv
  <2> QED
    BY <1>7, <2>1, ResetKeeps DEF O!Release
<1>8. ASSUME NEW u \in Users, NEW v \in Users, O!Share(u, v) PROVE GlobalInv'
  <2>1. p[u] \in Some \cup {Nothing} /\ p[u] # Nothing /\ v \notin inside
    BY <1>8 DEF O!Share, GlobalInv
  <2> QED
    BY <1>8, <2>1, ResetKeeps DEF O!Share
<1>9. ASSUME NEW o, O!Destroyed(o) PROVE GlobalInv'
  BY <1>9 DEF O!Destroyed, GlobalInv, Some
<1> QED
  BY <1>1, <1>2, <1>3, <1>4, <1>5, <1>6, <1>7, <1>8, <1>9 DEF O!Next

(* OneGlobal: for any number of users and of objects.                        *)
THEOREM GlobalIsOne == UtilitiesSpec => []OneGlobal
<1>1. UtilitiesInit => GlobalInv
  BY NothingMade DEF UtilitiesInit, O!Init, O!empty, GlobalInv, Some
<1>2. GlobalInv => OneGlobal
  BY DEF GlobalInv, OneGlobal, O!OneGlobal, O!Range
<1> QED
  BY <1>1, <1>2, EachByItself, GlobalStep, PTL DEF UtilitiesSpec

-----------------------------------------------------------------------------
(* An IoThread and the I/O objects whose handlers it runs.                   *)
AnObject == First \in IoObjects /\ NoObject \notin IoObjects

(* The future of run() is given up only after run() has ended, so that what  *)
(* it threw is known by then: join() has passed it on, or the destructor has *)
(* ended the program with it.                                                *)
Future ==
    /\ T!Blocked => mJoin
    /\ caller \in {"gone", "terminated"} => ~mJoin
    /\ caught => run = "threw" /\ ~mJoin
    /\ ~mJoin => run # "running"
    /\ ~mJoin /\ run = "threw" => caught \/ caller = "terminated"
    /\ caller = "terminated" => run = "threw" /\ ~caught

(* The count is of the IoThread's work object, those in handlers, and what   *)
(* is queued; and a handler whose operation has not ended has its own.       *)
Own == IF mWork THEN 1 ELSE 0
Counted == outstanding = Own + Cardinality(working) + Cardinality(T!Queued)
HandlersWork ==
    \A h \in Ops : /\ op[h] \in {"held", "completing"} => h \in working
                   /\ op[h] = "idle" => h \notin working

ThreadInv ==
    T!TypeOK /\ Future /\ Counted /\ HandlersWork /\ IsFiniteSet(Ops)

LEMMA ThreadInitial ==
    AnObject /\ IsFiniteSet(Ops) /\ T!Init => ThreadInv
<1> SUFFICES ASSUME AnObject, IsFiniteSet(Ops), T!Init PROVE ThreadInv
  OBVIOUS
<1>1. T!TypeOK /\ Future
  BY DEF AnObject, T!Init, T!InitThread, T!TypeOK, T!ThreadTypeOK, Future, T!Blocked
<1>2. HandlersWork
  BY DEF T!Init, HandlersWork
<1>3. T!Queued = {} /\ working = {}
  BY DEF T!Init, T!Queued, T!InState
<1>4. Cardinality({}) = 0
  BY FS_EmptySet
<1>5. outstanding = 1 /\ Own = 1
  BY DEF T!Init, T!InitThread, Own
<1>6. Counted
  BY <1>3, <1>4, <1>5 DEF Counted
<1> QED
  BY <1>1, <1>2, <1>6 DEF ThreadInv

(* What can be counted. *)
LEMMA Sizes ==
  ASSUME ThreadInv
  PROVE  /\ working \subseteq Ops /\ IsFiniteSet(working)
         /\ T!Queued \subseteq Ops /\ IsFiniteSet(T!Queued)
         /\ Cardinality(working) \in Nat /\ Cardinality(T!Queued) \in Nat
         /\ Own \in Nat /\ outstanding \in Nat
         /\ outstanding = Own + Cardinality(working) + Cardinality(T!Queued)
         /\ op \in [Ops -> {"idle", "held", "completing", "posted", "done"}]
         /\ \A h \in Ops : h \in T!Queued <=> op[h] \in {"completing", "posted"}
<1>1. /\ working \subseteq Ops /\ IsFiniteSet(Ops) /\ outstanding \in Nat
      /\ op \in [Ops -> {"idle", "held", "completing", "posted", "done"}]
  BY DEF ThreadInv, T!TypeOK, T!ThreadTypeOK
<1>2. T!Queued \subseteq Ops
  BY DEF T!Queued, T!InState
<1>3. \A h \in Ops : h \in T!Queued <=> op[h] \in {"completing", "posted"}
  BY DEF T!Queued, T!InState
<1>4. IsFiniteSet(working) /\ IsFiniteSet(T!Queued)
  BY <1>1, <1>2, FS_Subset
<1>5. Cardinality(working) \in Nat /\ Cardinality(T!Queued) \in Nat
  BY <1>4, FS_CardinalityType
<1>6. Own \in Nat
  BY DEF Own
<1>7. outstanding = Own + Cardinality(working) + Cardinality(T!Queued)
  BY DEF ThreadInv, Counted
<1> QED
  BY <1>1, <1>2, <1>3, <1>4, <1>5, <1>6, <1>7

LEMMA OneMore ==
  ASSUME NEW S, IsFiniteSet(S), NEW x, x \notin S
  PROVE  Cardinality(S \union {x}) = Cardinality(S) + 1
BY FS_AddElement

LEMMA OneLess ==
  ASSUME NEW S, IsFiniteSet(S), NEW x \in S
  PROVE  Cardinality(S \ {x}) = Cardinality(S) - 1
BY FS_RemoveElement

(* What happens to the objects and the operations leaves the owner alone;    *)
(* run() may end in it.                                                      *)
LEMMA FutureStep ==
  ASSUME ThreadInv, UNCHANGED <<mWork, mJoin, caller, caught>>,
         run' = run \/ (run = "running" /\ run' \in {"returned", "threw"})
  PROVE  /\ Future' /\ Own' = Own
         /\ {mWork', mJoin', caught'} \subseteq BOOLEAN
         /\ run' \in {"running", "returned", "threw"}
         /\ caller' \in {"free", "join", "destructor", "gone", "terminated"}
<1>1. Own' = Own
  BY DEF Own
<1>2. /\ {mWork', mJoin', caught'} \subseteq BOOLEAN
      /\ run' \in {"running", "returned", "threw"}
      /\ caller' \in {"free", "join", "destructor", "gone", "terminated"}
  BY DEF ThreadInv, T!TypeOK, T!ThreadTypeOK
<1>3. CASE run' = run
  BY <1>1, <1>2, <1>3 DEF ThreadInv, Future, T!Blocked
<1>4. CASE run = "running" /\ run' \in {"returned", "threw"}
  <2>1. mJoin /\ ~caught
    BY <1>4 DEF ThreadInv, Future
  <2> QED
    BY <1>1, <1>2, <1>4, <2>1 DEF ThreadInv, Future, T!Blocked
<1> QED
  BY <1>3, <1>4

LEMMA Finishing ==
  ASSUME T!WorkFinishes
  PROVE  /\ outstanding' = outstanding - 1
         /\ run' = run \/ (run = "running" /\ run' = "returned" /\ outstanding' = 0)
BY DEF T!WorkFinishes

(* The parts of ThreadInv put together. *)
LEMMA ThreadInvAgain ==
  ASSUME ThreadInv, UNCHANGED <<mWork, mJoin, caller, caught>>,
         run' = run \/ (run = "running" /\ run' \in {"returned", "threw"}),
         existing' \subseteq IoObjects, moved' \subseteq IoObjects,
         holder' \in existing' \union {NoObject},
         op' \in [Ops -> {"idle", "held", "completing", "posted", "done"}],
         working' \subseteq Ops, HandlersWork', outstanding' \in Nat,
         outstanding' = Own + Cardinality(working') + Cardinality(T!Queued')
  PROVE  ThreadInv'
<1>1. /\ Future' /\ Own' = Own
      /\ {mWork', mJoin', caught'} \subseteq BOOLEAN
      /\ run' \in {"running", "returned", "threw"}
      /\ caller' \in {"free", "join", "destructor", "gone", "terminated"}
  BY FutureStep
<1>2. T!TypeOK'
  BY <1>1 DEF T!TypeOK, T!ThreadTypeOK
<1>3. Counted'
  BY <1>1 DEF Counted
<1>4. IsFiniteSet(Ops)
  BY DEF ThreadInv
<1> QED
  BY <1>1, <1>2, <1>3, <1>4 DEF ThreadInv

LEMMA ObjectsStay ==
  ASSUME ThreadInv, UNCHANGED <<existing, holder, moved>>
  PROVE  /\ existing' \subseteq IoObjects /\ moved' \subseteq IoObjects
         /\ holder' \in existing' \union {NoObject}
BY DEF ThreadInv, T!TypeOK

LEMMA StartStep ==
  ASSUME ThreadInv, NEW h \in Ops, T!Start(h)
  PROVE  ThreadInv'
<1>1. /\ op[h] = "idle" /\ op' = [op EXCEPT ![h] = "held"]
      /\ working' = working \union {h} /\ outstanding' = outstanding + 1
      /\ run' = run
      /\ UNCHANGED <<existing, holder, moved, mWork, mJoin, caller, caught>>
  BY DEF T!Start, T!MakeHandler, T!WorkStarts
<1>2. h \notin working /\ HandlersWork'
  BY <1>1, Sizes DEF ThreadInv, HandlersWork
<1>3. T!Queued' = T!Queued
  BY <1>1, Sizes DEF T!Queued, T!InState
<1>4. Cardinality(working') = Cardinality(working) + 1
  BY <1>1, <1>2, Sizes, OneMore
<1>5. /\ op' \in [Ops -> {"idle", "held", "completing", "posted", "done"}]
      /\ working' \subseteq Ops
  BY <1>1, Sizes
<1>6. /\ outstanding' \in Nat
      /\ outstanding' = Own + Cardinality(working') + Cardinality(T!Queued')
  BY <1>1, <1>3, <1>4, Sizes
<1> QED
  BY <1>1, <1>2, <1>5, <1>6, ObjectsStay, ThreadInvAgain

LEMMA EndStep ==
  ASSUME ThreadInv, NEW h \in Ops, T!End(h)
  PROVE  ThreadInv'
<1>1. /\ op[h] = "held" /\ op' = [op EXCEPT ![h] = "posted"]
      /\ working' = working /\ outstanding' = outstanding + 1 /\ run' = run
      /\ UNCHANGED <<existing, holder, moved, mWork, mJoin, caller, caught>>
  BY DEF T!End, T!WorkStarts
<1>2. HandlersWork'
  BY <1>1, Sizes DEF ThreadInv, HandlersWork
<1>3. h \notin T!Queued /\ T!Queued' = T!Queued \union {h}
  BY <1>1, Sizes DEF T!Queued, T!InState
<1>4. Cardinality(T!Queued') = Cardinality(T!Queued) + 1
  BY <1>3, Sizes, OneMore
<1>5. /\ op' \in [Ops -> {"idle", "held", "completing", "posted", "done"}]
      /\ working' \subseteq Ops
  BY <1>1, Sizes
<1>6. /\ outstanding' \in Nat
      /\ outstanding' = Own + Cardinality(working') + Cardinality(T!Queued')
  BY <1>1, <1>4, Sizes
<1> QED
  BY <1>1, <1>2, <1>5, <1>6, ObjectsStay, ThreadInvAgain

LEMMA ReleaseStep ==
  ASSUME ThreadInv, NEW h \in Ops, T!Release(h)
  PROVE  ThreadInv' /\ (run' # run => outstanding' = 0)
<1>1. /\ h \in working /\ op[h] \in {"posted", "done"}
      /\ op' = op /\ working' = working \ {h} /\ outstanding' = outstanding - 1
      /\ run' = run \/ (run = "running" /\ run' = "returned" /\ outstanding' = 0)
      /\ UNCHANGED <<existing, holder, moved, mWork, mJoin, caller, caught>>
  BY Finishing DEF T!Release
<1>2. HandlersWork'
  BY <1>1, Sizes DEF ThreadInv, HandlersWork
<1>3. T!Queued' = T!Queued
  BY <1>1 DEF T!Queued, T!InState
<1>4. /\ Cardinality(working') = Cardinality(working) - 1
      /\ Cardinality(working') \in Nat
  <2>1. IsFiniteSet(working')
    BY <1>1, Sizes, FS_Subset
  <2> QED
    BY <1>1, <2>1, Sizes, OneLess, FS_CardinalityType
<1>5. /\ op' \in [Ops -> {"idle", "held", "completing", "posted", "done"}]
      /\ working' \subseteq Ops
  BY <1>1, Sizes
<1>6. /\ outstanding' \in Nat
      /\ outstanding' = Own + Cardinality(working') + Cardinality(T!Queued')
  BY <1>1, <1>3, <1>4, Sizes
<1> QED
  BY <1>1, <1>2, <1>5, <1>6, ObjectsStay, ThreadInvAgain

LEMMA InvokeStep ==
  ASSUME ThreadInv, NEW h \in Ops, T!Invoke(h) \/ T!InvokeThrows(h)
  PROVE  ThreadInv' /\ (run' = "returned" => outstanding' = 0)
<1>1. /\ run = "running" /\ h \in T!Queued /\ op' = [op EXCEPT ![h] = "done"]
      /\ UNCHANGED <<existing, holder, moved, working, mWork, mJoin, caller, caught>>
  BY DEF T!Invoke, T!InvokeThrows, T!Run
<1>2. /\ outstanding' = outstanding - 1
      /\ \/ run' = run \/ run' = "threw"
         \/ run' = "returned" /\ outstanding' = 0
  BY <1>1, Finishing DEF T!Invoke, T!InvokeThrows
<1>3. HandlersWork'
  BY <1>1, Sizes DEF ThreadInv, HandlersWork
<1>4. T!Queued' = T!Queued \ {h}
  BY <1>1, Sizes DEF T!Queued, T!InState
<1>5. /\ Cardinality(T!Queued') = Cardinality(T!Queued) - 1
      /\ Cardinality(T!Queued') \in Nat
  <2>1. IsFiniteSet(T!Queued')
    BY <1>4, Sizes, FS_Subset
  <2> QED
    BY <1>1, <1>4, <2>1, Sizes, OneLess, FS_CardinalityType
<1>6. /\ op' \in [Ops -> {"idle", "held", "completing", "posted", "done"}]
      /\ working' \subseteq Ops
  BY <1>1, Sizes
<1>7. /\ outstanding' \in Nat
      /\ outstanding' = Own + Cardinality(working') + Cardinality(T!Queued')
  BY <1>1, <1>2, <1>5, Sizes
<1>8. run' = run \/ (run = "running" /\ run' \in {"returned", "threw"})
  BY <1>1, <1>2
<1> QED
  BY <1>1, <1>2, <1>3, <1>6, <1>7, <1>8, ObjectsStay, ThreadInvAgain

(* FiniteSets comes in by two ways. *)
LEMMA SameCardinality == \A S : T!Cardinality(S) = Cardinality(S)
BY Zenon DEF T!Cardinality, Cardinality

(* close(): what was held is queued, still with its work object. *)
LEMMA ClosedStep ==
  ASSUME ThreadInv, NEW o \in IoObjects, T!Closed(o),
         existing' \subseteq IoObjects, holder' \in existing' \union {NoObject}
  PROVE  ThreadInv' /\ run' = run
<1> DEFINE E == T!Ended(o)
           C == Cardinality(E)
<1>1. /\ op' = [h \in Ops |-> IF h \in E THEN "completing" ELSE op[h]]
      /\ outstanding' = outstanding + C /\ run' = run
      /\ UNCHANGED <<moved, working, mWork, mJoin, caller, caught>>
  <2>1. /\ op' = [h \in Ops |-> IF h \in E THEN "completing" ELSE op[h]]
        /\ T!WorkStarts(C)
        /\ UNCHANGED <<moved, working, mWork, mJoin, caller, caught>>
    <3>1. T!Cardinality(T!Ended(o)) = C
      BY SameCardinality, Zenon
    <3> QED
      BY <3>1, Zenon DEF T!Closed
  <2> HIDE DEF C, E
  <2>2. outstanding' = outstanding + C /\ run' = run
    BY <2>1 DEF T!WorkStarts
  <2> QED
    BY <2>1, <2>2, Zenon
<1>2. E \subseteq Ops /\ \A h \in E : op[h] = "held"
  BY DEF T!Ended, T!InState
<1> HIDE DEF E
<1>3. HandlersWork'
  BY <1>1, <1>2, Sizes DEF ThreadInv, HandlersWork
<1>4. T!Queued' = T!Queued \union E
  BY <1>1, <1>2, Sizes DEF T!Queued, T!InState
<1>5. IsFiniteSet(E)
  BY <1>2, FS_Subset DEF ThreadInv
<1>6. T!Queued \intersect E = {}
  BY <1>2, Sizes
<1>7. Cardinality(T!Queued') = Cardinality(T!Queued) + C /\ C \in Nat
  <2>1. Cardinality({}) = 0 /\ C \in Nat
    BY <1>5, FS_EmptySet, FS_CardinalityType
  <2>2. Cardinality(T!Queued \union E)
            = Cardinality(T!Queued) + C - Cardinality(T!Queued \intersect E)
    BY <1>5, Sizes, FS_Union
  <2>3. Cardinality(T!Queued \intersect E) = 0
    BY <1>6, <2>1, Zenon
  <2>4. Cardinality(T!Queued') = Cardinality(T!Queued) + C - 0
    BY <1>4, <2>2, <2>3, Zenon
  <2> QED
    BY <2>1, <2>4, Sizes
<1> HIDE DEF C
<1>8. /\ op' \in [Ops -> {"idle", "held", "completing", "posted", "done"}]
      /\ working' \subseteq Ops /\ moved' \subseteq IoObjects
  BY <1>1, Sizes DEF ThreadInv, T!TypeOK
<1>9. /\ outstanding' \in Nat
      /\ outstanding' = Own + Cardinality(working') + Cardinality(T!Queued')
  BY <1>1, <1>7, Sizes
<1> QED
  BY <1>1, <1>3, <1>8, <1>9, ThreadInvAgain

LEMMA ObjectsStep ==
  ASSUME ThreadInv, NEW o \in IoObjects, T!Close(o) \/ T!Destroy(o)
  PROVE  ThreadInv' /\ run' = run
<1>1. existing \subseteq IoObjects /\ holder \in existing \union {NoObject}
  BY DEF ThreadInv, T!TypeOK
<1>2. CASE T!Close(o)
  BY <1>1, <1>2, ClosedStep DEF T!Close
<1>3. CASE T!Destroy(o)
  <2>1. T!Closed(o) /\ existing' = existing \ {o} /\ holder' = T!PointerAfter(o)
    BY <1>3 DEF T!Destroy
  <2>2. existing' \subseteq IoObjects /\ holder' \in existing' \union {NoObject}
    BY <1>1, <2>1 DEF T!PointerAfter
  <2> QED
    BY <2>1, <2>2, ClosedStep
<1> QED
  BY <1>2, <1>3

LEMMA MoveStep ==
  ASSUME ThreadInv, NEW from \in IoObjects, NEW to \in IoObjects,
         T!MoveConstruct(from, to)
  PROVE  ThreadInv' /\ run' = run
<1>1. /\ existing' = existing \union {to} /\ holder' = to
      /\ moved' = moved \union {from}
      /\ UNCHANGED <<op, working, mWork, run, mJoin, caller, outstanding, caught>>
  BY DEF T!MoveConstruct, T!threadVars
<1>2. /\ existing' \subseteq IoObjects /\ moved' \subseteq IoObjects
      /\ holder' \in existing' \union {NoObject}
  BY <1>1 DEF ThreadInv, T!TypeOK
<1>3. HandlersWork' /\ T!Queued' = T!Queued
  BY <1>1 DEF ThreadInv, HandlersWork, T!Queued, T!InState
<1>4. /\ op' \in [Ops -> {"idle", "held", "completing", "posted", "done"}]
      /\ working' \subseteq Ops /\ outstanding' \in Nat
      /\ outstanding' = Own + Cardinality(working') + Cardinality(T!Queued')
  BY <1>1, <1>3, Sizes
<1> QED
  BY <1>1, <1>2, <1>3, <1>4, ThreadInvAgain

(* The work object of the IoThread goes. *)
LEMMA DropStep ==
  ASSUME ThreadInv, T!DropWork
  PROVE  /\ mWork' = FALSE /\ Own' = 0 /\ outstanding' \in Nat
         /\ outstanding' = Cardinality(working) + Cardinality(T!Queued)
         /\ run' = run \/ (run = "running" /\ run' = "returned" /\ outstanding' = 0)
<1>1. mWork' = FALSE /\ mWork \in BOOLEAN
  BY DEF T!DropWork, ThreadInv, T!TypeOK, T!ThreadTypeOK
<1>2. CASE mWork
  <2>1. /\ outstanding' = outstanding - 1
        /\ run' = run \/ (run = "running" /\ run' = "returned" /\ outstanding' = 0)
    BY <1>2, Finishing DEF T!DropWork
  <2>2. Own = 1
    BY <1>2 DEF Own
  <2> QED
    BY <1>1, <2>1, <2>2, Sizes DEF Own
<1>3. CASE ~mWork
  <2>1. outstanding' = outstanding /\ run' = run
    BY <1>3 DEF T!DropWork
  <2>2. Own = 0
    BY <1>3 DEF Own
  <2> QED
    BY <1>1, <2>1, <2>2, Sizes DEF Own
<1> QED
  BY <1>1, <1>2, <1>3

(* join(), the destructor, and the get() in which either waits. *)
LEMMA OwnerStep ==
  ASSUME ThreadInv, T!OwnerActs
  PROVE  ThreadInv' /\ (run' # run => outstanding' = 0)
<1>1. UNCHANGED <<existing, holder, moved, op, working>>
  BY DEF T!OwnerActs
<1>2. HandlersWork' /\ T!Queued' = T!Queued /\ IsFiniteSet(Ops)
  BY <1>1 DEF ThreadInv, HandlersWork, T!Queued, T!InState
<1>3. CASE T!Join \/ T!Destructor
  <2>1. /\ T!DropWork /\ caller = "free" /\ UNCHANGED <<mJoin, caught>>
        /\ \/ mJoin /\ caller' \in {"join", "destructor"}
           \/ ~mJoin /\ caller' \in {"free", "gone"}
    <3>1. CASE T!Join
      BY <3>1 DEF T!Join
    <3>2. CASE T!Destructor
      BY <3>2 DEF T!Destructor
    <3> QED
      BY <1>3, <3>1, <3>2
  <2>2. /\ mWork' = FALSE /\ Own' = 0 /\ outstanding' \in Nat
        /\ outstanding' = Cardinality(working) + Cardinality(T!Queued)
        /\ run' = run \/ (run = "running" /\ run' = "returned" /\ outstanding' = 0)
    BY <2>1, DropStep
  <2>3. Counted'
    BY <1>1, <1>2, <2>2, Sizes DEF Counted
  <2>4. /\ mWork' \in BOOLEAN /\ mJoin' \in BOOLEAN /\ caught' \in BOOLEAN
        /\ run' \in {"running", "returned", "threw"}
        /\ caller' \in {"free", "join", "destructor", "gone", "terminated"}
    BY <2>1, <2>2 DEF ThreadInv, T!TypeOK, T!ThreadTypeOK
  <2>5. Future'
    BY <2>1, <2>2 DEF ThreadInv, Future, T!Blocked
  <2>6. T!TypeOK'
    BY <1>1, <2>2, <2>4 DEF ThreadInv, T!TypeOK, T!ThreadTypeOK
  <2> QED
    BY <1>2, <2>2, <2>3, <2>5, <2>6 DEF ThreadInv
<1>4. CASE T!Get
  <2>1. run' = run /\ mWork' = mWork /\ outstanding' = outstanding /\ ~mJoin'
        /\ run # "running" /\ T!Blocked /\ mJoin' = FALSE
    BY <1>4 DEF T!Get
  <2>2. mJoin /\ ~caught /\ mWork' \in BOOLEAN
    BY <2>1 DEF ThreadInv, Future, T!TypeOK, T!ThreadTypeOK
  <2>3. \/ run # "threw" /\ caller' \in {"free", "gone"} /\ caught' = FALSE
        \/ run = "threw" /\ caller' = "free" /\ caught' = TRUE
        \/ run = "threw" /\ caller' = "terminated" /\ caught' = FALSE
    <3>1. CASE caller = "join"
      BY <1>4, <3>1 DEF T!Get
    <3>2. CASE caller = "destructor"
      <4>1. caught' = caught /\ caught \in BOOLEAN
        BY <1>4, <3>2 DEF T!Get, ThreadInv, T!TypeOK, T!ThreadTypeOK
      <4>2. caller' = IF run = "threw" THEN "terminated" ELSE "gone"
        BY <1>4, <3>2 DEF T!Get
      <4> QED
        BY <2>2, <4>1, <4>2
    <3> QED
      BY <1>4, <3>1, <3>2 DEF T!Get
  <2>4. caught' \in BOOLEAN
    BY <2>3
  <2>5. Future'
    BY <2>1, <2>2, <2>3 DEF ThreadInv, Future, T!Blocked
  <2>6. T!ThreadTypeOK'
    BY <2>1, <2>2, <2>3, <2>4 DEF ThreadInv, T!TypeOK, T!ThreadTypeOK
  <2>7. T!TypeOK'
    BY <1>1, <2>6 DEF ThreadInv, T!TypeOK
  <2>8. Counted'
    <3>1. Own' = Own
      BY <2>1 DEF Own
    <3> QED
      BY <1>1, <1>2, <2>1, <3>1 DEF ThreadInv, Counted
  <2> QED
    BY <1>2, <2>1, <2>5, <2>7, <2>8 DEF ThreadInv
<1> QED
  BY <1>3, <1>4 DEF T!OwnerActs

(* And run() returns only as the count comes to zero. *)
LEMMA ThreadInductive ==
  ASSUME ThreadInv, [T!Next]_(T!vars)
  PROVE  /\ ThreadInv'
         /\ run = "running" /\ run' = "returned" => outstanding' = 0
<1>1. CASE \E h \in Ops : T!Start(h) \/ T!End(h)
  <2>1. run' = run
    BY <1>1 DEF T!Start, T!End, T!MakeHandler, T!WorkStarts
  <2> QED
    BY <1>1, <2>1, StartStep, EndStep
<1>2. CASE \E h \in Ops : T!Release(h)
  BY <1>2, ReleaseStep
<1>3. CASE \E h \in Ops : T!Invoke(h) \/ T!InvokeThrows(h)
  BY <1>3, InvokeStep
<1>4. CASE \E o \in IoObjects : T!Close(o) \/ T!Destroy(o)
  BY <1>4, ObjectsStep
<1>5. CASE \E from, to \in IoObjects : T!MoveConstruct(from, to)
  BY <1>5, MoveStep
<1>6. CASE T!OwnerActs
  BY <1>6, OwnerStep
<1>7. CASE UNCHANGED T!vars
  BY <1>7 DEF T!vars, T!threadVars, ThreadInv, T!TypeOK, T!ThreadTypeOK, Future,
              T!Blocked, Counted, Own, HandlersWork, T!Queued, T!InState
<1> QED
  BY <1>1, <1>2, <1>3, <1>4, <1>5, <1>6, <1>7 DEF T!Next

(* Type correctness of I/O objects and their thread.                         *)
THEOREM ThreadTypes == AnObject /\ IsFiniteSet(Ops) /\ T!Spec => []T!TypeOK
<1>1. ThreadInv => T!TypeOK
  BY DEF ThreadInv
<1>2. ThreadInv /\ [T!Next]_(T!vars) => ThreadInv'
  BY ThreadInductive
<1> QED
  BY ThreadInitial, <1>1, <1>2, PTL DEF T!Spec

(* RunOutlivesHandlers: when run() returns, nothing is queued and no handler *)
(* exists, for any number of operations and objects.                         *)
THEOREM RunIsLast ==
    AnObject /\ IsFiniteSet(Ops) /\ T!Spec => T!RunOutlivesHandlers
<1>1. ASSUME ThreadInv, outstanding = 0
      PROVE  T!UnderWay = {} /\ working = {}
  <2>1. Cardinality(working) = 0 /\ Cardinality(T!Queued) = 0
    BY <1>1, Sizes
  <2>2. working = {} /\ T!Queued = {}
    BY <1>1, <2>1, Sizes, FS_EmptySet
  <2>3. T!InState("held") = {}
    BY <1>1, <2>2 DEF ThreadInv, HandlersWork, T!InState
  <2> QED
    BY <2>2, <2>3 DEF T!UnderWay
<1>2. ThreadInv /\ [T!Next]_(T!vars)
          => ThreadInv' /\ (run = "running" /\ run' = "returned" => outstanding' = 0)
  BY ThreadInductive
<1>3. (ThreadInv /\ outstanding = 0 => T!UnderWay = {} /\ working = {})'
  BY <1>1, PTL
<1>4. ThreadInv /\ [T!Next]_(T!vars)
          => ThreadInv' /\ [run = "running" /\ run' = "returned"
                                => T!UnderWay' = {} /\ working' = {}]_(T!vars)
  BY <1>2, <1>3
<1> QED
  BY ThreadInitial, <1>4, PTL DEF T!Spec, T!RunOutlivesHandlers

(* ExceptionsSurface: nobody gets rid of an IoThread without having been     *)
(* thrown what a handler threw, and nobody who called join() is terminated.  *)
THEOREM NoExceptionLost ==
    AnObject /\ IsFiniteSet(Ops) /\ T!Spec => []ExceptionsSurface
<1>1. ThreadInv => ExceptionsSurface
  BY DEF ThreadInv, Future, ExceptionsSurface, T!TypeOK, T!ThreadTypeOK
<1>2. ThreadInv /\ [T!Next]_(T!vars) => ThreadInv'
  BY ThreadInductive
<1> QED
  BY ThreadInitial, <1>1, <1>2, PTL DEF T!Spec
=============================================================================
