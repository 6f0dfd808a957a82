-------------------------- MODULE OperationProofs ---------------------------
(* Theorems about util::asio::Operation for every set of branches, every     *)
(* result and every number of suspensions; and about util::asio::            *)
(* SerialPortOpener, the library's user of it, for any number of operations, *)
(* of calls of close and of attempts at an option.                           *)
EXTENDS Operation, SerialPortOpener, FiniteSetTheorems, SequenceTheorems, TLAPS

RunningSet == {b \in Branches : branch[b] = "running"}

(* The stack lists the running branches, each once. *)
StackLists(s, set) ==
    /\ \A i \in 1..Len(s) : s[i] \in set
    /\ \A b \in set : \E i \in 1..Len(s) : s[i] = b
    /\ \A i, j \in 1..Len(s) : s[i] = s[j] => i = j

Stacked == StackLists(stack, RunningSet)

(* Where the operation stands: not started, or live as long as a branch      *)
(* holds it, or over and its handler called.                                 *)
Staged ==
    /\ state \in {"none", "failed"} <=> branch = [b \in Branches |-> "none"]
    /\ state = "live" <=> Handles # {}
    /\ mResult = lastSet
    /\ calls = IF state = "destroyed" THEN <<lastSet>> ELSE <<>>
    /\ state \in {"none", "failed"} => lastSet = Default

IInv == TypeOK /\ RefsCountHandles /\ Stacked /\ Staged
-----------------------------------------------------------------------------
LEMMA HandlesFinite == IsFiniteSet(Handles) /\ Cardinality(Handles) \in Nat
BY FiniteAssumption, FS_Subset, FS_CardinalityType DEF Handles

(* Lemmas about the stack: the innermost branch, a call, a return. *)
LEMMA StackPush ==
    ASSUME NEW S, NEW s \in Seq(S), NEW set \in SUBSET S, NEW c \in S \ set,
           StackLists(s, set)
    PROVE  StackLists(Append(s, c), set \union {c})
<1> DEFINE t == Append(s, c)
<1>1. /\ Len(s) \in Nat /\ Len(t) = Len(s) + 1 /\ t[Len(s) + 1] = c
      /\ \A i \in 1..Len(s) : t[i] = s[i]
  BY AppendProperties
<1> HIDE DEF t
<1>2. \A i \in 1..Len(t) : t[i] \in set \union {c}
  BY <1>1 DEF StackLists
<1>3. ASSUME NEW b \in set \union {c} PROVE \E i \in 1..Len(t) : t[i] = b
  <2>1. CASE b = c
    BY <1>1, <2>1
  <2>2. CASE b \in set
    <3>1. PICK i \in 1..Len(s) : s[i] = b
      BY <2>2 DEF StackLists
    <3> QED
      BY <1>1, <3>1
  <2> QED
    BY <2>1, <2>2
<1>4. ASSUME NEW i \in 1..Len(t), NEW j \in 1..Len(t), t[i] = t[j] PROVE i = j
  BY <1>1, <1>4 DEF StackLists
<1> QED
  BY <1>2, <1>3, <1>4 DEF StackLists, t

LEMMA StackPop ==
    ASSUME NEW S, NEW s \in Seq(S), NEW set \in SUBSET S, s # <<>>,
           StackLists(s, set)
    PROVE  /\ s[Len(s)] \in set
           /\ SubSeq(s, 1, Len(s) - 1) \in Seq(S)
           /\ StackLists(SubSeq(s, 1, Len(s) - 1), set \ {s[Len(s)]})
<1> DEFINE t == SubSeq(s, 1, Len(s) - 1)
           n == Len(s)
<1>1. n \in Nat /\ n > 0
  BY EmptySeq
<1>2. \A i \in 1..(n - 1) : s[i] \in S
  BY <1>1
<1>3. /\ t \in Seq(S)
      /\ Len(t) = n - 1
      /\ \A i \in 1..(n - 1) : t[i] = s[i]
  <2> HIDE DEF n
  <2>1. /\ SubSeq(s, 1, n - 1) \in Seq(S)
        /\ Len(SubSeq(s, 1, n - 1)) = IF 1 <= n - 1 THEN n - 1 - 1 + 1 ELSE 0
        /\ \A i \in 1..(n - 1 - 1 + 1) : SubSeq(s, 1, n - 1)[i] = s[1 + i - 1]
    BY <1>1, <1>2, SubSeqProperties
  <2>2. /\ n - 1 - 1 + 1 = n - 1
        /\ (IF 1 <= n - 1 THEN n - 1 - 1 + 1 ELSE 0) = n - 1
    BY <1>1
  <2>3. \A i \in 1..(n - 1) : 1 + i - 1 = i
    OBVIOUS
  <2>4. t = SubSeq(s, 1, n - 1)
    BY DEF n
  <2> HIDE DEF t
  <2> QED
    BY <2>1, <2>2, <2>3, <2>4
<1> HIDE DEF t, n
<1>4. n \in 1..n /\ s[n] \in set
  BY <1>1 DEF StackLists, n
<1>5. \A i \in 1..(n - 1) : t[i] \in set \ {s[n]}
  BY <1>1, <1>3, <1>4 DEF StackLists, n
<1>6. ASSUME NEW b \in set \ {s[n]} PROVE \E i \in 1..(n - 1) : t[i] = b
  <2>1. PICK i \in 1..n : s[i] = b
    BY DEF StackLists, n
  <2> QED
    BY <1>1, <1>3, <2>1
<1>7. ASSUME NEW i \in 1..(n - 1), NEW j \in 1..(n - 1), t[i] = t[j]
      PROVE  i = j
  <2>1. s[i] = s[j] /\ i \in 1..n /\ j \in 1..n
    BY <1>1, <1>3, <1>7
  <2> QED
    BY <2>1 DEF StackLists, n
<1> QED
  BY <1>3, <1>4, <1>5, <1>6, <1>7 DEF StackLists, t, n

LEMMA StackCount ==
    ASSUME NEW S, NEW s \in Seq(S), NEW set \in SUBSET S, StackLists(s, set)
    PROVE  IsFiniteSet(set) /\ Cardinality(set) = Len(s)
<1>1. Len(s) \in Nat /\ s \in [1..Len(s) -> S]
  OBVIOUS
<1>2. s \in [1..Len(s) -> set]
  BY <1>1 DEF StackLists
<1>3. s \in Bijection(1..Len(s), set)
  BY <1>2 DEF StackLists, Bijection, Injection, Surjection, IsInjective
<1>4. ExistsBijection(1..Len(s), set)
  BY <1>3 DEF ExistsBijection
<1>5. IsFiniteSet(1..Len(s)) /\ Cardinality(1..Len(s)) = Len(s)
  BY <1>1, FS_Interval
<1> QED
  BY <1>4, <1>5, FS_Bijection
-----------------------------------------------------------------------------
(* How a step changes the set of Operation objects. *)
LEMMA HandlesAdd ==
    ASSUME TypeOK, NEW c \in Branches, NEW v \in {"queued", "running"},
           branch[c] = "none", branch' = [branch EXCEPT ![c] = v]
    PROVE  /\ Handles' = Handles \union {c}
           /\ Cardinality(Handles') = Cardinality(Handles) + 1
<1>1. Handles' = Handles \union {c} /\ c \notin Handles
  BY DEF TypeOK, Handles, Held
<1> QED
  BY <1>1, HandlesFinite, FS_AddElement

LEMMA HandlesDrop ==
    ASSUME TypeOK, NEW b \in Branches, Held(b),
           branch' = [branch EXCEPT ![b] = "ended"]
    PROVE  /\ Handles' = Handles \ {b}
           /\ Cardinality(Handles') = Cardinality(Handles) - 1
<1>1. Handles' = Handles \ {b} /\ b \in Handles
  BY DEF TypeOK, Handles, Held
<1> QED
  BY <1>1, HandlesFinite, FS_RemoveElement

LEMMA HandlesKeep ==
    ASSUME TypeOK, NEW b \in Branches, Held(b),
           NEW v \in {"queued", "waiting", "running"},
           branch' = [branch EXCEPT ![b] = v]
    PROVE  Handles' = Handles
BY DEF TypeOK, Handles, Held

(* A step that drops references and leaves the count right leaves the        *)
(* operation live, or over with its handler called.                          *)
LEMMA ReleaseStages ==
    ASSUME IInv, Handles # {}, NEW n \in Nat, LetGo(n),
           mRefs - n = Cardinality(Handles)',
           \E b \in Branches : branch'[b] = "ended",
           UNCHANGED <<mResult, lastSet>>
    PROVE  /\ RefsCountHandles' /\ Staged'
           /\ mRefs' \in Nat /\ state' \in {"live", "destroyed"}
           /\ calls' \in Seq(Results \union {Default})
<1>1. IsFiniteSet(Handles') /\ Cardinality(Handles') \in Nat
  BY FiniteAssumption, FS_Subset, FS_CardinalityType DEF Handles
<1>2. Cardinality(Handles') = 0 <=> Handles' = {}
  BY <1>1, FS_EmptySet
<1>3. state = "live" /\ calls = <<>> /\ mResult = lastSet
  BY DEF IInv, Staged
<1>4. mRefs' = Cardinality(Handles') /\ mRefs' \in Nat
  BY <1>1 DEF LetGo, ReleaseV1, Release
<1>5. branch' # [b \in Branches |-> "none"]
  OBVIOUS
<1>6. CASE mRefs' # 0
  <2>1. state' = "live" /\ calls' = <<>> /\ Handles' # {}
    BY <1>2, <1>3, <1>4, <1>6 DEF LetGo, ReleaseV1, Release
  <2> QED
    BY <1>3, <1>4, <1>5, <2>1 DEF Staged, RefsCountHandles
<1>7. CASE mRefs' = 0
  <2>1. state' = "destroyed" /\ calls' = <<lastSet>> /\ Handles' = {}
    BY <1>2, <1>3, <1>4, <1>7 DEF LetGo, ReleaseV1, Release
  <2>2. calls' \in Seq(Results \union {Default})
    BY <2>1 DEF IInv, TypeOK
  <2> QED
    BY <1>3, <1>4, <1>5, <2>1, <2>2 DEF Staged, RefsCountHandles
<1> QED
  BY <1>6, <1>7
-----------------------------------------------------------------------------
LEMMA Innermost ==
    ASSUME IInv, NEW b \in Branches, Running(b)
    PROVE  /\ branch[b] = "running" /\ b \in Handles /\ state = "live"
           /\ Callers \in Seq(Branches)
           /\ StackLists(Callers, RunningSet \ {b})
<1>1. stack \in Seq(Branches) /\ stack # <<>> /\ stack[Len(stack)] = b
  BY DEF IInv, TypeOK, Running
<1>2. RunningSet \in SUBSET Branches /\ StackLists(stack, RunningSet)
  BY DEF IInv, Stacked, RunningSet
<1>3. /\ b \in RunningSet /\ Callers \in Seq(Branches)
      /\ StackLists(Callers, RunningSet \ {b})
  BY <1>1, <1>2, StackPop DEF Callers
<1> QED
  BY <1>3 DEF IInv, Staged, RunningSet, Handles, Held

LEMMA EmptyStack ==
    ASSUME IInv, stack = <<>>
    PROVE  RunningSet = {}
BY DEF IInv, Stacked, StackLists

LEMMA Initial == Init => IInv
<1> SUFFICES ASSUME Init PROVE IInv
  OBVIOUS
<1>1. TypeOK
  BY BoundAssumption DEF Init, TypeOK
<1>2. Handles = {} /\ RunningSet = {}
  BY DEF Init, Handles, Held, RunningSet
<1>3. RefsCountHandles
  BY <1>2, FS_EmptySet DEF Init, RefsCountHandles
<1>4. Stacked
  BY <1>2 DEF Init, Stacked, StackLists
<1>5. Staged
  BY <1>2 DEF Init, Staged
<1> QED
  BY <1>1, <1>3, <1>4, <1>5 DEF IInv

LEMMA BeginStep ==
    ASSUME IInv, NEW v \in {"queued", "running"}, Begin(v)
    PROVE  IInv'
<1>1. TypeOK /\ branch = [b \in Branches |-> "none"] /\ calls = <<>>
  BY DEF IInv, Begin, Staged
<1>2. /\ Handles' = Handles \union {Main}
      /\ Cardinality(Handles') = Cardinality(Handles) + 1
  BY <1>1, HandlesAdd, MainAssumption DEF Begin
<1>3. Handles = {} /\ RunningSet = {}
  BY <1>1, MainAssumption DEF Handles, Held, RunningSet
<1>4. RunningSet' = IF v = "running" THEN {Main} ELSE {}
  BY <1>1, MainAssumption DEF RunningSet, Begin
<1>5. TypeOK'
  <2>1. stack' \in Seq(Branches)
    BY MainAssumption DEF Begin
  <2> QED
    BY <1>1, <2>1, MainAssumption DEF TypeOK, Begin
<1>6. RefsCountHandles'
  BY <1>2, <1>3, FS_EmptySet DEF RefsCountHandles, Begin
<1>7. Stacked'
  BY <1>4 DEF Stacked, StackLists, Begin
<1>8. Staged'
  <2>1. branch'[Main] = v /\ v # "none" /\ lastSet = Default
    BY <1>1, MainAssumption DEF IInv, Staged, Begin
  <2> QED
    BY <1>1, <1>2, <2>1, MainAssumption DEF Staged, Begin
<1> QED
  BY <1>5, <1>6, <1>7, <1>8 DEF IInv

LEMMA ThrowingStep ==
    ASSUME IInv, MakeOperationThrows \/ MakeStateThrowsV1
    PROVE  IInv'
BY DEF IInv, TypeOK, RefsCountHandles, Stacked, Staged, MakeOperationThrows,
       MakeStateThrowsV1, Handles, Held, RunningSet

LEMMA InvokeStep ==
    ASSUME IInv, NEW b \in Branches, Invoke(b)
    PROVE  IInv'
<1>1. TypeOK /\ Held(b) /\ RunningSet = {} /\ Handles' = Handles
  BY EmptyStack, HandlesKeep DEF IInv, Invoke, Held
<1>2. RunningSet' = {b} /\ stack' = <<b>> /\ b \in Handles
  BY <1>1 DEF RunningSet, Invoke, TypeOK, Handles
<1>3. TypeOK'
  BY <1>1 DEF TypeOK, Invoke
<1>4. RefsCountHandles'
  BY <1>1 DEF IInv, RefsCountHandles, Invoke
<1>5. Stacked'
  BY <1>2 DEF Stacked, StackLists
<1>6. Staged'
  BY <1>1, <1>2 DEF IInv, TypeOK, Staged, Invoke
<1> QED
  BY <1>3, <1>4, <1>5, <1>6 DEF IInv

LEMMA ForkStep ==
    ASSUME IInv, NEW b \in Branches, NEW c \in Branches, Fork(b, c)
    PROVE  IInv'
<1>1. TypeOK /\ state = "live"
  BY Innermost DEF IInv, Fork
<1>2. /\ Handles' = Handles \union {c}
      /\ Cardinality(Handles') = Cardinality(Handles) + 1
  BY <1>1, HandlesAdd DEF Fork
<1>3. RunningSet' = RunningSet \union {c} /\ c \notin RunningSet
  BY <1>1 DEF RunningSet, Fork, TypeOK
<1>4. TypeOK'
  BY <1>1 DEF TypeOK, Fork
<1>5. RefsCountHandles'
  BY <1>2 DEF IInv, RefsCountHandles, Fork
<1>6. Stacked'
  <2>1. stack \in Seq(Branches) /\ RunningSet \in SUBSET Branches
    BY <1>1 DEF TypeOK, RunningSet
  <2>2. StackLists(Append(stack, c), RunningSet \union {c})
    BY <1>3, <2>1, StackPush DEF IInv, Stacked
  <2> QED
    BY <1>3, <2>2 DEF Stacked, Fork
<1>7. Staged'
  <2>1. branch'[c] = "running"
    BY <1>1 DEF TypeOK, Fork
  <2> QED
    BY <1>1, <1>2, <2>1 DEF IInv, Staged, Fork
<1> QED
  BY <1>4, <1>5, <1>6, <1>7 DEF IInv

LEMMA CompleteStep ==
    ASSUME IInv, NEW b \in Branches, NEW r \in Results, Complete(b, r)
    PROVE  IInv'
<1>1. state = "live" /\ Handles' = Handles /\ RunningSet' = RunningSet
  BY Innermost DEF Complete, Handles, Held, RunningSet
<1>2. TypeOK'
  BY DEF IInv, TypeOK, Complete, NewResult
<1>3. RefsCountHandles' /\ Stacked' /\ Staged'
  BY <1>1 DEF IInv, RefsCountHandles, Stacked, Staged, Complete, NewResult
<1> QED
  BY <1>2, <1>3 DEF IInv

LEMMA YieldStep ==
    ASSUME IInv, NEW b \in Branches, Yield(b)
    PROVE  IInv'
<1>1. /\ TypeOK /\ branch[b] = "running" /\ state = "live"
      /\ Callers \in Seq(Branches) /\ StackLists(Callers, RunningSet \ {b})
  BY Innermost DEF IInv, Yield
<1>2. Handles' = Handles
  BY <1>1, HandlesKeep DEF Yield, Held
<1>3. RunningSet' = RunningSet \ {b} /\ branch'[b] = "waiting"
  BY <1>1 DEF RunningSet, Yield, TypeOK
<1>4. TypeOK'
  <2>1. yields' \in 0..MaxYields
    BY <1>1, BoundAssumption DEF TypeOK, Yield
  <2> QED
    BY <1>1, <2>1 DEF TypeOK, Yield
<1>5. RefsCountHandles' /\ Stacked' /\ Staged'
  BY <1>1, <1>2, <1>3 DEF IInv, RefsCountHandles, Stacked, Staged, Yield
<1> QED
  BY <1>4, <1>5 DEF IInv

LEMMA FinishStep ==
    ASSUME IInv, NEW b \in Branches, Finish(b)
    PROVE  IInv'
<1>1. /\ TypeOK /\ branch[b] = "running" /\ b \in Handles
      /\ Callers \in Seq(Branches) /\ StackLists(Callers, RunningSet \ {b})
  BY Innermost DEF IInv, Finish
<1>2. Cardinality(Handles') = Cardinality(Handles) - 1
  BY <1>1, HandlesDrop DEF Finish, Held
<1>3. RunningSet' = RunningSet \ {b} /\ branch'[b] = "ended"
  BY <1>1 DEF RunningSet, Finish, TypeOK
<1>4. /\ RefsCountHandles' /\ Staged'
      /\ mRefs' \in Nat /\ state' \in {"live", "destroyed"}
      /\ calls' \in Seq(Results \union {Default})
  BY <1>1, <1>2, <1>3, ReleaseStages DEF IInv, RefsCountHandles, Finish
<1>5. TypeOK'
  BY <1>1, <1>4 DEF TypeOK, Finish
<1>6. Stacked'
  BY <1>1, <1>3 DEF Stacked, Finish
<1> QED
  BY <1>4, <1>5, <1>6 DEF IInv

(* The references of every branch on the stack go at once. *)
LEMMA ThrowStep ==
    ASSUME IInv, NEW b \in Branches, Throw(b)
    PROVE  IInv'
<1>1. TypeOK /\ branch[b] = "running" /\ b \in Handles
  BY Innermost DEF IInv, Throw
<1>2. /\ Handles' = Handles \ RunningSet /\ RunningSet' = {}
      /\ branch'[b] = "ended"
  BY <1>1 DEF Throw, Handles, Held, RunningSet
<1>3. Cardinality(RunningSet) = Len(stack) /\ Len(stack) \in Nat
  BY <1>1, StackCount DEF IInv, Stacked, TypeOK, RunningSet
<1>4. Cardinality(Handles') = Cardinality(Handles) - Len(stack)
  <2>1. Handles \intersect RunningSet = RunningSet
    BY DEF Handles, Held, RunningSet
  <2>2. Cardinality(Handles \ RunningSet)
          = Cardinality(Handles) - Cardinality(Handles \intersect RunningSet)
    BY HandlesFinite, FS_Difference
  <2> QED
    BY <1>2, <1>3, <2>1, <2>2
<1>5. /\ RefsCountHandles' /\ Staged'
      /\ mRefs' \in Nat /\ state' \in {"live", "destroyed"}
      /\ calls' \in Seq(Results \union {Default})
  BY <1>1, <1>2, <1>3, <1>4, ReleaseStages DEF IInv, RefsCountHandles, Throw
<1>6. TypeOK'
  BY <1>1, <1>5 DEF TypeOK, Throw
<1>7. Stacked'
  BY <1>2 DEF Stacked, StackLists, Throw
<1> QED
  BY <1>5, <1>6, <1>7 DEF IInv

LEMMA ReadyStep ==
    ASSUME IInv, NEW b \in Branches, Ready(b)
    PROVE  IInv'
<1>1. TypeOK /\ Handles' = Handles /\ b \in Handles
  BY HandlesKeep DEF IInv, Ready, Held, Handles
<1>2. RunningSet' = RunningSet /\ branch'[b] = "queued"
  BY <1>1 DEF RunningSet, Ready, TypeOK
<1>3. TypeOK'
  BY <1>1 DEF TypeOK, Ready
<1>4. RefsCountHandles' /\ Stacked' /\ Staged'
  BY <1>1, <1>2 DEF IInv, RefsCountHandles, Stacked, Staged, Ready
<1> QED
  BY <1>3, <1>4 DEF IInv

LEMMA AbandonStep ==
    ASSUME IInv, NEW b \in Branches, Abandon(b)
    PROVE  IInv'
<1>1. TypeOK /\ Held(b) /\ b \in Handles
  BY DEF IInv, Abandon, Held, Handles
<1>2. Cardinality(Handles') = Cardinality(Handles) - 1
  BY <1>1, HandlesDrop DEF Abandon
<1>3. RunningSet' = RunningSet /\ branch'[b] = "ended"
  BY <1>1 DEF RunningSet, Abandon, TypeOK
<1>4. /\ RefsCountHandles' /\ Staged'
      /\ mRefs' \in Nat /\ state' \in {"live", "destroyed"}
      /\ calls' \in Seq(Results \union {Default})
  BY <1>1, <1>2, <1>3, ReleaseStages DEF IInv, RefsCountHandles, Abandon
<1>5. TypeOK'
  BY <1>1, <1>4 DEF TypeOK, Abandon
<1>6. Stacked'
  BY <1>3 DEF IInv, Stacked, Abandon
<1> QED
  BY <1>4, <1>5, <1>6 DEF IInv

LEMMA Inductive == IInv /\ [Next]_vars => IInv'
<1> SUFFICES ASSUME IInv, [Next]_vars PROVE IInv'
  OBVIOUS
<1>1. CASE Shutdown
  BY <1>1 DEF IInv, TypeOK, RefsCountHandles, Stacked, Staged, Shutdown,
              Handles, Held, RunningSet
<1>2. CASE UNCHANGED vars
  BY <1>2 DEF IInv, TypeOK, RefsCountHandles, Stacked, Staged, vars,
              Handles, Held, RunningSet
<1>3. ASSUME NEW b \in Branches, Step(b) PROVE IInv'
  BY <1>3, InvokeStep, YieldStep, FinishStep, ThrowStep, ReadyStep,
     AbandonStep, ForkStep, CompleteStep DEF Step
<1> QED
  BY <1>1, <1>2, <1>3, BeginStep, ThrowingStep
  DEF Next, AsyncDispatch, StartV1

LEMMA Invariant == Spec => []IInv
BY Initial, Inductive, PTL DEF Spec
-----------------------------------------------------------------------------
(* The variables keep their types. *)
THEOREM TypeCorrect == Spec => []TypeOK
<1>1. IInv => TypeOK
  BY DEF IInv
<1> QED
  BY <1>1, Invariant, PTL

(* mRefs counts the Operation objects that hold the state: copies made by    *)
(* runChild, moves into what is awaited, exceptions and an io_service        *)
(* destroyed with handlers in it neither leak a reference nor drop one twice.*)
THEOREM CountExact == Spec => []RefsCountHandles
<1>1. IInv => RefsCountHandles
  BY DEF IInv
<1> QED
  BY <1>1, Invariant, PTL

(* The handler is not called while a branch is left, and has been called,    *)
(* once and with the last result set, as soon as none is; until then every   *)
(* branch that runs or is to be resumed finds the OperationState alive.      *)
THEOREM HandlerOnceAtTheEnd == Spec => []HandlerCalledLast
<1>1. IInv => HandlerCalledLast
  BY DEF IInv, TypeOK, Staged, HandlerCalledLast
<1> QED
  BY <1>1, Invariant, PTL

-----------------------------------------------------------------------------
(* The opener, whose asyncOpen and asyncOpenUntilSuccess are two such        *)
(* operations.                                                               *)

(* An option whose attempts are counted has some left. *)
AttemptsLeft == attempts = 0 \/ attempts < MaxAttempts

(* Only an operation under way has no result. *)
Underway == result = "none" <=> at # "idle"

(* The marks of close(), on the timer, in a wait's error and in the result,  *)
(* are of this operation's close() once the head of asyncOpen has looked;    *)
(* asyncOpenUntilSuccess has not reset the timer while it is posted.         *)
Marks ==
    /\ expiry = "min" => \/ closed \/ at = "idle"
                         \/ at = "posted" /\ mode = "until"
    /\ wait = "aborted" => closed
    /\ result = "aborted" => closed

(* The options before the next call are in force; none is left to set while  *)
(* the last wait lasts.                                                      *)
InForce(o) == o \in line \/ garbled
PortReady ==
    /\ at \in {"settle", "options", "write"} => port = "open"
    /\ at = "options" => \A o \in Options : o < call => InForce(o)
    /\ at = "write" => \A o \in Options : InForce(o)

OpenerInv == OpenerTypeOK /\ AttemptsLeft /\ Underway /\ Marks /\ PortReady

-----------------------------------------------------------------------------
(* What the end of asyncOpen comes to: its operation ends with its error, or *)
(* with a close() that it has seen, or goes on to wait for a retry.          *)
LEMMA Ends ==
    ASSUME NEW ec, NEW time, End(ec, time)
    PROVE  \/ /\ result' = ec /\ expiry' = time
              /\ at' = "idle" /\ wait' = "none"
           \/ /\ result' = "aborted" /\ expiry' = time /\ time = "min"
              /\ at' = "idle" /\ wait' = "none"
              /\ mode = "until" /\ ec # "ok"
           \/ /\ result' = result /\ expiry' = "other"
              /\ at' = "retry" /\ wait' = "pending"
              /\ mode = "until" /\ ec # "ok"
  BY DEF End, CompleteOpen, WaitAt

(* The head of asyncOpen's coroutine, with any mark on the timer that a      *)
(* close() of this operation made.                                           *)
LEMMA Opened ==
    ASSUME OpenerInv, at # "idle", NEW time \in {"min", "other"}, Open(time),
           time = "min" => closed,
           UNCHANGED <<call, attempts, tioRead, mode, sound, closed, counts>>,
           erased' \in BOOLEAN
    PROVE  OpenerInv' /\ result' # "ok"
<1> USE DEF OpenerInv, OpenerTypeOK, OptionsTypeOK, AttemptsLeft, Underway,
            counts, InForce
<1>1. CASE port # "closed" \/ ~sound
  <2>1. CASE (port # "closed" \/ ~sound) /\ End("error", time)
             /\ leftOpen' = (leftOpen \/ port # "closed")
             /\ UNCHANGED <<port, line, garbled>>
    BY <2>1, Ends DEF Marks, PortReady
  <2> QED
    BY <1>1, <2>1 DEF Open
<1>2. CASE port = "closed" /\ sound
  <2>1. /\ port' = "open" /\ line' = {} /\ garbled' = FALSE
        /\ UNCHANGED leftOpen
    BY <1>2 DEF Open, FreshLine
  <2>2. CASE time = "min" /\ End("aborted", time)
    BY <2>1, <2>2, Ends DEF Marks, PortReady
  <2>3. CASE time # "min" /\ WaitAt("settle")
    BY <2>1, <2>3 DEF WaitAt, Marks, PortReady
  <2> QED
    BY <1>2, <2>2, <2>3 DEF Open
<1> QED
  BY <1>1, <1>2

LEMMA OpenerInductive == OpenerInv /\ [NextOpener]_openerVars => OpenerInv'
<1> SUFFICES ASSUME OpenerInv, [NextOpener]_openerVars PROVE OpenerInv'
  OBVIOUS
<1> USE DEF OpenerInv, OpenerTypeOK, OptionsTypeOK, AttemptsLeft, Underway,
            counts, optionVars, InForce
<1>1. ASSUME NEW m \in {"once", "until"}, Start(m) PROVE OpenerInv'
  <2>1. expiry' \in {"min", "other"} /\ (mode' = "once" => expiry' = "other")
    BY <1>1 DEF Start, Reset
  <2>2. ops' \in 0..MaxOps
    BY <1>1, OpenerBounds DEF Start
  <2> QED
    BY <1>1, <2>1, <2>2 DEF Start, Marks, PortReady
<1>2. CASE Dispatched
  <2>1. CASE mode = "once" /\ Open(expiry) /\ UNCHANGED erased
    BY <1>2, <2>1, Opened DEF Dispatched, Marks
  <2>2. CASE mode = "until" /\ Attempt
    BY <1>2, <2>2, Opened DEF Dispatched, Attempt, Reset, Overwritten
  <2> QED
    BY <1>2, <2>1, <2>2 DEF Dispatched
<1>3. CASE Settled
  <2>1. call' \in 1..SetAttributes /\ \A o \in Options : ~(o < call')
    BY <1>3 DEF Settled, BeginOptions, Options, SetAttributes
  <2>2. attempts' \in 0..MaxAttempts /\ AttemptsLeft'
    BY <1>3, AttemptsAssumption DEF Settled, BeginOptions
  <2>3. {sound, tioRead, garbled}' \subseteq BOOLEAN
    BY <1>3, Zenon DEF Settled, BeginOptions
  <2>4. OpenerTypeOK' /\ Underway'
    BY <1>3, <2>1, <2>2, <2>3 DEF Settled, BeginOptions
  <2> QED
    BY <1>3, <2>1, <2>2, <2>4 DEF Settled, BeginOptions, Marks, PortReady
<1>4. CASE Configure
  <2>1. CASE SetOption
    <3>1. attempts' \in 0..MaxAttempts /\ AttemptsLeft'
      BY <1>4, <2>1, AttemptsAssumption DEF Configure, SetOption, TriesAgain
    <3>2. call' \in 1..SetAttributes /\ line' \subseteq Options
      <4>1. call \in Options /\ line \subseteq Options
        BY <2>1 DEF SetOption
      <4>2. line' = line \union {call} \/ line' = line
        BY <2>1 DEF SetOption
      <4>3. call' = call + 1 \/ call' = call
        BY <2>1 DEF SetOption
      <4>4. line' \subseteq Options
        BY <4>1, <4>2, Zenon
      <4> QED
        BY <4>1, <4>3, <4>4 DEF Options, SetAttributes
    <3>3. {sound, tioRead, garbled}' \subseteq BOOLEAN
      BY <1>4, <2>1, Zenon DEF Configure, SetOption
    <3>4. PortReady'
      BY <1>4, <2>1
      DEF Configure, SetOption, Options, PortReady
    <3> QED
      BY <1>4, <2>1, <3>1, <3>2, <3>3, <3>4 DEF Configure, SetOption, Marks
  <2>2. CASE TcGetAttr
    BY <1>4, <2>2
    DEF Configure, TcGetAttr, GetAttributes, SetAttributes, Options, Marks,
        PortReady
  <2> QED
    BY <1>4, <2>1, <2>2 DEF Configure
<1>5. CASE OptionsFail
  BY <1>5, Ends DEF OptionsFail, Marks, PortReady
<1>6. CASE Configured
  <2> DEFINE Applied == \A o \in Options : o \in line' \/ garbled'
  <2>1. OptionsTypeOK' /\ AttemptsLeft' /\ Applied
    <3>1. CASE sound /\ ~tioRead /\ line' \in SUBSET Options /\ garbled' = TRUE
      BY <1>6, <3>1 DEF Configured, TcSetAttr, SetAttributes
    <3>2. CASE UNCHANGED <<line, garbled>>
      BY <1>6, <3>2
      DEF Configured, TcSetAttr, SetAttributes, Options, PortReady
    <3> QED
      BY <1>6, <3>1, <3>2 DEF Configured, TcSetAttr
  <2>2. CASE (wait = "aborted" \/ expiry = "min") /\ End("aborted", expiry)
    BY <1>6, <2>1, <2>2, Ends DEF Configured, Marks, PortReady
  <2>3. CASE wait = "expired" /\ expiry # "min" /\ WaitAt("write")
    BY <1>6, <2>1, <2>3 DEF Configured, WaitAt, Marks, PortReady
  <2> QED
    BY <1>6, <2>2, <2>3 DEF Configured
<1>7. CASE Written
  BY <1>7, Ends DEF Written, Marks, PortReady
<1>8. CASE Retried
  <2>1. CASE wait = "aborted" /\ CompleteOpen("aborted")
             /\ UNCHANGED <<expiry, port, optionVars, leftOpen, erased>>
    BY <1>8, <2>1 DEF Retried, CompleteOpen, Marks, PortReady
  <2>2. CASE wait = "expired" /\ Attempt
    BY <1>8, <2>2, Opened DEF Retried, Attempt, Reset, Overwritten
  <2> QED
    BY <1>8, <2>1, <2>2 DEF Retried
<1>9. CASE TimerExpires
  BY <1>9 DEF TimerExpires, Marks, PortReady
<1>10. CASE Close
  BY <1>10, OpenerBounds DEF Close, Cancelled, Marks, PortReady
<1>11. CASE ClosePort
  BY <1>11 DEF ClosePort, Marks, PortReady
<1>12. CASE DeviceChanges
  BY <1>12 DEF DeviceChanges, Marks, PortReady
<1>13. CASE UNCHANGED openerVars
  BY <1>13 DEF openerVars, Marks, PortReady
<1> QED
  BY <1>1, <1>2, <1>3, <1>4, <1>5, <1>6, <1>7, <1>8, <1>9, <1>10, <1>11,
     <1>12, <1>13 DEF NextOpener, Handler

LEMMA OpenerInitial == InitOpener => OpenerInv
<1> SUFFICES ASSUME InitOpener PROVE OpenerInv
  OBVIOUS
<1>1. {sound, tioRead, garbled} \subseteq BOOLEAN
  BY Zenon DEF InitOpener, InitOptions
<1>2. call \in 1..SetAttributes /\ attempts \in 0..MaxAttempts
  BY AttemptsAssumption DEF InitOpener, InitOptions, SetAttributes
<1>3. OpenerTypeOK
  <2>1. {closed, erased, leftOpen} \subseteq BOOLEAN
    BY Zenon DEF InitOpener
  <2>2. ops \in 0..MaxOps /\ closes \in 0..MaxCloses
    BY OpenerBounds DEF InitOpener
  <2> QED
    BY <1>1, <1>2, <2>1, <2>2
    DEF InitOpener, InitOptions, OpenerTypeOK, OptionsTypeOK
<1> QED
  BY <1>3
  DEF InitOpener, InitOptions, OpenerInv, AttemptsLeft, Underway, Marks,
      PortReady

LEMMA OpenerInvariance == SpecOpener => []OpenerInv
  BY OpenerInitial, OpenerInductive, PTL DEF SpecOpener

-----------------------------------------------------------------------------
(* Type correctness of the opener, the timer and the option loop.            *)
THEOREM OpenerTypeCorrect == SpecOpener => []OpenerTypeOK
<1>1. OpenerInv => OpenerTypeOK
  BY DEF OpenerInv
<1> QED
  BY <1>1, OpenerInvariance, PTL

(* serialportopener.hpp:55: an operation is aborted only by a close() that   *)
(* came after its start, never by the mark an earlier one left.              *)
THEOREM OwnClose == SpecOpener => []AbortedByOwnClose
<1>1. OpenerInv => AbortedByOwnClose
  BY DEF OpenerInv, Marks, AbortedByOwnClose
<1> QED
  BY <1>1, OpenerInvariance, PTL

(* Success of asyncOpen or asyncOpenUntilSuccess means an open port with its *)
(* five options in force, unless an uninitialised termios was applied.       *)
THEOREM Success == SpecOpener => SuccessMeansReady
<1> DEFINE Means == at # "idle" /\ result' = "ok" =>
                        /\ at' = "idle" /\ port' = "open"
                        /\ line' = Options \/ garbled'
<1>1. ASSUME OpenerInv, NextOpener, at # "idle", result' = "ok"
      PROVE  at' = "idle" /\ port' = "open" /\ (line' = Options \/ garbled')
  <2> USE DEF OpenerInv, Underway
  <2>1. result = "none"
    BY <1>1
  <2>2. CASE Written
    <3>1. at' = "idle"
      BY <1>1, <2>1, <2>2, Ends DEF Written
    <3>2. at = "write" /\ UNCHANGED <<port, line, garbled>>
      BY <2>2 DEF Written, optionVars
    <3>3. port = "open" /\ (line = Options \/ garbled)
      BY <1>1, <3>2 DEF PortReady, InForce, OpenerTypeOK, OptionsTypeOK
    <3> QED
      BY <3>1, <3>2, <3>3
  <2>3. CASE Dispatched
    <3>1. ~(mode = "once" /\ Open(expiry) /\ UNCHANGED erased)
      BY <1>1, <2>3, Opened DEF Dispatched, Marks, OpenerTypeOK
    <3>2. ~(mode = "until" /\ Attempt)
      BY <1>1, <2>3, Opened
      DEF Dispatched, Attempt, Reset, Overwritten, OpenerTypeOK
    <3> QED
      BY <2>3, <3>1, <3>2 DEF Dispatched
  <2>4. CASE Retried
    <3>1. ~(wait = "expired" /\ Attempt)
      BY <1>1, <2>4, Opened
      DEF Retried, Attempt, Reset, Overwritten, OpenerTypeOK
    <3> QED
      BY <1>1, <2>4, <3>1 DEF Retried, CompleteOpen
  <2>5. ~OptionsFail /\ ~Configured
    BY <1>1, <2>1, Ends DEF OptionsFail, Configured, WaitAt
  <2>6. \/ result' = result \/ Written \/ Dispatched \/ Retried
        \/ \E m \in {"once", "until"} : Start(m)
    BY <1>1, <2>5
    DEF NextOpener, Handler, Settled, Configure, TimerExpires, Close,
        ClosePort, DeviceChanges
  <2> QED
    BY <1>1, <2>1, <2>2, <2>3, <2>4, <2>6 DEF Start
<1>2. OpenerInv /\ [NextOpener]_openerVars => [Means]_openerVars
  BY <1>1
<1> QED
  BY <1>2, OpenerInvariance, PTL DEF SpecOpener, SuccessMeansReady
=============================================================================
