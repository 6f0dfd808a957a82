-------------------------- MODULE ComposedOpProofs --------------------------
(* Theorems about composed::op for every set of threads, every depth of      *)
(* nested tasks and every number of asynchronous operations.                 *)
EXTENDS ComposedOp, FiniteSetTheorems, SequenceTheorems, TLAPS

Task == 1..MaxTasks
Op == [task : Task, owns : BOOLEAN]

TypeOK ==
    /\ live \subseteq Task /\ first \subseteq Task /\ pending \subseteq Task
    /\ stack \in [Threads -> Seq(Op)]
    /\ caller \in [Threads -> {"none", "start", "loop"}]
    /\ waits \in Nat
    /\ state \in {"new", "started", "called", "dropped"}

(* Nothing below the top of a stack owns a task; nothing on it does. *)
Buried(s) == \A i \in 1..(Len(s) - 1) : ~s[i].owns
Loose(s) == \A i \in 1..Len(s) : ~s[i].owns
HasOwner(s) == s # <<>> /\ s[Len(s)].owns
AllBuried == \A t \in Threads : Buried(stack[t])

(* Who owns the latest task: nobody, the op at the top of one thread's       *)
(* stack, or one continuation.                                               *)
Nobody == Owners = {} /\ pending = {} /\ live = {}
AnOp(t) == Owners = {t} /\ pending = {} /\ live = 1..Top(t).task
AContinuation(k) == Owners = {} /\ pending = {k} /\ live = 1..k
Located ==
    \/ Nobody
    \/ \E t \in Threads : AnOp(t)
    \/ \E k \in Task : AContinuation(k)

(* How stacks, callers and the operation's state go together.  In the        *)
(* initiating function every task is in its first invocation.                *)
Called ==
    /\ \A t \in Threads : caller[t] = "none" <=> stack[t] = <<>>
    /\ \A t \in Threads :
           Owning(t) /\ caller[t] = "start" => Top(t).task \in first
    /\ state = "started" <=> live # {}

IInv == TypeOK /\ AllBuried /\ Located /\ Called
-----------------------------------------------------------------------------
LEMMA TasksUpTo == \A k \in Task : 1..k \subseteq Task /\ k \in Nat
BY BoundAssumption DEF Task

(* Lemmas about a stack: the top is given away, an op comes, an op goes. *)
LEMMA Release ==
    ASSUME NEW s \in Seq(Op), s # <<>>, Buried(s),
           NEW r, r = [s EXCEPT ![Len(s)].owns = FALSE]
    PROVE  r \in Seq(Op) /\ r # <<>> /\ Loose(r)
<1>1. Len(s) \in 1..Len(s) /\ s \in [1..Len(s) -> Op] /\ Len(s) \in Nat
  BY EmptySeq
<1>2. [s[Len(s)] EXCEPT !.owns = FALSE] \in Op
  BY <1>1 DEF Op
<1>3. r \in [1..Len(s) -> Op]
  BY <1>1, <1>2
<1>4. r \in Seq(Op) /\ Len(r) = Len(s)
  BY <1>1, <1>3
<1>5. ASSUME NEW i \in 1..Len(s) PROVE ~r[i].owns
  BY <1>1 DEF Buried, Op
<1> QED
  BY <1>1, <1>4, <1>5 DEF Loose

LEMMA Push ==
    ASSUME NEW s \in Seq(Op), Loose(s), NEW k \in Task,
           NEW r, r = Append(s, NewOp(k))
    PROVE  /\ r \in Seq(Op) /\ r # <<>> /\ Buried(r) /\ HasOwner(r)
           /\ r[Len(r)].task = k
<1>1. NewOp(k) \in Op /\ NewOp(k).owns /\ NewOp(k).task = k
  BY DEF NewOp, Op
<1>2. /\ r \in Seq(Op) /\ Len(r) = Len(s) + 1 /\ Len(s) \in Nat
      /\ r[Len(s) + 1] = NewOp(k)
      /\ \A i \in 1..Len(s) : r[i] = s[i]
  BY <1>1, AppendProperties
<1>3. Buried(r)
  BY <1>2 DEF Buried, Loose
<1>4. r # <<>>
  BY <1>2
<1> QED
  BY <1>1, <1>2, <1>3, <1>4 DEF HasOwner

LEMMA First ==
    ASSUME NEW k \in Task
    PROVE  /\ <<NewOp(k)>> \in Seq(Op) /\ <<NewOp(k)>> # <<>>
           /\ Buried(<<NewOp(k)>>) /\ HasOwner(<<NewOp(k)>>)
           /\ <<NewOp(k)>>[Len(<<NewOp(k)>>)].task = k
<1>1. <<>> \in Seq(Op) /\ Loose(<<>>)
  BY DEF Loose
<1>2. <<NewOp(k)>> = Append(<<>>, NewOp(k))
  OBVIOUS
<1> QED
  BY <1>1, <1>2, Push

LEMMA Pop ==
    ASSUME NEW s \in Seq(Op), s # <<>>, Buried(s),
           NEW r, r = SubSeq(s, 1, Len(s) - 1)
    PROVE  r \in Seq(Op) /\ Loose(r)
<1> DEFINE n == Len(s)
<1>1. n \in Nat /\ n > 0 /\ \A i \in 1..(n - 1) : s[i] \in Op
  BY EmptySeq
<1>2. r \in Seq(Op) /\ Len(r) = n - 1 /\ \A i \in 1..(n - 1) : r[i] = s[i]
  <2>0. r = SubSeq(s, 1, n - 1)
    OBVIOUS
  <2> HIDE DEF n
  <2>1. /\ SubSeq(s, 1, n - 1) \in Seq(Op)
        /\ Len(SubSeq(s, 1, n - 1)) = IF 1 <= n - 1 THEN n - 1 - 1 + 1 ELSE 0
        /\ \A i \in 1..(n - 1 - 1 + 1) : SubSeq(s, 1, n - 1)[i] = s[1 + i - 1]
    BY <1>1, SubSeqProperties
  <2>2. /\ n - 1 - 1 + 1 = n - 1
        /\ (IF 1 <= n - 1 THEN n - 1 - 1 + 1 ELSE 0) = n - 1
    BY <1>1
  <2>3. \A i \in 1..(n - 1) : 1 + i - 1 = i
    OBVIOUS
  <2> QED
    BY <2>0, <2>1, <2>2, <2>3
<1> QED
  BY <1>2 DEF Buried, Loose

(* A stack on which nothing owns a task has no owner at its top. *)
LEMMA Idle ==
    ASSUME NEW s \in Seq(Op), Loose(s)
    PROVE  Buried(s) /\ ~HasOwner(s)
BY EmptySeq DEF Buried, Loose, HasOwner
-----------------------------------------------------------------------------
(* The one owner that a thread with an owning op is. *)
LEMMA TheOwner ==
    ASSUME IInv, NEW t \in Threads, Owning(t)
    PROVE  /\ AnOp(t) /\ Top(t).task \in Task /\ live # {}
           /\ stack[t] \in Seq(Op) /\ stack[t] # <<>> /\ Buried(stack[t])
<1>1. t \in Owners
  BY DEF Owners
<1>2. AnOp(t)
  BY <1>1 DEF IInv, Located, Nobody, AnOp, AContinuation
<1>3. stack[t] \in Seq(Op) /\ stack[t] # <<>> /\ Buried(stack[t])
  BY DEF IInv, TypeOK, AllBuried, Owning
<1>4. Top(t) \in Op
  BY <1>3, EmptySeq DEF Top
<1> QED
  BY <1>2, <1>3, <1>4 DEF AnOp, Op, Task

(* Before and after the operation nobody owns anything. *)
LEMMA NoOwner ==
    ASSUME IInv, live = {} PROVE Nobody
<1>1. ASSUME NEW t \in Threads, AnOp(t) PROVE FALSE
  <2>1. Owning(t)
    BY <1>1 DEF AnOp, Owners
  <2> QED
    BY <2>1, TheOwner
<1>2. ASSUME NEW k \in Task, AContinuation(k) PROVE FALSE
  BY <1>2 DEF AContinuation, Task
<1> QED
  BY <1>1, <1>2 DEF IInv, Located

(* What a step that gives thread t the stack s does to the owners. *)
LEMMA OwnersAfter ==
    ASSUME IInv, NEW t \in Threads, NEW s \in Seq(Op),
           stack' = [stack EXCEPT ![t] = s], Buried(s)
    PROVE  /\ stack' \in [Threads -> Seq(Op)] /\ AllBuried'
           /\ stack'[t] = s /\ Top(t)' = s[Len(s)] /\ (Owning(t)' <=> HasOwner(s))
           /\ \A u \in Threads \ {t} :
                  stack'[u] = stack[u] /\ Top(u)' = Top(u)
                  /\ (Owning(u)' <=> Owning(u))
           /\ Owners' = (Owners \ {t}) \cup (IF HasOwner(s) THEN {t} ELSE {})
<1>1. stack \in [Threads -> Seq(Op)]
  BY DEF IInv, TypeOK
<1>2. stack'[t] = s /\ \A u \in Threads \ {t} : stack'[u] = stack[u]
  BY <1>1
<1>3. \A u \in Threads \ {t} : Top(u)' = Top(u) /\ (Owning(u)' <=> Owning(u))
  BY <1>2 DEF Owning, Top
<1>4. Top(t)' = s[Len(s)] /\ (Owning(t)' <=> HasOwner(s))
  BY <1>2 DEF Owning, Top, HasOwner
<1>5. AllBuried'
  BY <1>2 DEF IInv, AllBuried
<1>6. Owners' = (Owners \ {t}) \cup (IF HasOwner(s) THEN {t} ELSE {})
  BY <1>3, <1>4 DEF Owners
<1> QED
  BY <1>1, <1>2, <1>3, <1>4, <1>5, <1>6
-----------------------------------------------------------------------------
LEMMA InitInv == Init => IInv
<1> SUFFICES ASSUME Init PROVE IInv
  OBVIOUS
<1>1. \A t \in Threads : stack[t] = <<>> /\ ~Owning(t)
  BY DEF Init, Owning
<1>2. TypeOK
  BY DEF Init, TypeOK
<1>3. AllBuried
  BY <1>1 DEF AllBuried, Buried
<1>4. Nobody
  BY <1>1 DEF Init, Nobody, Owners
<1> QED
  BY <1>1, <1>2, <1>3, <1>4 DEF Init, IInv, Located, Called

LEMMA StartInv ==
    ASSUME IInv, NEW t \in Threads, Start(t) PROVE IInv'
<1>1. stack[t] = <<>> /\ live = {} /\ 1 \in Task
  BY BoundAssumption DEF IInv, Called, Start, Task
<1>2. Owners = {} /\ pending = {}
  BY <1>1, NoOwner DEF Nobody
<1> DEFINE s == <<NewOp(1)>>
<1>4. /\ s \in Seq(Op) /\ s # <<>> /\ Buried(s) /\ HasOwner(s)
      /\ s[Len(s)].task = 1
  BY <1>1, First
<1>5. stack' = [stack EXCEPT ![t] = s]
  BY DEF Start
<1> HIDE DEF s
<1>6. /\ stack' \in [Threads -> Seq(Op)] /\ AllBuried' /\ Owners' = {t}
      /\ Top(t)'.task = 1 /\ stack'[t] = s
      /\ \A u \in Threads \ {t} : stack'[u] = stack[u] /\ ~Owning(u)'
  BY <1>2, <1>4, <1>5, OwnersAfter DEF Owners
<1>7. TypeOK'
  BY <1>1, <1>6 DEF IInv, TypeOK, Start
<1>8. Located'
  BY <1>2, <1>6 DEF Start, Located, AnOp
<1>9. Called'
  BY <1>4, <1>6 DEF IInv, TypeOK, Called, Start
<1> QED
  BY <1>6, <1>7, <1>8, <1>9 DEF IInv

LEMMA WaitInv ==
    ASSUME IInv, NEW t \in Threads, Wait(t) PROVE IInv'
<1> DEFINE k == Top(t).task
<1>1. /\ AnOp(t) /\ k \in Task /\ live # {}
      /\ stack[t] \in Seq(Op) /\ stack[t] # <<>> /\ Buried(stack[t])
  BY TheOwner DEF Wait
<1> DEFINE s == Released(t)
<1>2. s \in Seq(Op) /\ s # <<>> /\ Buried(s) /\ ~HasOwner(s)
  BY <1>1, Release, Idle DEF Released
<1>3. stack' = [stack EXCEPT ![t] = s]
  BY DEF Wait
<1> HIDE DEF s, k
<1>4. /\ stack' \in [Threads -> Seq(Op)] /\ AllBuried' /\ Owners' = {}
      /\ stack'[t] = s
      /\ \A u \in Threads \ {t} : stack'[u] = stack[u]
      /\ \A u \in Threads : ~Owning(u)'
  <2>1. Owners' = {}
    BY <1>1, <1>2, <1>3, OwnersAfter DEF AnOp
  <2> QED
    BY <1>2, <1>3, <2>1, OwnersAfter DEF Owners
<1>5. TypeOK'
  BY <1>1, <1>4 DEF IInv, TypeOK, Wait, k
<1>6. \E j \in Task : Owners' = {} /\ pending' = {j} /\ live' = 1..j
  BY <1>1, <1>4 DEF AnOp, Wait, k
<1>7. Called'
  BY <1>1, <1>2, <1>4 DEF IInv, Called, Wait
<1> QED
  BY <1>1, <1>4, <1>5, <1>6, <1>7 DEF IInv, Located, AContinuation

LEMMA StartTaskInv ==
    ASSUME IInv, NEW t \in Threads, StartTask(t) PROVE IInv'
<1> DEFINE k == Top(t).task
<1>1. /\ AnOp(t) /\ k \in Task /\ live # {}
      /\ stack[t] \in Seq(Op) /\ stack[t] # <<>> /\ Buried(stack[t])
  BY TheOwner DEF StartTask
<1> DEFINE s == Append(Released(t), NewOp(k + 1))
<1>2. k + 1 \in Task
  BY <1>1, BoundAssumption DEF StartTask, Task
<1>3. Released(t) \in Seq(Op) /\ Loose(Released(t))
  BY <1>1, Release DEF Released
<1>4. /\ s \in Seq(Op) /\ s # <<>> /\ Buried(s) /\ HasOwner(s)
      /\ s[Len(s)].task = k + 1
  BY <1>2, <1>3, Push
<1>5. stack' = [stack EXCEPT ![t] = s]
  BY DEF StartTask
<1> HIDE DEF s
<1>6. /\ stack' \in [Threads -> Seq(Op)] /\ AllBuried' /\ Owners' = {t}
      /\ stack'[t] = s /\ Top(t)'.task = k + 1
      /\ \A u \in Threads \ {t} : stack'[u] = stack[u] /\ ~Owning(u)'
  <2>1. \A u \in Threads \ {t} : ~Owning(u)
    BY <1>1 DEF AnOp, Owners
  <2> QED
    BY <1>1, <1>4, <1>5, <2>1, OwnersAfter DEF AnOp
<1>7. live' = 1..(k + 1) /\ first' = first \cup {k + 1}
  BY <1>1, <1>2 DEF StartTask, AnOp, Task
<1>8. TypeOK'
  <2>1. live' \subseteq Task /\ first' \subseteq Task
    BY <1>2, <1>7, TasksUpTo DEF IInv, TypeOK
  <2> QED
    BY <1>6, <2>1 DEF IInv, TypeOK, StartTask
<1>9. AnOp(t)'
  BY <1>1, <1>6, <1>7 DEF AnOp, StartTask
<1>10. Called'
  BY <1>1, <1>4, <1>6, <1>7, <1>2 DEF IInv, Called, StartTask, Task
<1> QED
  BY <1>6, <1>8, <1>9, <1>10 DEF IInv, Located

(* A task that completes does so in a thread in run(). *)
LEMMA CompletesInLoop ==
    ASSUME IInv, NEW t \in Threads, Complete(t) PROVE caller[t] = "loop"
<1>1. stack[t] # <<>> /\ Owning(t) /\ Top(t).task \notin first
  BY DEF Complete, Owning
<1> QED
  BY <1>1 DEF IInv, TypeOK, Called

LEMMA CompleteInv ==
    ASSUME IInv, NEW t \in Threads, Complete(t) PROVE IInv'
<1> DEFINE k == Top(t).task
<1>1. /\ AnOp(t) /\ k \in Task /\ live # {}
      /\ stack[t] \in Seq(Op) /\ stack[t] # <<>> /\ Buried(stack[t])
  BY TheOwner DEF Complete
<1>2. Released(t) \in Seq(Op) /\ Released(t) # <<>> /\ Loose(Released(t))
  BY <1>1, Release DEF Released
<1>3. caller[t] = "loop"
  BY CompletesInLoop
<1>4. live' = 1..k \ {k} /\ pending' = {} /\ caller' = caller /\ waits' = waits
  BY <1>1 DEF Complete, Freed, AnOp
<1>5. CASE k = 1
  <2> DEFINE s == Released(t)
  <2>1. Buried(s) /\ ~HasOwner(s) /\ stack' = [stack EXCEPT ![t] = s]
    BY <1>2, <1>5, Idle DEF Complete
  <2> HIDE DEF s
  <2>2. /\ stack' \in [Threads -> Seq(Op)] /\ AllBuried' /\ Owners' = {}
        /\ stack'[t] = s
        /\ \A u \in Threads \ {t} : stack'[u] = stack[u]
    BY <1>1, <1>2, <2>1, OwnersAfter DEF AnOp, s
  <2>3. live' = {} /\ first' = first /\ state' = "called"
    BY <1>4, <1>5 DEF Complete
  <2>4. TypeOK'
    BY <1>4, <2>2, <2>3 DEF IInv, TypeOK
  <2>5. Nobody'
    BY <1>4, <2>2, <2>3 DEF Nobody
  <2>6. Called'
    <3>1. \A u \in Threads : ~Owning(u)'
      BY <2>2 DEF Owners
    <3> QED
      BY <1>1, <1>2, <1>4, <2>2, <2>3, <3>1 DEF IInv, Called, s
  <2> QED
    BY <2>2, <2>4, <2>5, <2>6 DEF IInv, Located
<1>6. CASE k > 1
  <2> DEFINE s == Append(Released(t), NewOp(k - 1))
  <2>1. k - 1 \in Task
    BY <1>1, <1>6, BoundAssumption DEF Task
  <2>2. /\ s \in Seq(Op) /\ s # <<>> /\ Buried(s) /\ HasOwner(s)
        /\ s[Len(s)].task = k - 1
    BY <1>2, <2>1, Push
  <2>3. stack' = [stack EXCEPT ![t] = s] /\ first' = first \ {k - 1}
        /\ state' = state
    BY <1>6 DEF Complete
  <2> HIDE DEF s
  <2>4. /\ stack' \in [Threads -> Seq(Op)] /\ AllBuried' /\ Owners' = {t}
        /\ stack'[t] = s /\ Top(t)'.task = k - 1
        /\ \A u \in Threads \ {t} : stack'[u] = stack[u] /\ ~Owning(u)'
    <3>1. \A u \in Threads \ {t} : ~Owning(u)
      BY <1>1 DEF AnOp, Owners
    <3> QED
      BY <1>1, <2>2, <2>3, <3>1, OwnersAfter DEF AnOp
  <2>5. live' = 1..(k - 1) /\ live' # {}
    BY <1>1, <1>4, <2>1 DEF Task
  <2>6. TypeOK'
    BY <1>4, <2>1, <2>3, <2>4, <2>5, TasksUpTo DEF IInv, TypeOK
  <2>7. AnOp(t)'
    BY <1>4, <2>4, <2>5 DEF AnOp
  <2>8. Called'
    BY <1>1, <1>3, <1>4, <2>2, <2>3, <2>4, <2>5 DEF IInv, Called
  <2> QED
    BY <2>4, <2>6, <2>7, <2>8 DEF IInv, Located
<1> QED
  BY <1>1, <1>5, <1>6 DEF Task

LEMMA ReturnInv ==
    ASSUME IInv, NEW t \in Threads, Return(t) PROVE IInv'
<1>1. stack[t] \in Seq(Op) /\ stack[t] # <<>> /\ Buried(stack[t]) /\ ~Owning(t)
  BY DEF IInv, TypeOK, AllBuried, Return, Owning
<1> DEFINE s == SubSeq(stack[t], 1, Len(stack[t]) - 1)
<1>2. s \in Seq(Op) /\ Buried(s) /\ ~HasOwner(s)
  BY <1>1, Pop, Idle
<1>3. stack' = [stack EXCEPT ![t] = s]
  BY DEF Return
<1>4. caller' = IF s = <<>> THEN [caller EXCEPT ![t] = "none"] ELSE caller
  BY DEF Return
<1> HIDE DEF s
<1>5. /\ stack' \in [Threads -> Seq(Op)] /\ AllBuried' /\ Owners' = Owners
      /\ stack'[t] = s /\ ~Owning(t)'
      /\ \A u \in Threads \ {t} :
             stack'[u] = stack[u] /\ Top(u)' = Top(u) /\ (Owning(u)' <=> Owning(u))
  <2>1. t \notin Owners
    BY <1>1 DEF Owners
  <2>2. Owners' = (Owners \ {t}) \cup {} /\ ~Owning(t)'
    BY <1>2, <1>3, OwnersAfter
  <2>3. Owners' = Owners
    BY <2>1, <2>2
  <2> QED
    BY <1>2, <1>3, <2>2, <2>3, OwnersAfter
<1>6. TypeOK'
  BY <1>4, <1>5 DEF IInv, TypeOK, Return
<1>7. Located'
  <2>1. CASE Nobody
    BY <1>5, <2>1 DEF Nobody, Located, Return
  <2>2. ASSUME NEW u \in Threads, AnOp(u) PROVE AnOp(u)'
    <3>1. u \in Threads \ {t}
      BY <1>1, <2>2 DEF AnOp, Owners
    <3> QED
      BY <1>5, <2>2, <3>1 DEF AnOp, Return
  <2>3. ASSUME NEW k \in Task, AContinuation(k) PROVE AContinuation(k)'
    BY <1>5, <2>3 DEF AContinuation, Return
  <2> QED
    BY <2>1, <2>2, <2>3 DEF IInv, Located
<1>8. Called'
  <2>1. caller \in [Threads -> {"none", "start", "loop"}] /\ stack[t] # <<>>
    BY <1>1 DEF IInv, TypeOK
  <2>2. /\ caller'[t] = "none" <=> s = <<>>
        /\ \A u \in Threads \ {t} : caller'[u] = caller[u]
    BY <1>4, <2>1 DEF IInv, Called
  <2> QED
    BY <1>5, <2>2 DEF IInv, Called, Return
<1> QED
  BY <1>5, <1>6, <1>7, <1>8 DEF IInv

LEMMA ThrowInv ==
    ASSUME IInv, NEW t \in Threads, Throw(t) PROVE IInv'
<1> DEFINE s == <<>>
<1>1. s \in Seq(Op) /\ Buried(s) /\ ~HasOwner(s)
  BY DEF Buried, HasOwner
<1>2. stack' = [stack EXCEPT ![t] = s]
  BY DEF Throw
<1>3. /\ stack' \in [Threads -> Seq(Op)] /\ AllBuried' /\ Owners' = Owners \ {t}
      /\ stack'[t] = s /\ ~Owning(t)'
      /\ \A u \in Threads \ {t} :
             stack'[u] = stack[u] /\ Top(u)' = Top(u) /\ (Owning(u)' <=> Owning(u))
  <2> HIDE DEF s
  <2> QED
    BY <1>1, <1>2, OwnersAfter
<1>4. /\ caller' = [caller EXCEPT ![t] = "none"]
      /\ caller' \in [Threads -> {"none", "start", "loop"}]
      /\ pending' = pending /\ first' = first /\ waits' = waits
  BY DEF IInv, TypeOK, Throw
<1>5. \A u \in Threads : caller'[u] = "none" <=> stack'[u] = <<>>
  BY <1>3, <1>4 DEF IInv, TypeOK, Called
<1>6. \A u \in Threads :
         Owning(u)' /\ caller'[u] = "start" => Top(u)'.task \in first'
  BY <1>3, <1>4 DEF IInv, TypeOK, Called
<1>7. CASE Owning(t)
  <2>1. AnOp(t)
    BY <1>7, TheOwner
  <2>2. live' = {} /\ state' = "dropped"
    BY <1>7 DEF Throw, Owning
  <2>3. Nobody'
    BY <1>3, <1>4, <2>1, <2>2 DEF Nobody, AnOp
  <2>4. TypeOK'
    BY <1>3, <1>4, <2>2 DEF IInv, TypeOK
  <2> QED
    BY <1>3, <1>5, <1>6, <2>2, <2>3, <2>4 DEF IInv, Located, Called
<1>8. CASE ~Owning(t)
  <2>1. live' = live /\ state' = state /\ Owners' = Owners
    BY <1>3, <1>8 DEF Throw, Owning, Owners
  <2>2. TypeOK'
    BY <1>3, <1>4, <2>1 DEF IInv, TypeOK
  <2>3. Located'
    <3>1. CASE Nobody
      BY <1>4, <2>1, <3>1 DEF Nobody, Located
    <3>2. ASSUME NEW u \in Threads, AnOp(u) PROVE AnOp(u)'
      <4>1. u \in Threads \ {t}
        BY <1>8, <3>2 DEF AnOp, Owners
      <4> QED
        BY <1>3, <1>4, <2>1, <3>2, <4>1 DEF AnOp
    <3>3. ASSUME NEW k \in Task, AContinuation(k) PROVE AContinuation(k)'
      BY <1>4, <2>1, <3>3 DEF AContinuation
    <3> QED
      BY <3>1, <3>2, <3>3 DEF IInv, Located
  <2> QED
    BY <1>3, <1>5, <1>6, <2>1, <2>2, <2>3 DEF IInv, Called
<1> QED
  BY <1>7, <1>8

LEMMA ContinueInv ==
    ASSUME IInv, NEW t \in Threads, Continue(t) PROVE IInv'
<1>1. PICK k \in pending :
         /\ pending' = pending \ {k} /\ first' = first \ {k}
         /\ stack' = [stack EXCEPT ![t] = <<NewOp(k)>>]
  BY DEF Continue
<1>2. k \in Task /\ AContinuation(k)
  BY <1>1 DEF IInv, TypeOK, Located, Nobody, AnOp, AContinuation
<1> DEFINE s == <<NewOp(k)>>
<1>3. /\ s \in Seq(Op) /\ s # <<>> /\ Buried(s) /\ HasOwner(s)
      /\ s[Len(s)].task = k
  BY <1>2, First
<1>4. stack' = [stack EXCEPT ![t] = s]
  BY <1>1
<1> HIDE DEF s
<1>5. /\ stack' \in [Threads -> Seq(Op)] /\ AllBuried' /\ Owners' = {t}
      /\ stack'[t] = s /\ Top(t)'.task = k
      /\ \A u \in Threads \ {t} : stack'[u] = stack[u] /\ ~Owning(u)'
  <2>1. \A u \in Threads : ~Owning(u)
    BY <1>2 DEF AContinuation, Owners
  <2> QED
    BY <1>2, <1>3, <1>4, <2>1, OwnersAfter DEF AContinuation
<1>6. /\ pending' = {} /\ live' = 1..k
      /\ live' = live /\ state' = state /\ waits' = waits
      /\ caller' = [caller EXCEPT ![t] = "loop"]
  BY <1>1, <1>2 DEF AContinuation, Continue
<1>7. TypeOK'
  BY <1>1, <1>5, <1>6 DEF IInv, TypeOK
<1>8. AnOp(t)'
  BY <1>5, <1>6 DEF AnOp
<1>9. Called'
  BY <1>3, <1>5, <1>6 DEF IInv, TypeOK, Called
<1> QED
  BY <1>5, <1>7, <1>8, <1>9 DEF IInv, Located

LEMMA ContextDestroyedInv ==
    ASSUME IInv, ContextDestroyed PROVE IInv'
<1>1. \A t \in Threads : stack[t] = <<>>
  BY DEF IInv, Called, ContextDestroyed
<1>2. \A t \in Threads : ~Owning(t)'
  BY <1>1 DEF ContextDestroyed, Owning
<1>3. Nobody'
  BY <1>2 DEF Nobody, Owners, ContextDestroyed
<1>4. AllBuried'
  BY DEF IInv, AllBuried, ContextDestroyed
<1>5. TypeOK' /\ Called'
  BY <1>2 DEF IInv, TypeOK, Called, ContextDestroyed
<1> QED
  BY <1>3, <1>4, <1>5 DEF IInv, Located

LEMMA StutterInv == ASSUME IInv, UNCHANGED vars PROVE IInv'
<1>1. /\ \A t \in Threads : (Owning(t)' <=> Owning(t)) /\ Top(t)' = Top(t)
      /\ Owners' = Owners
  BY DEF vars, Owning, Top, Owners
<1>2. Located'
  <2>1. ASSUME NEW t \in Threads, AnOp(t) PROVE AnOp(t)'
    BY <1>1, <2>1 DEF vars, AnOp
  <2> QED
    BY <1>1, <2>1 DEF vars, IInv, Located, Nobody, AContinuation
<1> QED
  BY <1>1, <1>2 DEF vars, IInv, TypeOK, AllBuried, Called

(* The invariant that OneOwner and HandlerCalledLast need. *)
THEOREM Invariant == Spec => []IInv
<1>1. ASSUME IInv, [Next]_vars PROVE IInv'
  BY <1>1, StartInv, WaitInv, StartTaskInv, CompleteInv, ReturnInv, ThrowInv,
     ContinueInv, ContextDestroyedInv, StutterInv DEF Next, Step
<1> QED
  BY <1>1, InitInv, PTL DEF Spec

(* OneOwner: there is one owner of the latest task, and so of all. *)
THEOREM Ownership == Spec => []OneOwner
<1>1. ASSUME IInv PROVE OneOwner
  <2>1. \A t \in Threads : Owning(t) => AnOp(t) /\ live # {}
    BY <1>1, TheOwner
  <2>2. Cardinality({}) = 0
    BY FS_EmptySet
  <2>3. CASE Nobody
    BY <1>1, <2>2, <2>3
       DEF Nobody, OneOwner, Owned, IInv, AllBuried, Buried
  <2>4. ASSUME NEW t \in Threads, AnOp(t) PROVE OneOwner
    <3>1. live # {}
      BY <2>1, <2>4 DEF AnOp, Owners
    <3>2. Cardinality({t}) = 1
      BY FS_Singleton
    <3>3. Owned = {Top(t).task}
      BY <2>4 DEF AnOp, Owned
    <3> QED
      BY <1>1, <2>2, <2>4, <3>1, <3>2, <3>3
         DEF AnOp, OneOwner, IInv, AllBuried, Buried
  <2>5. ASSUME NEW k \in Task, AContinuation(k) PROVE OneOwner
    <3>1. live # {} /\ Owned = {k}
      BY <2>5 DEF AContinuation, Owned, Task
    <3>2. Cardinality({k}) = 1
      BY FS_Singleton
    <3> QED
      BY <1>1, <2>2, <2>5, <3>1, <3>2
         DEF AContinuation, OneOwner, IInv, AllBuried, Buried
  <2> QED
    BY <1>1, <2>3, <2>4, <2>5 DEF IInv, Located
<1> QED
  BY <1>1, Invariant, PTL

(* HandlerCalledLast: when the handler is invoked nothing is allocated any   *)
(* more, and the invocation is in run().                                     *)
THEOREM HandlerLast == Spec => HandlerCalledLast
<1> DEFINE Last ==
        state' = "called" =>
            /\ live' = {} /\ pending = {}
            /\ state = "started" \/ state = "called"
            /\ state = "started" =>
                   \E t \in Threads : Owning(t) /\ caller[t] = "loop"
<1>1. ASSUME IInv, NEW t \in Threads, Complete(t) PROVE Last
  <2>1. AnOp(t) /\ live # {} /\ Owning(t)
    BY <1>1, TheOwner DEF Complete
  <2>2. caller[t] = "loop" /\ state = "started"
    BY <1>1, <2>1, CompletesInLoop DEF IInv, Called
  <2>3. state' = "called" => Top(t).task = 1
    BY <1>1, <2>2 DEF Complete
  <2>4. Top(t).task = 1 => live' = {}
    BY <1>1, <2>1 DEF Complete, Freed, AnOp
  <2> QED
    BY <2>1, <2>2, <2>3, <2>4 DEF AnOp
<1>2. ASSUME IInv, [Next]_vars, ~\E t \in Threads : Complete(t) PROVE Last
  <2>1. state' = "called" => state = "called" /\ live' = live
    <3>1. ASSUME live # {} PROVE state # "called"
      BY <1>2, <3>1 DEF IInv, Called
    <3>2. \A t \in Threads : Owning(t) => live # {}
      BY <1>2, TheOwner
    <3> QED
      BY <1>2, <3>1, <3>2 DEF Next, Step, Start, Wait, StartTask, Return, Throw,
                              Continue, ContextDestroyed, vars, Owning
  <2>2. state = "called" => live = {} /\ pending = {}
    BY <1>2, NoOwner DEF IInv, Called, Nobody
  <2> QED
    BY <2>1, <2>2
<1>3. ASSUME IInv, [Next]_vars PROVE [Last]_vars
  BY <1>1, <1>2, <1>3
<1> QED
  BY <1>3, Invariant, PTL DEF Spec, HandlerCalledLast
=============================================================================
