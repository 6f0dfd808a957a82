-------------------------- MODULE ConnectorProofs ---------------------------
(* Theorems about ws::Connector for any number of connects and closes.       *)
EXTENDS Connector, FiniteSetTheorems, SequenceTheorems, TLAPS

Task == [kind : {"connect", "unhook"}, op : Call] \union [kind : {"close"}]
Result == [op : Call, ec : {"ok", "failed", "refused", "aborted"}]

(* The one place where a call is. *)
OnlyPosted(n) ==
    /\ \E i \in DOMAIN tasks : Waiting(n) = {i}
    /\ n \notin nascent /\ Answers(n) = {}
OnlyNascent(n) == Waiting(n) = {} /\ n \in nascent /\ Answers(n) = {}
OnlyAnswered(n) ==
    /\ Waiting(n) = {} /\ n \notin nascent
    /\ \E i \in DOMAIN results : Answers(n) = {i}
Nowhere(n) == Waiting(n) = {} /\ n \notin nascent /\ Answers(n) = {}

InOnePlace(n) ==
    /\ n > connects => Nowhere(n)
    /\ n <= connects => OnlyPosted(n) \/ OnlyNascent(n) \/ OnlyAnswered(n)

(* How websocketpp's connection and its handlers stand at each place: no     *)
(* connection before, a handshake with handlers while nascent; and a posted  *)
(* unhook is for a connection that is no longer nascent.                     *)
Fits(n) ==
    /\ Nowhere(n) \/ OnlyPosted(n) => session[n] = "none" /\ n \notin attached
    /\ n \in nascent =>
           session[n] = "connecting" /\ n \in hooked /\ n \notin attached
Unhooks(i) == tasks[i].kind = "unhook" =>
    LET n == tasks[i].op
    IN  n \notin nascent /\ Waiting(n) = {} /\ session[n] # "none"

IInv ==
    /\ TypeOK
    /\ \A n \in Call : InOnePlace(n) /\ Fits(n)
    /\ \A i \in DOMAIN tasks : Unhooks(i)
    /\ VerdictIsTrue
-----------------------------------------------------------------------------
LEMMA Types ==
    ASSUME TypeOK
    PROVE  /\ tasks \in Seq(Task) /\ results \in Seq(Result)
           /\ DOMAIN tasks = 1..Len(tasks) /\ DOMAIN results = 1..Len(results)
           /\ Len(tasks) \in Nat /\ Len(results) \in Nat
           /\ connects \in Nat /\ Call \subseteq Nat
           /\ \A i \in DOMAIN tasks :
                  tasks[i].kind \in {"connect", "unhook"} => tasks[i].op \in Call
           /\ \A i \in DOMAIN results : results[i] \in Result
<1>1. tasks \in Seq(Task) /\ results \in Seq(Result)
  BY DEF TypeOK, Task, Result
<1>2. \A i \in DOMAIN tasks : tasks[i] \in Task
  BY <1>1, ElementOfSeq
<1>3. \A t \in Task : t.kind \in {"connect", "unhook"} => t.op \in Call
  BY DEF Task
<1>4. \A i \in DOMAIN results : results[i] \in Result
  BY <1>1, ElementOfSeq
<1> QED
  BY <1>1, <1>2, <1>3, <1>4, BoundAssumption DEF TypeOK, Call

(* What appending to the tasks, or taking their head, does to who waits. *)
LEMMA WaitingAppend ==
    ASSUME TypeOK, NEW e \in Task, tasks' = Append(tasks, e), NEW n \in Call
    PROVE  /\ tasks' \in Seq(Task) /\ DOMAIN tasks' = 1..(Len(tasks) + 1)
           /\ tasks'[Len(tasks) + 1] = e
           /\ \A i \in DOMAIN tasks : i \in DOMAIN tasks' /\ tasks'[i] = tasks[i]
           /\ Waiting(n)' = Waiting(n) \cup
                  (IF e.kind = "connect" /\ e.op = n THEN {Len(tasks) + 1} ELSE {})
<1>1. /\ tasks' \in Seq(Task) /\ DOMAIN tasks' = 1..(Len(tasks) + 1)
      /\ tasks'[Len(tasks) + 1] = e
      /\ \A i \in 1..Len(tasks) : tasks'[i] = tasks[i]
  BY Types, AppendProperties
<1>2. DOMAIN tasks = 1..Len(tasks) /\ Len(tasks) \in Nat
  BY Types
<1> QED
  BY <1>1, <1>2 DEF Waiting

LEMMA WaitingTail ==
    ASSUME TypeOK, tasks # <<>>, tasks' = Tail(tasks), NEW n \in Call
    PROVE  /\ tasks' \in Seq(Task) /\ Head(tasks) = tasks[1] /\ 1 \in DOMAIN tasks
           /\ \A i \in DOMAIN tasks' :
                  i + 1 \in DOMAIN tasks /\ tasks'[i] = tasks[i + 1]
           /\ Waiting(n) = {} => Waiting(n)' = {}
           /\ \A i \in DOMAIN tasks : Waiting(n) = {i} =>
                  IF i = 1 THEN Waiting(n)' = {}
                  ELSE i - 1 \in DOMAIN tasks' /\ Waiting(n)' = {i - 1}
<1>1. /\ tasks \in Seq(Task) /\ DOMAIN tasks = 1..Len(tasks)
      /\ Len(tasks) \in Nat /\ Len(tasks) > 0 /\ Head(tasks) = tasks[1]
  BY Types, EmptySeq
<1>2. /\ tasks' \in Seq(Task) /\ DOMAIN tasks' = 1..(Len(tasks) - 1)
      /\ \A i \in 1..(Len(tasks) - 1) : tasks'[i] = tasks[i + 1]
  BY <1>1, HeadTailProperties
<1>3. \A i \in DOMAIN tasks' : i + 1 \in DOMAIN tasks
  BY <1>1, <1>2
<1>4. Waiting(n) = {} => Waiting(n)' = {}
  BY <1>2, <1>3 DEF Waiting
<1>5. ASSUME NEW i \in DOMAIN tasks, Waiting(n) = {i}, i = 1
      PROVE  Waiting(n)' = {}
  BY <1>1, <1>2, <1>3, <1>5 DEF Waiting
<1>6. ASSUME NEW i \in DOMAIN tasks, Waiting(n) = {i}, i # 1
      PROVE  i - 1 \in DOMAIN tasks' /\ Waiting(n)' = {i - 1}
  <2>1. i - 1 \in DOMAIN tasks' /\ tasks'[i - 1] = tasks[i]
    BY <1>1, <1>2, <1>6
  <2>2. i - 1 \in Waiting(n)'
    BY <1>6, <2>1 DEF Waiting
  <2>3. ASSUME NEW j \in Waiting(n)' PROVE j = i - 1
    <3>1. j \in DOMAIN tasks' /\ j + 1 \in Waiting(n)
      BY <1>2, <1>3 DEF Waiting
    <3> QED
      BY <1>1, <1>2, <1>6, <3>1
  <2> QED
    BY <2>1, <2>2, <2>3
<1> QED
  BY <1>1, <1>2, <1>3, <1>4, <1>5, <1>6

LEMMA AnswersAppend ==
    ASSUME TypeOK, NEW e \in Result, results' = Append(results, e), NEW n \in Call
    PROVE  /\ results' \in Seq(Result) /\ DOMAIN results' = 1..(Len(results) + 1)
           /\ results'[Len(results) + 1] = e
           /\ \A i \in DOMAIN results : i \in DOMAIN results' /\ results'[i] = results[i]
           /\ Answers(n)' = Answers(n) \cup
                  (IF e.op = n THEN {Len(results) + 1} ELSE {})
<1>1. /\ results' \in Seq(Result) /\ DOMAIN results' = 1..(Len(results) + 1)
      /\ results'[Len(results) + 1] = e
      /\ \A i \in 1..Len(results) : results'[i] = results[i]
  BY Types, AppendProperties
<1>2. DOMAIN results = 1..Len(results) /\ Len(results) \in Nat
  BY Types
<1> QED
  BY <1>1, <1>2 DEF Answers
-----------------------------------------------------------------------------
LEMMA InitInv == Init => IInv
<1> SUFFICES ASSUME Init PROVE IInv
  OBVIOUS
<1>1. TypeOK
  BY BoundAssumption DEF Init, TypeOK
<1>2. \A n \in Call : Nowhere(n)
  BY DEF Init, Nowhere, Waiting, Answers
<1>3. \A n \in Call : n > connects
  BY BoundAssumption DEF Init, Call
<1>4. \A n \in Call : InOnePlace(n) /\ Fits(n)
  BY <1>2, <1>3 DEF Init, InOnePlace, Fits, Nowhere, Call
<1> QED
  BY <1>1, <1>4 DEF Init, IInv, VerdictIsTrue

(* A task that is no connect is posted. *)
LEMMA PostInv ==
    ASSUME IInv, NEW e \in Task, e.kind # "connect",
           tasks' = Append(tasks, e), TypeOK',
           e.kind = "unhook" =>
               e.op \notin nascent' /\ Waiting(e.op) = {}
                   /\ session'[e.op] # "none",
           \A n \in Call : session[n] # "none" => session'[n] # "none",
           nascent' \subseteq nascent
    PROVE  /\ \A n \in Call : Waiting(n)' = Waiting(n)
           /\ DOMAIN tasks \subseteq DOMAIN tasks'
           /\ \A i \in DOMAIN tasks' : Unhooks(i)'
<1>1. ASSUME NEW n \in Call PROVE Waiting(n)' = Waiting(n)
  <2>1. Waiting(n)' = Waiting(n) \cup {}
    BY WaitingAppend DEF IInv
  <2> QED
    BY <2>1
<1>2. /\ DOMAIN tasks' = 1..(Len(tasks) + 1) /\ tasks'[Len(tasks) + 1] = e
      /\ \A i \in DOMAIN tasks : i \in DOMAIN tasks' /\ tasks'[i] = tasks[i]
  BY Types, AppendProperties DEF IInv
<1>3. DOMAIN tasks = 1..Len(tasks) /\ Len(tasks) \in Nat
  BY Types DEF IInv
<1>4. \A i \in DOMAIN tasks' : tasks'[i].kind = "unhook" => tasks'[i].op \in Call
  <2>1. tasks' \in Seq(Task)
    BY DEF TypeOK, Task
  <2>2. \A i \in DOMAIN tasks' : tasks'[i] \in Task
    BY <2>1, ElementOfSeq
  <2> QED
    BY <2>2 DEF Task
<1>5. ASSUME NEW i \in DOMAIN tasks, tasks[i].kind = "unhook"
      PROVE  Unhooks(i)'
  BY <1>1, <1>2, <1>4, <1>5 DEF IInv, Unhooks
<1>6. ASSUME NEW i \in DOMAIN tasks', i \notin DOMAIN tasks PROVE Unhooks(i)'
  BY <1>1, <1>2, <1>3, <1>4, <1>6 DEF Unhooks
<1>7. ASSUME NEW i \in DOMAIN tasks' PROVE Unhooks(i)'
  BY <1>2, <1>5, <1>6, <1>7 DEF Unhooks
<1> QED
  BY <1>1, <1>2, <1>7

LEMMA AsyncConnectInv ==
    ASSUME IInv, AsyncConnect PROVE IInv'
<1> DEFINE c == connects + 1
           e == [kind |-> "connect", op |-> c]
<1>1. c \in Call /\ connects' = c /\ e \in Task
  BY BoundAssumption DEF IInv, TypeOK, AsyncConnect, Call, Task
<1>2. tasks' = Append(tasks, e)
  BY DEF AsyncConnect
<1>3. TypeOK'
  BY <1>1, <1>2, WaitingAppend, BoundAssumption
     DEF IInv, TypeOK, AsyncConnect, Call, Task
<1>4. /\ nascent' = nascent /\ session' = session /\ hooked' = hooked
      /\ attached' = attached /\ results' = results
  BY DEF AsyncConnect
<1>5. ASSUME NEW n \in Call PROVE InOnePlace(n)' /\ Fits(n)'
  <2>1. /\ Waiting(n)' = Waiting(n) \cup (IF n = c THEN {Len(tasks) + 1} ELSE {})
        /\ DOMAIN tasks \subseteq DOMAIN tasks' /\ Answers(n)' = Answers(n)
        /\ Len(tasks) + 1 \in DOMAIN tasks' /\ DOMAIN results' = DOMAIN results
    BY <1>1, <1>2, <1>4, WaitingAppend, Types DEF IInv, Answers
  <2>2. n \in Nat /\ connects \in Nat
    BY Types DEF IInv
  <2>3. CASE n = c
    <3>1. Nowhere(n)
      BY <2>2, <2>3 DEF IInv, InOnePlace
    <3>2. OnlyPosted(n)'
      BY <1>4, <2>1, <2>3, <3>1 DEF Nowhere, OnlyPosted
    <3> QED
      BY <1>1, <1>4, <2>2, <2>3, <3>1, <3>2
         DEF IInv, InOnePlace, Fits, OnlyPosted, Nowhere
  <2>4. CASE n # c
    <3>1. /\ Nowhere(n)' <=> Nowhere(n)
          /\ OnlyPosted(n) => OnlyPosted(n)'
          /\ OnlyPosted(n)' => OnlyPosted(n) \/ Nowhere(n)
          /\ OnlyNascent(n) => OnlyNascent(n)'
          /\ OnlyAnswered(n) => OnlyAnswered(n)'
      <4>1. Waiting(n) \subseteq DOMAIN tasks
        BY DEF Waiting
      <4> QED
        BY <1>4, <2>1, <2>4, <4>1
           DEF Nowhere, OnlyPosted, OnlyNascent, OnlyAnswered
    <3> QED
      BY <1>1, <1>4, <2>2, <2>4, <3>1 DEF IInv, InOnePlace, Fits
  <2> QED
    BY <2>3, <2>4
<1>6. ASSUME NEW i \in DOMAIN tasks' PROVE Unhooks(i)'
  <2>1. CASE i \in DOMAIN tasks
    <3>1. tasks'[i] = tasks[i]
      BY <1>1, <1>2, <2>1, WaitingAppend DEF IInv
    <3>2. ASSUME NEW n, n = tasks[i].op, tasks[i].kind = "unhook"
          PROVE  n \in Call /\ Waiting(n)' = {}
      <4>1. n \in Call /\ Waiting(n) = {} /\ session[n] # "none"
        BY <2>1, <3>2, Types DEF IInv, Unhooks
      <4>2. n # c
        BY <1>1, <4>1, Types DEF IInv, InOnePlace, Fits
      <4>3. Waiting(n)' = Waiting(n) \cup {}
        BY <1>1, <1>2, <4>1, <4>2, WaitingAppend DEF IInv
      <4> QED
        BY <4>1, <4>3
    <3> QED
      BY <1>4, <2>1, <3>1, <3>2 DEF IInv, Unhooks
  <2>2. CASE i \notin DOMAIN tasks
    BY <1>1, <1>2, <2>2, WaitingAppend, Types DEF IInv, Unhooks
  <2> QED
    BY <2>1, <2>2
<1>7. VerdictIsTrue'
  BY <1>4 DEF IInv, VerdictIsTrue
<1> QED
  BY <1>3, <1>5, <1>6, <1>7 DEF IInv

(* close() and the destructor. *)
LEMMA CloseInv ==
    ASSUME IInv, Close \/ Destroy PROVE IInv'
<1> DEFINE e == [kind |-> "close"]
<1>1. e \in Task /\ e.kind = "close" /\ tasks' = Append(tasks, e)
  BY DEF Task, Close, Destroy
<1>2. /\ nascent' = nascent /\ session' = session /\ hooked' = hooked
      /\ attached' = attached /\ results' = results /\ connects' = connects
  BY DEF Close, Destroy, counts
<1>3. TypeOK'
  <2>1. tasks' \in Seq(Task)
    BY <1>1, Types, AppendProperties DEF IInv
  <2>2. owner' \in BOOLEAN /\ closes' \in 0..MaxCloses
    <3>1. CASE Close
      BY <3>1, BoundAssumption DEF IInv, TypeOK, Close
    <3>2. CASE Destroy
      BY <3>2 DEF IInv, TypeOK, Destroy, counts
    <3> QED
      BY <3>1, <3>2
  <2> QED
    BY <1>2, <2>1, <2>2 DEF IInv, TypeOK, Task
<1>4. /\ \A n \in Call : Waiting(n)' = Waiting(n)
      /\ DOMAIN tasks \subseteq DOMAIN tasks'
      /\ \A i \in DOMAIN tasks' : Unhooks(i)'
  BY <1>1, <1>2, <1>3, PostInv
<1>5. ASSUME NEW n \in Call PROVE InOnePlace(n)' /\ Fits(n)'
  <2>1. Waiting(n)' = Waiting(n) /\ Answers(n)' = Answers(n)
    BY <1>2, <1>4 DEF Answers
  <2>2. /\ Nowhere(n)' <=> Nowhere(n)
        /\ OnlyPosted(n)' <=> OnlyPosted(n)
        /\ OnlyNascent(n)' <=> OnlyNascent(n)
        /\ OnlyAnswered(n)' <=> OnlyAnswered(n)
    <3>1. Waiting(n) \subseteq DOMAIN tasks
      BY DEF Waiting
    <3> QED
      BY <1>2, <1>4, <2>1, <3>1
         DEF Nowhere, OnlyPosted, OnlyNascent, OnlyAnswered
  <2> QED
    BY <1>2, <2>2 DEF IInv, InOnePlace, Fits
<1>6. VerdictIsTrue'
  BY <1>2 DEF IInv, VerdictIsTrue
<1> QED
  BY <1>3, <1>4, <1>5, <1>6 DEF IInv

(* The task at the head is taken: what that changes of the unhooks. *)
LEMMA TakeInv ==
    ASSUME IInv, tasks # <<>>, tasks' = Tail(tasks), TypeOK',
           \A n \in Call : Waiting(n) = {} /\ n \notin nascent =>
                               n \notin nascent',
           \A n \in Call : session[n] # "none" => session'[n] # "none"
    PROVE  \A i \in DOMAIN tasks' : Unhooks(i)'
<1> SUFFICES ASSUME NEW i \in DOMAIN tasks', tasks'[i].kind = "unhook",
                    NEW n, n = tasks'[i].op
             PROVE  n \notin nascent' /\ Waiting(n)' = {} /\ session'[n] # "none"
  BY DEF Unhooks
<1>1. /\ tasks' \in Seq(Task)
      /\ i + 1 \in DOMAIN tasks /\ tasks'[i] = tasks[i + 1]
  <2>1. /\ tasks \in Seq(Task) /\ DOMAIN tasks = 1..Len(tasks)
        /\ Len(tasks) \in Nat
    BY Types DEF IInv
  <2>2. /\ tasks' \in Seq(Task) /\ Len(tasks') = Len(tasks) - 1
        /\ \A k \in 1..Len(tasks') : tasks'[k] = tasks[k + 1]
    BY <2>1, HeadTailProperties
  <2> QED
    BY <2>1, <2>2
<1>2. tasks[i + 1].kind = "unhook" /\ n = tasks[i + 1].op
  BY <1>1
<1>3. n \in Call
  BY <1>1, <1>2, Types DEF IInv
<1>4. n \notin nascent /\ Waiting(n) = {} /\ session[n] # "none"
  BY <1>1, <1>2 DEF IInv, Unhooks
<1>5. Waiting(n)' = {}
  BY <1>3, <1>4, WaitingTail DEF IInv
<1> QED
  BY <1>3, <1>4, <1>5

(* ... and of a call that is not the one posted there. *)
LEMMA TakeOther ==
    ASSUME IInv, tasks # <<>>, tasks' = Tail(tasks), NEW n \in Call,
           1 \notin Waiting(n), connects' = connects, Answers(n)' = Answers(n),
           DOMAIN results \subseteq DOMAIN results',
           n \in nascent' <=> n \in nascent,
           n \in nascent /\ n \in hooked => n \in hooked',
           session'[n] = session[n], n \in attached' <=> n \in attached
    PROVE  InOnePlace(n)' /\ Fits(n)'
<1>1. /\ Waiting(n) = {} => Waiting(n)' = {}
      /\ \A i \in DOMAIN tasks : Waiting(n) = {i} =>
             i - 1 \in DOMAIN tasks' /\ Waiting(n)' = {i - 1}
  BY WaitingTail DEF IInv
<1>2. /\ Nowhere(n) => Nowhere(n)'
      /\ OnlyPosted(n) => OnlyPosted(n)'
      /\ OnlyNascent(n) => OnlyNascent(n)'
      /\ OnlyAnswered(n) => OnlyAnswered(n)'
  BY <1>1 DEF Nowhere, OnlyPosted, OnlyNascent, OnlyAnswered
<1>3. InOnePlace(n)'
  BY <1>2 DEF IInv, InOnePlace
<1>4. Nowhere(n)' \/ OnlyPosted(n)' => Nowhere(n) \/ OnlyPosted(n)
  <2>1. Nowhere(n) \/ OnlyPosted(n) \/ OnlyNascent(n) \/ OnlyAnswered(n)
    BY Types DEF IInv, InOnePlace
  <2>2. OnlyNascent(n) => n \in nascent'
    BY DEF OnlyNascent
  <2>3. OnlyAnswered(n) => Answers(n)' # {}
    BY DEF OnlyAnswered
  <2> QED
    BY <2>1, <2>2, <2>3 DEF Nowhere, OnlyPosted
<1> QED
  BY <1>3, <1>4 DEF IInv, Fits

LEMMA RunConnectInv ==
    ASSUME IInv, RunConnect PROVE IInv'
<1>1. /\ tasks # <<>> /\ tasks' = Tail(tasks) /\ Head(tasks) = tasks[1]
      /\ tasks[1].kind = "connect" /\ 1 \in DOMAIN tasks
      /\ attached' = attached /\ owner' = owner
      /\ connects' = connects /\ closes' = closes
  BY WaitingTail, Types, EmptySeq DEF IInv, RunConnect, IsTask, counts
<1>2. PICK n \in Call : n = Head(tasks).op
  BY <1>1, Types DEF IInv
<1> DEFINE r == Handler(n, "refused")
<1>3. OnlyPosted(n) /\ Waiting(n) = {1} /\ n <= connects
  <2>1. 1 \in Waiting(n)
    BY <1>1, <1>2 DEF Waiting
  <2> QED
    BY <2>1, Types DEF IInv, InOnePlace, Nowhere, OnlyPosted, OnlyNascent,
                       OnlyAnswered
<1>4. Waiting(n)' = {} /\ tasks' \in Seq(Task)
  BY <1>1, <1>2, <1>3, WaitingTail DEF IInv
<1>5. \A m \in Call \ {n} : 1 \notin Waiting(m)
  BY <1>1, <1>2 DEF Waiting
<1>6. CASE /\ results' = Append(results, r)
           /\ nascent' = nascent /\ session' = session /\ hooked' = hooked
  <2>1. r \in Result /\ r.op = n /\ r.ec = "refused"
    BY <1>2 DEF Handler, Result
  <2>2. /\ results' \in Seq(Result) /\ DOMAIN results' = 1..(Len(results) + 1)
        /\ results'[Len(results) + 1] = r
        /\ \A i \in DOMAIN results :
               i \in DOMAIN results' /\ results'[i] = results[i]
    BY <1>6, <2>1, <1>2, AnswersAppend DEF IInv
  <2>3. TypeOK'
    BY <1>1, <1>4, <1>6, <2>2 DEF IInv, TypeOK, Task, Result
  <2>4. /\ Answers(n)' = {Len(results) + 1} /\ Len(results) + 1 \in DOMAIN results'
        /\ n \notin nascent /\ Answers(n) = {}
    BY <1>2, <1>3, <1>6, <2>1, <2>2, AnswersAppend, Types DEF IInv, OnlyPosted
  <2>5. InOnePlace(n)' /\ Fits(n)'
    <3>1. OnlyAnswered(n)'
      BY <1>4, <1>6, <2>4 DEF OnlyAnswered
    <3> QED
      BY <1>1, <1>3, <1>2, <3>1, <2>3, <2>4, Types
         DEF IInv, InOnePlace, Fits, OnlyAnswered, Nowhere, OnlyPosted
  <2>6. ASSUME NEW m \in Call \ {n} PROVE InOnePlace(m)' /\ Fits(m)'
    <3>1. Answers(m)' = Answers(m) \cup {}
      BY <1>6, <2>1, AnswersAppend DEF IInv
    <3> QED
      BY <1>1, <1>5, <1>6, <2>2, <3>1, TakeOther
  <2>7. \A i \in DOMAIN tasks' : Unhooks(i)'
    BY <1>1, <1>6, <2>3, TakeInv
  <2>8. VerdictIsTrue'
    <3>1. n \notin attached
      BY <1>2, <1>3 DEF IInv, Fits
    <3>2. ASSUME NEW i \in DOMAIN results', i \notin DOMAIN results
          PROVE  results'[i] = r
      BY <2>2, <3>2, Types DEF IInv
    <3> QED
      BY <1>1, <1>6, <2>1, <2>2, <3>1, <3>2 DEF IInv, VerdictIsTrue
  <2> QED
    BY <2>3, <2>5, <2>6, <2>7, <2>8 DEF IInv
<1>7. CASE /\ nascent' = nascent \union {n}
           /\ session' = [session EXCEPT ![n] = "connecting"]
           /\ hooked' = hooked \union {n} /\ results' = results
  <2>1. TypeOK'
    BY <1>1, <1>2, <1>4, <1>7 DEF IInv, TypeOK, Task
  <2>2. /\ session'[n] = "connecting"
        /\ \A m \in Call \ {n} : session'[m] = session[m]
    BY <1>2, <1>7 DEF IInv, TypeOK
  <2>3. \A m \in Call : Answers(m)' = Answers(m)
    BY <1>7 DEF Answers
  <2>4. InOnePlace(n)' /\ Fits(n)'
    <3>1. OnlyNascent(n)'
      BY <1>2, <1>3, <1>4, <1>7, <2>3 DEF OnlyNascent, OnlyPosted
    <3>2. n \notin attached
      BY <1>2, <1>3 DEF IInv, Fits
    <3>3. n \in Nat /\ connects \in Nat /\ ~(n > connects)
      BY <1>3, Types DEF IInv
    <3>4. InOnePlace(n)'
      BY <1>1, <3>1, <3>3 DEF InOnePlace
    <3>5. n \in nascent' /\ n \in hooked'
      BY <1>7
    <3> QED
      BY <1>1, <2>2, <3>2, <3>4, <3>5 DEF Fits, Nowhere, OnlyPosted
  <2>5. ASSUME NEW m \in Call \ {n} PROVE InOnePlace(m)' /\ Fits(m)'
    BY <1>1, <1>5, <1>7, <2>2, <2>3, TakeOther
  <2>6. \A i \in DOMAIN tasks' : Unhooks(i)'
    <3>1. \A m \in Call : Waiting(m) = {} /\ m \notin nascent => m \notin nascent'
      BY <1>3, <1>7
    <3>2. \A m \in Call : session[m] # "none" => session'[m] # "none"
      BY <2>2
    <3> QED
      BY <1>1, <2>1, <3>1, <3>2, TakeInv
  <2>7. VerdictIsTrue'
    <3>1. \A i \in DOMAIN results : results[i].op \in Call \ {n}
      BY <1>3, Types DEF IInv, OnlyPosted, Answers, Result
    <3> QED
      BY <1>1, <1>7, <2>2, <3>1 DEF IInv, VerdictIsTrue
  <2> QED
    BY <2>1, <2>4, <2>5, <2>6, <2>7 DEF IInv
<1> QED
  BY <1>2, <1>6, <1>7 DEF RunConnect, Refusal

LEMMA RunUnhookInv ==
    ASSUME IInv, RunUnhook PROVE IInv'
<1> DEFINE n == Head(tasks).op
<1>1. /\ tasks # <<>> /\ tasks' = Tail(tasks) /\ Head(tasks) = tasks[1]
      /\ tasks[1].kind = "unhook" /\ 1 \in DOMAIN tasks
      /\ attached' = attached /\ owner' = owner /\ hooked' = hooked \ {n}
      /\ nascent' = nascent /\ session' = session /\ results' = results
      /\ connects' = connects /\ closes' = closes
  BY Types, EmptySeq DEF IInv, RunUnhook, IsTask, counts
<1>2. n \in Call /\ n \notin nascent
  BY <1>1, Types DEF IInv, Unhooks
<1>3. tasks' \in Seq(Task)
  BY <1>1, <1>2, WaitingTail DEF IInv
<1>4. TypeOK'
  BY <1>1, <1>3 DEF IInv, TypeOK, Task
<1>5. ASSUME NEW m \in Call PROVE InOnePlace(m)' /\ Fits(m)'
  <2>1. 1 \notin Waiting(m) /\ Answers(m)' = Answers(m)
    BY <1>1 DEF Waiting, Answers
  <2> QED
    BY <1>1, <1>2, <2>1, TakeOther
<1>6. \A i \in DOMAIN tasks' : Unhooks(i)'
  BY <1>1, <1>4, TakeInv
<1>7. VerdictIsTrue'
  BY <1>1 DEF IInv, VerdictIsTrue
<1> QED
  BY <1>4, <1>5, <1>6, <1>7 DEF IInv

(* The results that RunClose adds, one for each nascent connection. *)
LEMMA AbortsAppend ==
    ASSUME IInv, NEW order \in SetToSeqs(nascent),
           NEW aborts, aborts = [i \in DOMAIN order |-> Handler(order[i], "aborted")],
           results' = results \o aborts
    PROVE  /\ results' \in Seq(Result)
           /\ \A i \in DOMAIN results :
                  i \in DOMAIN results' /\ results'[i] = results[i]
           /\ \A i \in DOMAIN results' \ DOMAIN results :
                  results'[i].op \in nascent /\ results'[i].ec = "aborted"
           /\ \A n \in nascent : \E i \in DOMAIN results' \ DOMAIN results :
                  {j \in DOMAIN results' \ DOMAIN results : results'[j].op = n} = {i}
<1> DEFINE c == Cardinality(nascent)
<1>1. IsFiniteSet(nascent) /\ c \in Nat
  <2>1. nascent \in SUBSET (1..MaxConnects)
    BY DEF IInv, TypeOK, Call
  <2>2. IsFiniteSet(1..MaxConnects)
    BY FS_Interval, BoundAssumption
  <2>3. IsFiniteSet(nascent)
    BY <2>1, <2>2, FS_Subset
  <2> QED
    BY <2>3, FS_CardinalityType
<1>2. /\ order \in [1..c -> nascent]
      /\ \A i, j \in 1..c : i # j => order[i] # order[j]
  BY DEF SetToSeqs
<1> HIDE DEF c
<1>3. \A n \in nascent : \E i \in 1..c : order[i] = n
  <2>1. order \in Injection(1..c, nascent)
    BY <1>2 DEF Injection, IsInjective
  <2>2. Cardinality(1..c) = Cardinality(nascent)
    BY <1>1, FS_Interval DEF c
  <2>3. order \in Surjection(1..c, nascent)
    BY <1>1, <2>1, <2>2, FS_Injection
  <2> QED
    BY <2>3 DEF Surjection
<1>4. /\ aborts \in Seq(Result) /\ Len(aborts) = c
      /\ \A i \in 1..c : aborts[i].op = order[i] /\ aborts[i].ec = "aborted"
  <2>1. nascent \subseteq Call
    BY DEF IInv, TypeOK
  <2>2. aborts = [i \in 1..c |-> Handler(order[i], "aborted")]
    BY <1>2
  <2>3. \A i \in 1..c : Handler(order[i], "aborted") \in Result
    BY <1>2, <2>1 DEF Handler, Result
  <2>4. aborts \in [1..c -> Result]
    BY <2>2, <2>3
  <2> QED
    BY <1>1, <2>2, <2>4 DEF Handler
<1>5. results \in Seq(Result) /\ Len(results) \in Nat /\ DOMAIN results = 1..Len(results)
  BY Types DEF IInv
<1>6. /\ results' \in Seq(Result) /\ DOMAIN results' = 1..(Len(results) + c)
      /\ \A i \in 1..(Len(results) + c) : results'[i] =
             IF i <= Len(results) THEN results[i] ELSE aborts[i - Len(results)]
  BY <1>4, <1>5, ConcatProperties
<1>7. \A i \in DOMAIN results' \ DOMAIN results :
         /\ i - Len(results) \in 1..c
         /\ results'[i].op = order[i - Len(results)] /\ results'[i].ec = "aborted"
  BY <1>1, <1>4, <1>5, <1>6
<1>8. ASSUME NEW n \in nascent
      PROVE  \E i \in DOMAIN results' \ DOMAIN results :
                {j \in DOMAIN results' \ DOMAIN results : results'[j].op = n} = {i}
  <2>1. PICK k \in 1..c : order[k] = n
    BY <1>3
  <2>2. Len(results) + k \in DOMAIN results' \ DOMAIN results
    BY <1>1, <1>5, <1>6
  <2>3. \A j \in DOMAIN results' \ DOMAIN results :
           results'[j].op = n <=> j = Len(results) + k
    <3> SUFFICES ASSUME NEW j \in DOMAIN results' \ DOMAIN results
                 PROVE  results'[j].op = n <=> j = Len(results) + k
      OBVIOUS
    <3> DEFINE l == j - Len(results)
    <3>0. j \in Nat
      BY <1>1, <1>5, <1>6
    <3>1. j \in Nat /\ l \in 1..c /\ results'[j].op = order[l]
      BY <1>7, <3>0
    <3>2. order[l] = n <=> l = k
      BY <1>2, <2>1, <3>1
    <3> QED
      BY <1>1, <1>5, <3>1, <3>2
  <2> QED
    BY <2>2, <2>3
<1>9. \A i \in DOMAIN results : i \in DOMAIN results' /\ results'[i] = results[i]
  BY <1>1, <1>5, <1>6
<1> QED
  BY <1>2, <1>6, <1>7, <1>8, <1>9

LEMMA RunCloseInv ==
    ASSUME IInv, RunClose PROVE IInv'
<1>1. /\ tasks # <<>> /\ tasks' = Tail(tasks) /\ Head(tasks) = tasks[1]
      /\ tasks[1].kind = "close" /\ 1 \in DOMAIN tasks
      /\ attached' = attached /\ owner' = owner /\ hooked' = hooked \ nascent
      /\ nascent' = {} /\ connects' = connects /\ closes' = closes
  BY Types, EmptySeq DEF IInv, RunClose, IsTask, counts, Unhooked
<1>2. PICK order \in SetToSeqs(nascent) : results' = results \o
          [i \in DOMAIN order |-> Handler(order[i], "aborted")]
  BY DEF RunClose
<1>3. PICK shut \in SUBSET nascent : session' =
          [n \in Call |-> IF n \in shut THEN "failed" ELSE session[n]]
  BY DEF RunClose
<1>4. /\ results' \in Seq(Result)
      /\ \A i \in DOMAIN results :
             i \in DOMAIN results' /\ results'[i] = results[i]
      /\ \A i \in DOMAIN results' \ DOMAIN results :
             results'[i].op \in nascent /\ results'[i].ec = "aborted"
      /\ \A n \in nascent : \E i \in DOMAIN results' \ DOMAIN results :
             {j \in DOMAIN results' \ DOMAIN results : results'[j].op = n} = {i}
  BY <1>2, AbortsAppend
<1>5. tasks' \in Seq(Task)
  BY <1>1, Types, HeadTailProperties DEF IInv
<1>6. TypeOK'
  BY <1>1, <1>3, <1>4, <1>5 DEF IInv, TypeOK, Task, Result
<1>7. /\ \A n \in Call : session[n] # "none" => session'[n] # "none"
      /\ \A n \in Call \ nascent : session'[n] = session[n]
  BY <1>3
<1>8. ASSUME NEW n \in Call PROVE 1 \notin Waiting(n)
  BY <1>1 DEF Waiting
<1>9. ASSUME NEW n \in Call \ nascent PROVE InOnePlace(n)' /\ Fits(n)'
  <2>1. Answers(n)' = Answers(n) /\ DOMAIN results \subseteq DOMAIN results'
    BY <1>4, <1>9 DEF Answers
  <2> QED
    BY <1>1, <1>7, <1>8, <1>9, <2>1, TakeOther
<1>10. ASSUME NEW n \in nascent PROVE InOnePlace(n)' /\ Fits(n)'
  <2>1. n \in Call /\ nascent \subseteq Call
    BY DEF IInv, TypeOK
  <2>2. OnlyNascent(n) /\ n <= connects /\ n \in Nat /\ connects \in Nat
    BY <2>1, Types DEF IInv, InOnePlace, Nowhere, OnlyPosted, OnlyAnswered
  <2>3. Waiting(n)' = {}
    BY <1>1, <2>1, <2>2, WaitingTail DEF IInv, OnlyNascent
  <2>4. PICK i \in DOMAIN results' \ DOMAIN results :
            {j \in DOMAIN results' \ DOMAIN results : results'[j].op = n} = {i}
    BY <1>4
  <2>5. Answers(n)' = {i}
    BY <1>4, <2>2, <2>4 DEF Answers, OnlyNascent
  <2>6. OnlyAnswered(n)'
    BY <1>1, <2>3, <2>5 DEF OnlyAnswered
  <2> QED
    BY <1>1, <2>2, <2>5, <2>6 DEF InOnePlace, Fits, Nowhere, OnlyPosted, OnlyAnswered
<1>11. \A i \in DOMAIN tasks' : Unhooks(i)'
  BY <1>1, <1>6, <1>7, TakeInv
<1>12. VerdictIsTrue'
  <2>1. \A i \in DOMAIN results : results[i].op \in Call \ nascent
    BY Types DEF IInv, InOnePlace, Answers, Nowhere, OnlyPosted, OnlyNascent,
                 OnlyAnswered, Result
  <2>2. \A n \in nascent : n \notin attached
    BY DEF IInv, TypeOK, Fits
  <2> QED
    BY <1>1, <1>4, <1>7, <2>1, <2>2 DEF IInv, VerdictIsTrue
<1> QED
  BY <1>6, <1>9, <1>10, <1>11, <1>12 DEF IInv

LEMMA HandshakeEndsInv ==
    ASSUME IInv, NEW n \in Call, NEW to \in {"open", "failed"},
           HandshakeEnds(n, to)
    PROVE  IInv'
<1>1. /\ session[n] = "connecting"
      /\ session' = [session EXCEPT ![n] = to]
      /\ hooked' = hooked /\ owner' = owner
      /\ connects' = connects /\ closes' = closes
  BY DEF HandshakeEnds, counts
<1>2. /\ session'[n] = to
      /\ \A m \in Call \ {n} : session'[m] = session[m]
      /\ \A m \in Call : session[m] # "none" => session'[m] # "none"
  BY <1>1 DEF IInv, TypeOK
<1>3. /\ n \in nascent => OnlyNascent(n) /\ n \in hooked /\ n \notin attached
      /\ n \notin nascent => OnlyAnswered(n)
      /\ n <= connects /\ n \in Nat /\ connects \in Nat
  BY <1>1, Types DEF IInv, InOnePlace, Fits, Nowhere, OnlyPosted, OnlyAnswered,
                     OnlyNascent
<1>4. \A i \in DOMAIN results :
         results[i].op = n => results[i].ec \in {"aborted", "refused"}
                                 /\ n \notin attached
  BY <1>1 DEF IInv, VerdictIsTrue
<1>5. CASE n \in nascent
  <2> DEFINE e == [kind |-> "unhook", op |-> n]
             r == Handler(n, Outcome[to])
  <2>1. /\ nascent' = nascent \ {n} /\ tasks' = Append(tasks, e)
        /\ attached' = attached \union {n} /\ results' = Append(results, r)
    BY <1>3, <1>5 DEF HandshakeEnds, HandleOpenOrFail, Erased
  <2>2. e \in Task /\ e.kind = "unhook" /\ e.op = n
    BY DEF Task
  <2>3. /\ r \in Result /\ r.op = n
        /\ r.ec = IF to = "open" THEN "ok" ELSE "failed"
    BY DEF Handler, Outcome, Result
  <2> HIDE DEF e, r
  <2>4. /\ results' \in Seq(Result) /\ DOMAIN results' = 1..(Len(results) + 1)
        /\ results'[Len(results) + 1] = r
        /\ \A i \in DOMAIN results :
               i \in DOMAIN results' /\ results'[i] = results[i]
    BY <2>1, <2>3, AnswersAppend DEF IInv
  <2>5. tasks' \in Seq(Task)
    BY <2>1, <2>2, WaitingAppend DEF IInv
  <2>6. TypeOK'
    BY <1>1, <2>1, <2>4, <2>5 DEF IInv, TypeOK, Task, Result
  <2>7. /\ \A m \in Call : Waiting(m)' = Waiting(m)
        /\ DOMAIN tasks \subseteq DOMAIN tasks'
        /\ \A i \in DOMAIN tasks' : Unhooks(i)'
    <3>1. n \notin nascent' /\ Waiting(n) = {} /\ session'[n] # "none"
      BY <1>2, <1>3, <1>5, <2>1 DEF OnlyNascent
    <3> QED
      BY <1>2, <2>1, <2>2, <2>6, <3>1, PostInv
  <2>8. InOnePlace(n)' /\ Fits(n)'
    <3>1. Answers(n)' = {} \cup {Len(results) + 1}
      BY <1>3, <1>5, <2>1, <2>3, AnswersAppend DEF IInv, OnlyNascent
    <3>2. Len(results) + 1 \in DOMAIN results'
      BY <2>4, Types DEF IInv
    <3>3. OnlyAnswered(n)'
      BY <1>3, <1>5, <2>1, <2>7, <3>1, <3>2 DEF OnlyAnswered, OnlyNascent
    <3> QED
      BY <1>1, <1>3, <3>1, <3>3
         DEF InOnePlace, Fits, Nowhere, OnlyPosted, OnlyAnswered
  <2>9. ASSUME NEW m \in Call \ {n} PROVE InOnePlace(m)' /\ Fits(m)'
    <3>1. Answers(m)' = Answers(m) \cup {}
      BY <2>1, <2>3, AnswersAppend DEF IInv
    <3>2. Waiting(m) \subseteq DOMAIN tasks /\ Answers(m) \subseteq DOMAIN results
      BY DEF Waiting, Answers
    <3>3. /\ Nowhere(m)' <=> Nowhere(m)
          /\ OnlyPosted(m)' <=> OnlyPosted(m)
          /\ OnlyNascent(m)' <=> OnlyNascent(m)
          /\ OnlyAnswered(m)' <=> OnlyAnswered(m)
      BY <2>1, <2>4, <2>7, <3>1, <3>2
         DEF Nowhere, OnlyPosted, OnlyNascent, OnlyAnswered
    <3> QED
      BY <1>1, <1>2, <2>1, <3>3 DEF IInv, InOnePlace, Fits
  <2>10. VerdictIsTrue'
    <3>1. \A i \in DOMAIN results : results[i].op \in Call \ {n}
      BY <1>3, <1>5, Types DEF IInv, OnlyNascent, Answers, Result
    <3>2. \A i \in DOMAIN results' : i \notin DOMAIN results => results'[i] = r
      BY <2>4, Types DEF IInv
    <3> QED
      BY <1>2, <2>1, <2>3, <2>4, <3>1, <3>2 DEF IInv, VerdictIsTrue
  <2> QED
    BY <2>6, <2>7, <2>8, <2>9, <2>10 DEF IInv
<1>6. CASE n \notin nascent
  <2>1. /\ nascent' = nascent /\ tasks' = tasks
        /\ attached' = attached /\ results' = results
    BY <1>6 DEF HandshakeEnds
  <2>2. TypeOK'
    BY <1>1, <2>1 DEF IInv, TypeOK
  <2>3. ASSUME NEW m \in Call PROVE InOnePlace(m)' /\ Fits(m)'
    <3>1. Waiting(m)' = Waiting(m) /\ Answers(m)' = Answers(m)
      BY <2>1 DEF Waiting, Answers
    <3>2. /\ Nowhere(m)' <=> Nowhere(m)
          /\ OnlyPosted(m)' <=> OnlyPosted(m)
          /\ OnlyNascent(m)' <=> OnlyNascent(m)
          /\ OnlyAnswered(m)' <=> OnlyAnswered(m)
      BY <2>1, <3>1 DEF Nowhere, OnlyPosted, OnlyNascent, OnlyAnswered
    <3>3. CASE m = n
      BY <1>1, <1>3, <1>6, <2>1, <3>2, <3>3
         DEF IInv, InOnePlace, Fits, OnlyAnswered, Nowhere, OnlyPosted
    <3>4. CASE m # n
      BY <1>1, <1>2, <2>1, <3>2, <3>4 DEF IInv, InOnePlace, Fits
    <3> QED
      BY <3>3, <3>4
  <2>4. \A i \in DOMAIN tasks' : Unhooks(i)'
    BY <1>2, <2>1, Types DEF IInv, Unhooks, Waiting
  <2>5. VerdictIsTrue'
    BY <1>2, <1>4, <2>1, Types DEF IInv, VerdictIsTrue, Result
  <2> QED
    BY <2>2, <2>3, <2>4, <2>5 DEF IInv
<1> QED
  BY <1>5, <1>6

LEMMA StutterInv == ASSUME IInv, UNCHANGED vars PROVE IInv'
<1>1. \A n \in Call : Waiting(n)' = Waiting(n) /\ Answers(n)' = Answers(n)
  BY DEF vars, counts, Waiting, Answers
<1>2. TypeOK' /\ VerdictIsTrue'
  BY DEF vars, counts, IInv, TypeOK, VerdictIsTrue
<1>3. \A n \in Call : InOnePlace(n)' /\ Fits(n)'
  BY <1>1 DEF vars, counts, IInv, InOnePlace, Fits, Nowhere, OnlyPosted,
              OnlyNascent, OnlyAnswered
<1>4. \A i \in DOMAIN tasks' : Unhooks(i)'
  BY <1>1, Types DEF vars, IInv, Unhooks
<1> QED
  BY <1>2, <1>3, <1>4 DEF IInv
-----------------------------------------------------------------------------
(* The inductive invariant: every call is in one place, and websocketpp's    *)
(* connection stands as it should for that place.                            *)
THEOREM Invariant == Spec => []IInv
<1>1. ASSUME IInv, [Next]_vars PROVE IInv'
  BY <1>1, AsyncConnectInv, CloseInv, RunConnectInv, RunCloseInv, RunUnhookInv,
     HandshakeEndsInv, StutterInv DEF Next, RunTask
<1> QED
  BY <1>1, InitInv, PTL DEF Spec

(* EachConnectOnce: each call is posted, nascent or completed, once. *)
THEOREM ConnectedOnce == Spec => []EachConnectOnce
<1>1. ASSUME IInv, NEW n \in Call
      PROVE  Cardinality(Waiting(n)) + Cardinality(nascent \cap {n})
                 + Cardinality(Answers(n)) = IF n <= connects THEN 1 ELSE 0
  <2>1. Cardinality({}) = 0 /\ \A x : Cardinality({x}) = 1
    BY FS_EmptySet, FS_Singleton
  <2>2. n \in Nat /\ connects \in Nat
    BY <1>1, Types DEF IInv
  <2>3. /\ n \in nascent => nascent \cap {n} = {n}
        /\ n \notin nascent => nascent \cap {n} = {}
    OBVIOUS
  <2>4. CASE n > connects
    BY <1>1, <2>1, <2>2, <2>3, <2>4 DEF IInv, InOnePlace, Nowhere
  <2>5. CASE n <= connects
    <3>1. OnlyPosted(n) \/ OnlyNascent(n) \/ OnlyAnswered(n)
      BY <1>1, <2>5 DEF IInv, InOnePlace
    <3>2. CASE OnlyPosted(n)
      <4>1. Cardinality(Waiting(n)) = 1
        BY <2>1, <3>2 DEF OnlyPosted
      <4>2. Answers(n) = {} /\ nascent \cap {n} = {}
        BY <2>3, <3>2 DEF OnlyPosted
      <4> QED
        BY <2>1, <2>5, <4>1, <4>2
    <3>3. CASE OnlyNascent(n)
      <4>1. nascent \cap {n} = {n}
        BY <2>3, <3>3 DEF OnlyNascent
      <4>2. Waiting(n) = {} /\ Answers(n) = {}
        BY <3>3 DEF OnlyNascent
      <4>3. Cardinality(nascent \cap {n}) = 1
        BY <2>1, <4>1
      <4> QED
        BY <2>1, <2>5, <4>2, <4>3
    <3>4. CASE OnlyAnswered(n)
      <4>1. Cardinality(Answers(n)) = 1
        BY <2>1, <3>4 DEF OnlyAnswered
      <4>2. Waiting(n) = {} /\ nascent \cap {n} = {}
        BY <2>3, <3>4 DEF OnlyAnswered
      <4> QED
        BY <2>1, <2>5, <4>1, <4>2
    <3> QED
      BY <3>1, <3>2, <3>3, <3>4
  <2> QED
    BY <2>2, <2>4, <2>5
<1>2. IInv => EachConnectOnce
  BY <1>1 DEF EachConnectOnce
<1> QED
  BY <1>2, Invariant, PTL

(* VerdictIsTrue: a handler is told what became of its connection. *)
THEOREM TruthfulVerdicts == Spec => []VerdictIsTrue
<1>1. IInv => VerdictIsTrue
  BY DEF IInv
<1> QED
  BY <1>1, Invariant, PTL
=============================================================================
