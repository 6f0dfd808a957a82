--------------------------- MODULE AcceptorProofs ---------------------------
(* Theorems about ws::Acceptor for any connections and any number of accepts *)
(* and closes.                                                               *)
EXTENDS Acceptor, SequenceTheorems, TLAPS

(* The lemmas about sequences of numbers in MessageQueueProofs, which none of*)
(* its constants and variables occur in.                                     *)
N == INSTANCE MessageQueueProofs
     WITH MsgSizes <- {1}, BufSize <- 1, MaxReceives <- 1, MaxOutstanding <- 1,
          MaxSends <- 1, MaxMessages <- 1, MaxCloses <- 1, conn <- "open",
          transportEc <- FALSE, mPtr <- FALSE, waiting <- <<>>, data <- <<>>,
          tasks <- <<>>, owner <- TRUE, issued <- 0, sends <- 0, closes <- 0,
          results <- <<>>, sent <- <<>>, arrived <- <<>>, unheard <- FALSE

Below(A, B) == \A a \in A, b \in B : a < b

(* u holds the numbers of s and then those of t. *)
Joined(u, s, t) ==
    /\ Numbers(u) = Numbers(s) \union Numbers(t)
    /\ Once(u) <=> Once(s) /\ Once(t) /\ Numbers(s) \cap Numbers(t) = {}
    /\ InOrder(u) <=> InOrder(s) /\ InOrder(t) /\ Below(Numbers(s), Numbers(t))

Alike(u, s) ==
    Numbers(u) = Numbers(s) /\ (Once(u) <=> Once(s)) /\ (InOrder(u) <=> InOrder(s))

(* A sequence seen through a numbering of its elements. *)
Through(f, s) == [i \in DOMAIN s |-> f[s[i]]]

LEMMA SameNotions ==
    /\ \A s : Numbers(s) = N!Numbers(s)
    /\ \A s : (Once(s) <=> N!Once(s)) /\ (InOrder(s) <=> N!InOrder(s))
    /\ \A u, s, t : Joined(u, s, t) <=> N!Joined(u, s, t)
    /\ \A u, s : Alike(u, s) <=> N!Alike(u, s)
    /\ \A f, s : Through(f, s) = N!Through(f, s)
<1>1. \A s : Numbers(s) = N!Numbers(s)
  BY DEF Numbers, N!Numbers, ToSet, N!ToSet
<1>2. \A s : (Once(s) <=> N!Once(s)) /\ (InOrder(s) <=> N!InOrder(s))
  BY DEF Once, N!Once, InOrder, N!InOrder
<1>3. \A A, B : Below(A, B) <=> N!Below(A, B)
  BY DEF Below, N!Below
<1> QED
  BY <1>1, <1>2, <1>3
     DEF Joined, N!Joined, Alike, N!Alike, Through, N!Through

LEMMA ConcatNumbers ==
    ASSUME NEW s \in Seq(Nat), NEW t \in Seq(Nat)
    PROVE  s \o t \in Seq(Nat) /\ Joined(s \o t, s, t)
BY N!ConcatNumbers, SameNotions

LEMMA SingleNumber ==
    ASSUME NEW n \in Nat
    PROVE  /\ <<n>> \in Seq(Nat)
           /\ Numbers(<<n>>) = {n} \ {0}
           /\ Once(<<n>>) /\ InOrder(<<n>>)
BY N!SingleNumber, SameNotions

LEMMA NoNumber ==
    /\ <<>> \in Seq(Nat) /\ Numbers(<<>>) = {}
    /\ Once(<<>>) /\ InOrder(<<>>)
BY N!NoNumber, SameNotions

LEMMA JoinedNothing ==
    \A u, s : Joined(u, s, <<0>>) \/ Joined(u, <<0>>, s) => Alike(u, s)
BY N!JoinedNothing, SameNotions

LEMMA ThroughConcat ==
    ASSUME NEW S, NEW f \in [S -> Nat], NEW s \in Seq(S), NEW t \in Seq(S)
    PROVE  Joined(Through(f, s \o t), Through(f, s), Through(f, t))
BY N!ThroughConcat, SameNotions

LEMMA ThroughAppend ==
    ASSUME NEW S, NEW f \in [S -> Nat], NEW s \in Seq(S), NEW x \in S
    PROVE  Joined(Through(f, Append(s, x)), Through(f, s), <<f[x]>>)
BY N!ThroughAppend, SameNotions

LEMMA ThroughTail ==
    ASSUME NEW S, NEW f \in [S -> Nat], NEW s \in Seq(S), s # <<>>
    PROVE  Joined(Through(f, s), <<f[Head(s)]>>, Through(f, Tail(s)))
BY N!ThroughTail, SameNotions

-----------------------------------------------------------------------------
(* The model's sequences and what is seen of them.                           *)
Answer == [op : Accept, ec : Verdict]
Datum == [ec : {"ok", "transport"}, con : Connections]
Posting == [kind : {"produce"}, con : Connections]
Calling == [kind : {"handler"}, op : Accept, ec : Verdict]
Task == Posting \union Calling

HandlerOf == [x \in Task |-> IF x.kind = "handler" THEN x.op ELSE 0]
ProduceOf(g) == [x \in Task |-> IF x.kind = "produce" THEN g[x.con] ELSE 0]
OpOf == [x \in Answer |-> x.op]
NumberOf(g) == [x \in Datum |-> g[x.con]]

(* The numbers as they were, of sequences as they will be.                   *)
ProducesBy(g, s) ==
    [i \in DOMAIN s |-> IF s[i].kind = "produce" THEN g[s[i].con] ELSE 0]
QueuedBy(g, s) == [i \in DOMAIN s |-> g[s[i].con]]

LEMMA Bounds ==
    /\ MaxAccepts \in Nat /\ MaxCloses \in Nat /\ None \notin Connections
    /\ Accept \subseteq Nat \ {0}
BY BoundAssumption, ConnectionAssumption DEF None, Accept

LEMMA TaskKinds ==
    ASSUME NEW x \in Task
    PROVE  \/ x.kind = "produce" /\ x.con \in Connections /\ x \in Posting
           \/ /\ x.kind = "handler" /\ x.op \in Accept /\ x.ec \in Verdict
              /\ x \in Calling
BY DEF Task, Posting, Calling

LEMMA Views ==
    ASSUME NEW g \in [Connections -> Nat]
    PROVE  /\ HandlerOf \in [Task -> Nat] /\ ProduceOf(g) \in [Task -> Nat]
           /\ OpOf \in [Answer -> Nat] /\ NumberOf(g) \in [Datum -> Nat]
           /\ \A s \in Seq(Task) : /\ Handlers(s) = Through(HandlerOf, s)
                                   /\ ProducesBy(g, s) = Through(ProduceOf(g), s)
           /\ \A s \in Seq(Answer) : Ops(s) = Through(OpOf, s)
           /\ \A s \in Seq(Datum) : QueuedBy(g, s) = Through(NumberOf(g), s)
<1>1. /\ \A x \in Task : /\ (IF x.kind = "handler" THEN x.op ELSE 0) \in Nat
                         /\ (IF x.kind = "produce" THEN g[x.con] ELSE 0) \in Nat
      /\ \A x \in Answer : x.op \in Nat
      /\ \A x \in Datum : g[x.con] \in Nat
  BY TaskKinds, Bounds DEF Answer, Datum
<1>2. /\ HandlerOf \in [Task -> Nat] /\ ProduceOf(g) \in [Task -> Nat]
      /\ OpOf \in [Answer -> Nat] /\ NumberOf(g) \in [Datum -> Nat]
  BY <1>1 DEF HandlerOf, ProduceOf, OpOf, NumberOf
<1>3. ASSUME NEW s \in Seq(Task)
      PROVE  /\ Handlers(s) = Through(HandlerOf, s)
             /\ ProducesBy(g, s) = Through(ProduceOf(g), s)
  <2>1. \A i \in DOMAIN s : s[i] \in Task
    OBVIOUS
  <2> QED
    BY <2>1 DEF Handlers, ProducesBy, Through, HandlerOf, ProduceOf
<1>4. ASSUME NEW s \in Seq(Answer) PROVE Ops(s) = Through(OpOf, s)
  <2>1. \A i \in DOMAIN s : s[i] \in Answer
    OBVIOUS
  <2> QED
    BY <2>1 DEF Ops, Through, OpOf
<1>5. ASSUME NEW s \in Seq(Datum) PROVE QueuedBy(g, s) = Through(NumberOf(g), s)
  <2>1. \A i \in DOMAIN s : s[i] \in Datum
    OBVIOUS
  <2> QED
    BY <2>1 DEF QueuedBy, Through, NumberOf
<1> QED
  BY <1>2, <1>3, <1>4, <1>5

LEMMA ToSetConcat ==
    ASSUME NEW S, NEW s \in Seq(S), NEW t \in Seq(S)
    PROVE  s \o t \in Seq(S) /\ ToSet(s \o t) = ToSet(s) \union ToSet(t)
<1> DEFINE u == s \o t
<1>1. /\ u \in Seq(S) /\ Len(u) = Len(s) + Len(t)
      /\ \A i \in 1..(Len(s) + Len(t)) :
            u[i] = IF i <= Len(s) THEN s[i] ELSE t[i - Len(s)]
  BY ConcatProperties
<1>2. /\ DOMAIN s = 1..Len(s) /\ Len(s) \in Nat
      /\ DOMAIN t = 1..Len(t) /\ Len(t) \in Nat
      /\ DOMAIN u = 1..(Len(s) + Len(t))
  BY <1>1, LenProperties
<1> HIDE DEF u
<1>3. ASSUME NEW i \in DOMAIN s PROVE s[i] \in ToSet(u)
  <2>1. i \in DOMAIN u /\ u[i] = s[i]
    BY <1>1, <1>2
  <2> QED
    BY <2>1 DEF ToSet
<1>4. ASSUME NEW i \in DOMAIN t PROVE t[i] \in ToSet(u)
  <2>1. /\ i + Len(s) \in 1..(Len(s) + Len(t)) /\ ~(i + Len(s) <= Len(s))
        /\ (i + Len(s)) - Len(s) = i
    BY <1>2
  <2>2. i + Len(s) \in DOMAIN u /\ u[i + Len(s)] = t[i]
    BY <1>1, <1>2, <2>1
  <2> QED
    BY <2>2 DEF ToSet
<1>5. ASSUME NEW i \in DOMAIN u PROVE u[i] \in ToSet(s) \union ToSet(t)
  <2>1. CASE i <= Len(s)
    BY <1>1, <1>2, <2>1 DEF ToSet
  <2>2. CASE ~(i <= Len(s))
    <3>1. i - Len(s) \in DOMAIN t /\ u[i] = t[i - Len(s)]
      BY <1>1, <1>2, <2>2
    <3> QED
      BY <3>1 DEF ToSet
  <2> QED
    BY <2>1, <2>2
<1>6. ToSet(u) = ToSet(s) \union ToSet(t)
  BY <1>3, <1>4, <1>5 DEF ToSet
<1> QED
  BY <1>1, <1>6 DEF u

LEMMA ToSets ==
    ASSUME NEW S, NEW s \in Seq(S)
    PROVE  /\ ToSet(s) \subseteq S
           /\ \A x \in S : /\ Append(s, x) \in Seq(S)
                           /\ ToSet(Append(s, x)) = ToSet(s) \union {x}
           /\ \A t \in Seq(S) : /\ s \o t \in Seq(S)
                                /\ ToSet(s \o t) = ToSet(s) \union ToSet(t)
           /\ s # <<>> => /\ Head(s) \in S /\ Tail(s) \in Seq(S)
                          /\ ToSet(s) = {Head(s)} \union ToSet(Tail(s))
<1>2. ASSUME NEW x \in S
      PROVE  Append(s, x) \in Seq(S) /\ ToSet(Append(s, x)) = ToSet(s) \union {x}
  <2>1. <<x>> \in Seq(S) /\ ToSet(<<x>>) = {x}
    BY DEF ToSet
  <2>2. Append(s, x) = s \o <<x>>
    BY AppendIsConcat
  <2>3. /\ s \o <<x>> \in Seq(S)
        /\ ToSet(s \o <<x>>) = ToSet(s) \union ToSet(<<x>>)
    BY <2>1, ToSetConcat
  <2> QED
    BY <2>1, <2>2, <2>3, Zenon
<1>3. ASSUME s # <<>>
      PROVE  /\ Head(s) \in S /\ Tail(s) \in Seq(S)
             /\ ToSet(s) = {Head(s)} \union ToSet(Tail(s))
  <2>1. Head(s) \in S /\ Tail(s) \in Seq(S) /\ s = <<Head(s)>> \o Tail(s)
    BY <1>3, HeadTailProperties
  <2>2. ToSet(<<Head(s)>> \o Tail(s)) = ToSet(<<Head(s)>>) \union ToSet(Tail(s))
    <3>1. <<Head(s)>> \in Seq(S)
      BY <2>1
    <3> QED
      BY <2>1, <3>1, ToSetConcat
  <2>3. ToSet(<<Head(s)>>) = {Head(s)}
    BY DEF ToSet
  <2> QED
    BY <2>1, <2>2, <2>3, Zenon
<1>4. ToSet(s) \subseteq S
  BY DEF ToSet
<1> QED
  BY <1>2, <1>3, <1>4, ToSetConcat

LEMMA TaskSteps ==
    ASSUME NEW g \in [Connections -> Nat], NEW s \in Seq(Task)
    PROVE  /\ \A x \in Task :
                 /\ Joined(Handlers(Append(s, x)), Handlers(s), <<HandlerOf[x]>>)
                 /\ Joined(ProducesBy(g, Append(s, x)), ProducesBy(g, s),
                           <<ProduceOf(g)[x]>>)
           /\ s # <<>> =>
                 /\ Joined(Handlers(s), <<HandlerOf[Head(s)]>>, Handlers(Tail(s)))
                 /\ Joined(ProducesBy(g, s), <<ProduceOf(g)[Head(s)]>>,
                           ProducesBy(g, Tail(s)))
           /\ \A t \in Seq(Task) :
                 /\ Joined(Handlers(s \o t), Handlers(s), Handlers(t))
                 /\ Joined(ProducesBy(g, s \o t), ProducesBy(g, s), ProducesBy(g, t))
<1>1. ASSUME NEW f \in [Task -> Nat]
      PROVE  /\ \A x \in Task :
                   Joined(Through(f, Append(s, x)), Through(f, s), <<f[x]>>)
             /\ s # <<>> =>
                   Joined(Through(f, s), <<f[Head(s)]>>, Through(f, Tail(s)))
             /\ \A t \in Seq(Task) :
                   Joined(Through(f, s \o t), Through(f, s), Through(f, t))
  BY ThroughAppend, ThroughTail, ThroughConcat
<1>2. /\ \A x \in Task : Append(s, x) \in Seq(Task)
      /\ s # <<>> => Tail(s) \in Seq(Task)
      /\ \A t \in Seq(Task) : s \o t \in Seq(Task)
  BY ToSets
<1>3. /\ HandlerOf \in [Task -> Nat] /\ ProduceOf(g) \in [Task -> Nat]
      /\ \A q \in Seq(Task) : /\ Handlers(q) = Through(HandlerOf, q)
                              /\ ProducesBy(g, q) = Through(ProduceOf(g), q)
  BY Views
<1>4. ASSUME NEW x \in Task
      PROVE  /\ Joined(Handlers(Append(s, x)), Handlers(s), <<HandlerOf[x]>>)
             /\ Joined(ProducesBy(g, Append(s, x)), ProducesBy(g, s),
                       <<ProduceOf(g)[x]>>)
  BY <1>1, <1>2, <1>3
<1>5. ASSUME s # <<>>
      PROVE  /\ Joined(Handlers(s), <<HandlerOf[Head(s)]>>, Handlers(Tail(s)))
             /\ Joined(ProducesBy(g, s), <<ProduceOf(g)[Head(s)]>>,
                       ProducesBy(g, Tail(s)))
  BY <1>1, <1>2, <1>3, <1>5
<1>6. ASSUME NEW t \in Seq(Task)
      PROVE  /\ Joined(Handlers(s \o t), Handlers(s), Handlers(t))
             /\ Joined(ProducesBy(g, s \o t), ProducesBy(g, s), ProducesBy(g, t))
  BY <1>1, <1>2, <1>3
<1> QED
  BY <1>4, <1>5, <1>6

LEMMA TaskValues ==
    ASSUME NEW g \in [Connections -> Nat], NEW x \in Task
    PROVE  /\ x.kind = "handler" => /\ HandlerOf[x] = x.op /\ ProduceOf(g)[x] = 0
                                    /\ x.op \in Accept /\ x.ec \in Verdict
           /\ x.kind = "produce" => /\ HandlerOf[x] = 0 /\ ProduceOf(g)[x] = g[x.con]
                                    /\ x.con \in Connections
           /\ x.kind = "handler" \/ x.kind = "produce"
BY TaskKinds DEF HandlerOf, ProduceOf

LEMMA AnswerSteps ==
    ASSUME NEW s \in Seq(Answer)
    PROVE  /\ \A x \in Answer : Joined(Ops(Append(s, x)), Ops(s), <<x.op>>)
           /\ \A t \in Seq(Answer) : Joined(Ops(s \o t), Ops(s), Ops(t))
<1>1. /\ OpOf \in [Answer -> Nat]
      /\ \A q \in Seq(Answer) : Ops(q) = Through(OpOf, q)
  <2>1. [c \in Connections |-> 0] \in [Connections -> Nat]
    OBVIOUS
  <2> QED
    BY <2>1, Views
<1>2. ASSUME NEW x \in Answer PROVE Joined(Ops(Append(s, x)), Ops(s), <<x.op>>)
  <2>1. Joined(Through(OpOf, Append(s, x)), Through(OpOf, s), <<OpOf[x]>>)
    BY <1>1, ThroughAppend
  <2>2. OpOf[x] = x.op /\ Append(s, x) \in Seq(Answer)
    BY ToSets DEF OpOf
  <2> QED
    BY <1>1, <2>1, <2>2, Zenon
<1>3. ASSUME NEW t \in Seq(Answer) PROVE Joined(Ops(s \o t), Ops(s), Ops(t))
  <2>1. Joined(Through(OpOf, s \o t), Through(OpOf, s), Through(OpOf, t))
    BY <1>1, ThroughConcat
  <2>2. s \o t \in Seq(Answer)
    BY ToSetConcat
  <2> QED
    BY <1>1, <2>1, <2>2, Zenon
<1> QED
  BY <1>2, <1>3

LEMMA DatumSteps ==
    ASSUME NEW g \in [Connections -> Nat], NEW s \in Seq(Datum)
    PROVE  /\ \A d \in Datum :
                 Joined(QueuedBy(g, Append(s, d)), QueuedBy(g, s), <<g[d.con]>>)
           /\ s # <<>> => Joined(QueuedBy(g, s), <<g[Head(s).con]>>,
                                 QueuedBy(g, Tail(s)))
<1>1. /\ NumberOf(g) \in [Datum -> Nat]
      /\ \A q \in Seq(Datum) : QueuedBy(g, q) = Through(NumberOf(g), q)
      /\ \A d \in Datum : NumberOf(g)[d] = g[d.con]
  BY Views DEF NumberOf
<1>2. ASSUME NEW d \in Datum
      PROVE  Joined(QueuedBy(g, Append(s, d)), QueuedBy(g, s), <<g[d.con]>>)
  <2>1. Joined(Through(NumberOf(g), Append(s, d)), Through(NumberOf(g), s),
               <<NumberOf(g)[d]>>)
    BY <1>1, ThroughAppend
  <2>2. Append(s, d) \in Seq(Datum)
    BY ToSets
  <2> QED
    BY <1>1, <2>1, <2>2, Zenon
<1>3. ASSUME s # <<>>
      PROVE  Joined(QueuedBy(g, s), <<g[Head(s).con]>>, QueuedBy(g, Tail(s)))
  <2>1. Joined(Through(NumberOf(g), s), <<NumberOf(g)[Head(s)]>>,
               Through(NumberOf(g), Tail(s)))
    BY <1>1, <1>3, ThroughTail
  <2>2. Head(s) \in Datum /\ Tail(s) \in Seq(Datum)
    BY <1>3, ToSets
  <2> QED
    BY <1>1, <2>1, <2>2, Zenon
<1> QED
  BY <1>2, <1>3

LEMMA AcceptSteps ==
    ASSUME NEW s \in Seq(Accept)
    PROVE  /\ s \in Seq(Nat) /\ Numbers(s) = ToSet(s)
           /\ \A n \in Accept : Joined(Append(s, n), s, <<n>>)
           /\ s # <<>> => Joined(s, <<Head(s)>>, Tail(s))
<1>1. ASSUME NEW q \in Seq(Accept) PROVE q \in Seq(Nat)
  <2>1. Accept \subseteq Nat
    BY Bounds
  <2> QED
    BY <2>1, SeqMonotonic
<1>2. Numbers(s) = ToSet(s)
  BY Bounds DEF Numbers, ToSet
<1>3. ASSUME NEW n \in Accept PROVE Joined(Append(s, n), s, <<n>>)
  <2>1. Append(s, n) = s \o <<n>> /\ <<n>> \in Seq(Accept)
    BY AppendIsConcat
  <2>2. Joined(s \o <<n>>, s, <<n>>)
    BY <1>1, <2>1, ConcatNumbers
  <2> QED
    BY <2>1, <2>2, Zenon
<1>4. ASSUME s # <<>> PROVE Joined(s, <<Head(s)>>, Tail(s))
  <2>1. /\ Head(s) \in Accept /\ Tail(s) \in Seq(Accept)
        /\ s = <<Head(s)>> \o Tail(s)
    BY <1>4, HeadTailProperties
  <2>2. <<Head(s)>> \in Seq(Accept)
    BY <2>1
  <2>3. Joined(<<Head(s)>> \o Tail(s), <<Head(s)>>, Tail(s))
    BY <1>1, <2>1, <2>2, ConcatNumbers
  <2> QED
    BY <2>1, <2>3, Zenon
<1> QED
  BY <1>1, <1>2, <1>3, <1>4

(* What the queues hold, by number and as sets.                              *)
Handling(s) == {t \in ToSet(s) : t.kind = "handler"}
Producing(s) == {t.con : t \in {u \in ToSet(s) : u.kind = "produce"}}

(* The answers accepts have been given, in completions and in posted ones.   *)
Answers(res, tsk) ==
    ToSet(res) \union {[op |-> t.op, ec |-> t.ec] : t \in Handling(tsk)}

LEMMA AnswerNumbers ==
    ASSUME NEW r \in Seq(Answer), NEW s \in Seq(Task)
    PROVE  /\ Answers(r, s) \subseteq Answer
           /\ Numbers(Ops(r)) \union Numbers(Handlers(s)) =
                 {x.op : x \in Answers(r, s)}
<1>1. /\ \A i \in DOMAIN r : r[i] \in Answer /\ r[i].op \in Nat \ {0}
      /\ ToSet(r) = {r[i] : i \in DOMAIN r}
  <2>1. \A i \in DOMAIN r : r[i] \in Answer
    OBVIOUS
  <2>2. \A x \in Answer : x.op \in Nat \ {0}
    BY Bounds DEF Answer
  <2> QED
    BY <2>1, <2>2 DEF ToSet
<1>2. Numbers(Ops(r)) = {x.op : x \in ToSet(r)}
  BY <1>1 DEF Numbers, ToSet, Ops
<1>3. /\ \A i \in DOMAIN s : s[i] \in Task
      /\ ToSet(s) = {s[i] : i \in DOMAIN s}
  BY DEF ToSet
<1>4. \A t \in Handling(s) : t \in Task /\ t.op \in Accept /\ t.ec \in Verdict
                             /\ t.op \in Nat \ {0}
  BY <1>3, TaskKinds, Bounds DEF Handling
<1>5. Numbers(Handlers(s)) = {t.op : t \in Handling(s)}
  <2>1. ToSet(Handlers(s)) =
           {IF s[i].kind = "handler" THEN s[i].op ELSE 0 : i \in DOMAIN s}
    BY DEF ToSet, Handlers
  <2>2. ASSUME NEW n \in Numbers(Handlers(s)) PROVE n \in {t.op : t \in Handling(s)}
    BY <1>3, <2>1 DEF Numbers, Handling
  <2>3. ASSUME NEW t \in Handling(s) PROVE t.op \in Numbers(Handlers(s))
    BY <1>3, <1>4, <2>1 DEF Numbers, Handling
  <2> QED
    BY <2>2, <2>3
<1>6. Answers(r, s) \subseteq Answer
  BY <1>1, <1>4 DEF Answers, Answer
<1>7. {x.op : x \in Answers(r, s)}
         = {x.op : x \in ToSet(r)} \union {t.op : t \in Handling(s)}
  <2> DEFINE posted == {[op |-> t.op, ec |-> t.ec] : t \in Handling(s)}
  <2>1. {x.op : x \in posted} = {t.op : t \in Handling(s)}
    <3>1. ASSUME NEW x \in posted PROVE x.op \in {t.op : t \in Handling(s)}
      <4>1. PICK t \in Handling(s) : x = [op |-> t.op, ec |-> t.ec]
        OBVIOUS
      <4>2. x.op = t.op
        BY <4>1
      <4> QED
        BY <4>2
    <3>2. ASSUME NEW t \in Handling(s) PROVE \E x \in posted : x.op = t.op
      <4>1. [op |-> t.op, ec |-> t.ec] \in posted
        OBVIOUS
      <4> QED
        BY <4>1
    <3> QED
      BY <3>1, <3>2
  <2>2. Answers(r, s) = ToSet(r) \union posted
    BY DEF Answers
  <2> HIDE DEF posted
  <2> QED
    BY <2>1, <2>2
<1> QED
  BY <1>2, <1>5, <1>6, <1>7

(* An operation's answers join those given before: its handlers are called,  *)
(* or posted.                                                                *)
Answered(res, tsk, list) ==
    \/ /\ Alike(Handlers(tasks'), Handlers(tsk))
       /\ Joined(Ops(results'), Ops(res), Ops(list))
    \/ /\ Alike(Ops(results'), Ops(res))
       /\ Joined(Handlers(tasks'), Handlers(tsk), Ops(list))

LEMMA FinishEffect ==
    ASSUME NEW g \in [Connections -> Nat], NEW list \in Seq(Answer),
           NEW here \in BOOLEAN, NEW res \in Seq(Answer), NEW tsk \in Seq(Task),
           Finish(list, here, res, tsk)
    PROVE  /\ results' \in Seq(Answer) /\ tasks' \in Seq(Task)
           /\ Answered(res, tsk, list)
           /\ Answers(results', tasks') = Answers(res, tsk) \union ToSet(list)
           /\ Producing(tasks') = Producing(tsk)
           /\ Alike(ProducesBy(g, tasks'), ProducesBy(g, tsk))
<1>1. CASE results' = res \o list /\ tasks' = tsk
  <2>1. /\ res \o list \in Seq(Answer)
        /\ ToSet(res \o list) = ToSet(res) \union ToSet(list)
        /\ Joined(Ops(res \o list), Ops(res), Ops(list))
    BY AnswerSteps, ToSetConcat
  <2>2. \A s : Alike(s, s)
    BY DEF Alike
  <2> QED
    BY <1>1, <2>1, <2>2 DEF Answered, Answers, Producing
<1>2. CASE /\ results' = res
           /\ tasks' = tsk \o [i \in DOMAIN list |->
                  [kind |-> "handler", op |-> list[i].op, ec |-> list[i].ec]]
  <2> DEFINE more == [i \in DOMAIN list |->
                  [kind |-> "handler", op |-> list[i].op, ec |-> list[i].ec]]
  <2>1. /\ DOMAIN list = 1..Len(list) /\ Len(list) \in Nat
        /\ \A i \in DOMAIN list : list[i] \in Answer
    BY LenProperties
  <2>2. \A i \in DOMAIN list :
           /\ more[i] \in Task /\ more[i].kind = "handler"
           /\ more[i].op = list[i].op /\ more[i].ec = list[i].ec
    BY <2>1 DEF Answer, Task, Calling
  <2>3. DOMAIN more = DOMAIN list /\ more \in Seq(Task)
    BY <2>1, <2>2
  <2> HIDE DEF more
  <2>4. Handlers(more) = Ops(list)
    BY <2>2, <2>3 DEF Handlers, Ops
  <2>5. /\ Numbers(ProducesBy(g, more)) = {} /\ Once(ProducesBy(g, more))
        /\ InOrder(ProducesBy(g, more)) /\ Producing(more) = {}
    <3>1. /\ DOMAIN ProducesBy(g, more) = DOMAIN list
          /\ \A i \in DOMAIN list : ProducesBy(g, more)[i] = 0
      BY <2>2, <2>3 DEF ProducesBy
    <3>2. \A t \in ToSet(more) : t.kind = "handler"
      BY <2>2, <2>3 DEF ToSet
    <3> QED
      BY <3>1, <3>2 DEF Numbers, Once, InOrder, ToSet, Producing
  <2>6. {[op |-> t.op, ec |-> t.ec] : t \in Handling(more)} = ToSet(list)
    <3>1. /\ ToSet(more) = {more[i] : i \in DOMAIN list}
          /\ ToSet(list) = {list[i] : i \in DOMAIN list}
      BY <2>3 DEF ToSet
    <3>2. \A i \in DOMAIN list :
             list[i] = [op |-> more[i].op, ec |-> more[i].ec]
      BY <2>1, <2>2 DEF Answer
    <3>3. Handling(more) = ToSet(more)
      BY <2>2, <3>1 DEF Handling
    <3>4. {[op |-> t.op, ec |-> t.ec] : t \in Handling(more)}
             = {[op |-> more[i].op, ec |-> more[i].ec] : i \in DOMAIN list}
      BY <3>1, <3>3
    <3>5. {[op |-> more[i].op, ec |-> more[i].ec] : i \in DOMAIN list}
             = {list[i] : i \in DOMAIN list}
      BY <3>2, Zenon
    <3> QED
      BY <3>1, <3>4, <3>5
  <2>7. /\ tasks' \in Seq(Task) /\ ToSet(tasks') = ToSet(tsk) \union ToSet(more)
        /\ Joined(Handlers(tasks'), Handlers(tsk), Handlers(more))
        /\ Joined(ProducesBy(g, tasks'), ProducesBy(g, tsk), ProducesBy(g, more))
    <3>1. tasks' = tsk \o more
      BY <1>2 DEF more
    <3>2. /\ tsk \o more \in Seq(Task)
          /\ ToSet(tsk \o more) = ToSet(tsk) \union ToSet(more)
      BY <2>3, ToSetConcat
    <3>3. /\ Joined(Handlers(tsk \o more), Handlers(tsk), Handlers(more))
          /\ Joined(ProducesBy(g, tsk \o more), ProducesBy(g, tsk),
                    ProducesBy(g, more))
      BY <2>3, TaskSteps
    <3> QED
      BY <3>1, <3>2, <3>3
  <2>8. Alike(ProducesBy(g, tasks'), ProducesBy(g, tsk))
    BY <2>5, <2>7 DEF Alike, Joined, Below
  <2>9. /\ Handling(tasks') = Handling(tsk) \union Handling(more)
        /\ Producing(tasks') = Producing(tsk) \union Producing(more)
    BY <2>7 DEF Handling, Producing
  <2>10. Answers(results', tasks') = Answers(res, tsk) \union ToSet(list)
    <3>1. Answers(results', tasks') = Answers(res, tsk)
             \union {[op |-> t.op, ec |-> t.ec] : t \in Handling(more)}
      BY <1>2, <2>9 DEF Answers
    <3> QED
      BY <2>6, <3>1
  <2>11. Answered(res, tsk, list)
    <3>1. Alike(Ops(results'), Ops(res))
      BY <1>2 DEF Alike
    <3>2. Joined(Handlers(tasks'), Handlers(tsk), Ops(list))
      BY <2>4, <2>7
    <3> QED
      BY <3>1, <3>2 DEF Answered
  <2> QED
    BY <1>2, <2>5, <2>7, <2>8, <2>9, <2>10, <2>11
<1> QED
  BY <1>1, <1>2 DEF Finish

-----------------------------------------------------------------------------
(* What the actions do: types, and moves of accepts and of connections.      *)
LEMMA Typed ==
    ASSUME TypeOK
    PROVE  /\ waiting \in Seq(Accept) /\ surplus \in Seq(Datum)
           /\ tasks \in Seq(Task) /\ results \in Seq(Answer)
           /\ matched \in Seq(Nat) /\ number \in [Connections -> Nat]
           /\ finished \in Nat /\ accepts \in Nat /\ closes \in Nat
           /\ mq \in [Accept -> Connections \union {None}]
           /\ Queued(surplus) = QueuedBy(number, surplus)
           /\ Produces(tasks) = ProducesBy(number, tasks)
<1>1. /\ waiting \in Seq(Accept) /\ surplus \in Seq(Datum)
      /\ tasks \in Seq(Task) /\ results \in Seq(Answer)
      /\ finished \in Nat /\ accepts \in Nat /\ closes \in Nat
      /\ mq \in [Accept -> Connections \union {None}]
  BY Bounds DEF TypeOK, Datum, Task, Posting, Calling, Answer
<1>2. matched \in Seq(Nat)
  <2>1. matched \in Seq(0..finished) /\ 0..finished \subseteq Nat
    BY DEF TypeOK
  <2> QED
    BY <2>1, SeqMonotonic
<1>3. number \in [Connections -> Nat]
  BY DEF TypeOK
<1>4. /\ Queued(surplus) = QueuedBy(number, surplus)
      /\ Produces(tasks) = ProducesBy(number, tasks)
  BY DEF Queued, QueuedBy, Produces, ProducesBy
<1> QED
  BY <1>1, <1>2, <1>3, <1>4

LEMMA GiveEffect ==
    ASSUME TypeOK, NEW a \in Accept, NEW d \in Datum, Give(a, d)
    PROVE  /\ mq' \in [Accept -> Connections \union {None}]
           /\ mq' = IF d.ec = "ok" THEN [mq EXCEPT ![a] = d.con] ELSE mq
           /\ number[d.con] \in 0..finished /\ d.con \in Connections
           /\ matched' \in Seq(0..finished)
           /\ Joined(matched', matched, <<number[d.con]>>)
<1>1. /\ d.con \in Connections /\ number[d.con] \in 0..finished
      /\ number[d.con] \in Nat /\ matched' = Append(matched, number[d.con])
      /\ mq' = IF d.ec = "ok" THEN [mq EXCEPT ![a] = d.con] ELSE mq
      /\ matched \in Seq(0..finished)
  BY DEF Datum, Give, TypeOK
<1>2. mq' \in [Accept -> Connections \union {None}]
  BY <1>1 DEF TypeOK
<1>3. matched' \in Seq(0..finished)
  BY <1>1, AppendProperties
<1>4. matched' = matched \o <<number[d.con]>>
  BY <1>1, AppendIsConcat
<1>5. matched \in Seq(Nat) /\ <<number[d.con]>> \in Seq(Nat)
  BY <1>1, Typed
<1>6. Joined(matched \o <<number[d.con]>>, matched, <<number[d.con]>>)
  BY <1>5, ConcatNumbers
<1> QED
  BY <1>1, <1>2, <1>3, <1>4, <1>6

LEMMA DoneAnswers ==
    ASSUME NEW a \in Accept, NEW d \in Datum
    PROVE  /\ Done(a, d) \in Seq(Answer) /\ Ops(Done(a, d)) = <<a>>
           /\ ToSet(Done(a, d)) = {[op |-> a, ec |-> d.ec]}
<1>1. [op |-> a, ec |-> d.ec] \in Answer
  BY DEF Datum, Answer, Verdict
<1>2. ToSet(Done(a, d)) = {[op |-> a, ec |-> d.ec]}
  BY DEF Done, ToSet
<1>3. Ops(Done(a, d)) = <<a>>
  BY DEF Ops, Done
<1> QED
  BY <1>1, <1>2, <1>3 DEF Done

LEMMA AbortedAnswers ==
    ASSUME TypeOK
    PROVE  /\ Aborted \in Seq(Answer) /\ Ops(Aborted) = waiting
           /\ ToSet(Aborted) = {[op |-> a, ec |-> "aborted"] : a \in ToSet(waiting)}
<1>1. /\ waiting \in Seq(Accept) /\ DOMAIN waiting = 1..Len(waiting)
      /\ Len(waiting) \in Nat /\ \A i \in DOMAIN waiting : waiting[i] \in Accept
      /\ waiting = [i \in DOMAIN waiting |-> waiting[i]]
  BY Typed, LenProperties
<1>2. \A i \in DOMAIN waiting : [op |-> waiting[i], ec |-> "aborted"] \in Answer
  BY <1>1 DEF Answer, Verdict
<1>3. Aborted \in Seq(Answer)
  BY <1>1, <1>2 DEF Aborted
<1>4. Ops(Aborted) = [i \in DOMAIN waiting |-> waiting[i]]
  BY DEF Ops, Aborted
<1>5. ToSet(Aborted) = {[op |-> waiting[i], ec |-> "aborted"] : i \in DOMAIN waiting}
  BY DEF ToSet, Aborted
<1>6. {[op |-> waiting[i], ec |-> "aborted"] : i \in DOMAIN waiting}
         = {[op |-> a, ec |-> "aborted"] : a \in ToSet(waiting)}
  BY DEF ToSet
<1> QED
  BY <1>1, <1>3, <1>4, <1>5, <1>6

(* TypeOK, by parts that a step may leave alone.                             *)
QueueTypes ==
    /\ waiting \in Seq(Accept) /\ surplus \in Seq(Datum)
    /\ tasks \in Seq(Task) /\ results \in Seq(Answer)
    /\ matched \in Seq(0..finished)
    /\ mq \in [Accept -> Connections \union {None}]
StateTypes ==
    /\ listening \in BOOLEAN /\ owner \in BOOLEAN
    /\ session \in [Connections ->
                       {"none", "connecting", "open", "failed", "closed"}]
    /\ transportEc \subseteq Connections
    /\ accepts \in 0..MaxAccepts /\ closes \in 0..(MaxCloses + 1)
    /\ finished \in Nat /\ number \in [Connections -> 0..finished]
    /\ late \in [connections : SUBSET Connections, accepts : SUBSET Accept]
    /\ owner => closes <= MaxCloses

Types == TypeOK /\ (owner => closes <= MaxCloses)

LEMMA TypesParts == Types <=> QueueTypes /\ StateTypes
BY DEF Types, TypeOK, QueueTypes, StateTypes, Datum, Task, Posting, Calling, Answer

LEMMA AsyncAcceptTypes ==
    ASSUME Types, NEW here \in BOOLEAN, AsyncAccept(here)
    PROVE  Types'
<1>1. TypeOK /\ QueueTypes /\ StateTypes
  BY TypesParts DEF Types
<1>2. accepts' \in Accept /\ accepts' = accepts + 1 /\ accepts' \in 0..MaxAccepts
  BY <1>1, Bounds DEF AsyncAccept, StateTypes, Accept
<1>3. StateTypes'
  <2>1. late' \in [connections : SUBSET Connections, accepts : SUBSET Accept]
    <3>1. late.accepts \union {accepts'} \in SUBSET Accept
      BY <1>1, <1>2 DEF StateTypes
    <3> QED
      BY <1>1, <3>1 DEF AsyncAccept, StateTypes
  <2>2. UNCHANGED <<listening, owner, session, transportEc, closes, finished,
                    number>>
    BY DEF AsyncAccept, net, handshakes
  <2> QED
    BY <1>1, <1>2, <2>1, <2>2 DEF StateTypes
<1>4. QueueTypes'
  <2>1. CASE surplus = <<>>
    <3>1. /\ waiting' = Append(waiting, accepts') /\ finished' = finished
          /\ UNCHANGED <<surplus, tasks, mq, results, matched>>
      BY <2>1 DEF AsyncAccept, handshakes
    <3>2. waiting' \in Seq(Accept)
      BY <1>1, <1>2, <3>1 DEF QueueTypes
    <3> QED
      BY <1>1, <3>1, <3>2 DEF QueueTypes
  <2>2. CASE surplus # <<>>
    <3>1. /\ Give(accepts', Taken) /\ surplus' = Tail(surplus)
          /\ Finish(Done(accepts', Taken), here, results, tasks)
          /\ waiting' = waiting /\ finished' = finished
      BY <2>2 DEF AsyncAccept, handshakes
    <3>2. Taken \in Datum /\ surplus' \in Seq(Datum)
      BY <1>1, <2>2, <3>1 DEF QueueTypes, Taken
    <3>3. /\ mq' \in [Accept -> Connections \union {None}]
          /\ matched' \in Seq(0..finished)
      BY <1>1, <1>2, <3>1, <3>2, GiveEffect
    <3>4. tasks' \in Seq(Task) /\ results' \in Seq(Answer)
      BY <1>1, <1>2, <3>1, <3>2, DoneAnswers, FinishEffect, Typed DEF QueueTypes
    <3> QED
      BY <1>1, <3>1, <3>2, <3>3, <3>4 DEF QueueTypes
  <2> QED
    BY <2>1, <2>2
<1> QED
  BY <1>3, <1>4, TypesParts, PTL

LEMMA RunProduceTypes ==
    ASSUME Types, RunProduce
    PROVE  Types'
<1> DEFINE x == Head(tasks)
           d == [con |-> x.con,
                 ec |-> IF x.con \in transportEc THEN "transport" ELSE "ok"]
<1>1. TypeOK /\ QueueTypes /\ StateTypes
  BY TypesParts DEF Types
<1>2. x \in Task /\ x.kind = "produce" /\ Tail(tasks) \in Seq(Task)
  BY <1>1, ToSets DEF RunProduce, QueueTypes
<1>3. x.con \in Connections /\ d \in Datum
  BY <1>2, TaskKinds DEF Datum
<1>4. StateTypes'
  <2>1. late' \in [connections : SUBSET Connections, accepts : SUBSET Accept]
    <3>1. late.connections \union {x.con} \in SUBSET Connections
      BY <1>1, <1>3 DEF StateTypes
    <3> QED
      BY <1>1, <3>1 DEF RunProduce, StateTypes
  <2>2. UNCHANGED <<listening, owner, session, transportEc, closes, finished,
                    number, accepts>>
    BY DEF RunProduce, net, handshakes
  <2> QED
    BY <1>1, <2>1, <2>2 DEF StateTypes
<1>5. QueueTypes'
  <2>0. finished' = finished /\ ProduceTo(x.con, Tail(tasks))
    BY DEF RunProduce, handshakes
  <2> HIDE DEF x
  <2>1. CASE waiting = <<>>
    <3>1. /\ surplus' = Append(surplus, d) /\ tasks' = Tail(tasks)
          /\ UNCHANGED <<waiting, mq, results, matched>>
      BY <2>0, <2>1 DEF ProduceTo
    <3> HIDE DEF d
    <3>2. surplus' \in Seq(Datum)
      BY <1>1, <1>3, <3>1 DEF QueueTypes
    <3> QED
      BY <1>1, <1>2, <2>0, <3>1, <3>2 DEF QueueTypes, x
  <2>2. CASE waiting # <<>>
    <3>1. /\ Give(Head(waiting), d) /\ waiting' = Tail(waiting)
          /\ Finish(Done(Head(waiting), d), TRUE, results, Tail(tasks))
          /\ surplus' = surplus
      BY <2>0, <2>2 DEF ProduceTo
    <3> HIDE DEF d
    <3>2. Head(waiting) \in Accept /\ waiting' \in Seq(Accept)
      BY <1>1, <2>2, <3>1 DEF QueueTypes
    <3>3. /\ mq' \in [Accept -> Connections \union {None}]
          /\ matched' \in Seq(0..finished)
      BY <1>1, <1>3, <3>1, <3>2, GiveEffect
    <3>4. tasks' \in Seq(Task) /\ results' \in Seq(Answer)
      BY <1>1, <1>2, <1>3, <3>1, <3>2, DoneAnswers, FinishEffect, Typed
         DEF QueueTypes
    <3> QED
      BY <1>1, <2>0, <3>1, <3>2, <3>3, <3>4 DEF QueueTypes
  <2> QED
    BY <2>1, <2>2
<1> QED
  BY <1>4, <1>5, TypesParts, PTL

LEMMA DrainTypes ==
    ASSUME Types, NEW here \in BOOLEAN, Close(here) \/ Destroy(here)
    PROVE  Types'
<1>1. TypeOK /\ QueueTypes /\ StateTypes
  BY TypesParts DEF Types
<1>2. Drain(here) /\ closes' = closes + 1 /\ owner
  BY DEF Close, Destroy
<1>3. StateTypes'
  <2>1. closes' \in 0..(MaxCloses + 1) /\ (owner' => closes' <= MaxCloses)
    <3>1. closes \in Nat /\ closes <= MaxCloses /\ MaxCloses \in Nat
      BY <1>1, <1>2, Bounds DEF StateTypes
    <3>2. closes < MaxCloses \/ owner' = FALSE
      BY DEF Close, Destroy
    <3> QED
      BY <1>2, <3>1, <3>2
  <2>2. owner' \in BOOLEAN /\ listening' \in BOOLEAN
    BY <1>1, <1>2 DEF Close, Destroy, Drain, StateTypes
  <2>3. session' \in [Connections ->
                        {"none", "connecting", "open", "failed", "closed"}]
    BY <1>1, <1>2 DEF Drain, StateTypes
  <2>4. UNCHANGED <<transportEc, accepts, finished, number, late>>
    BY <1>2 DEF Drain, handshakes
  <2> QED
    BY <1>1, <2>1, <2>2, <2>3, <2>4 DEF StateTypes
<1>4. QueueTypes'
  <2>1. /\ Finish(Aborted, here, results, tasks) /\ waiting' = <<>>
        /\ surplus' = <<>> /\ UNCHANGED <<mq, finished, matched>>
    BY <1>2 DEF Drain, handshakes
  <2>2. tasks' \in Seq(Task) /\ results' \in Seq(Answer)
    BY <1>1, <2>1, AbortedAnswers, FinishEffect, Typed
  <2> QED
    BY <1>1, <2>1, <2>2 DEF QueueTypes
<1> QED
  BY <1>3, <1>4, TypesParts, PTL

LEMMA HandshakeTypes ==
    ASSUME Types, NEW c \in Connections, NEW to \in {"open", "failed"},
           HandshakeEnds(c, to)
    PROVE  Types'
<1>1. TypeOK /\ QueueTypes /\ StateTypes
  BY TypesParts DEF Types
<1>2. StateTypes'
  <2>1. /\ finished' = finished + 1 /\ finished' \in Nat
        /\ number' = [number EXCEPT ![c] = finished']
    BY <1>1 DEF HandshakeEnds, StateTypes
  <2>2. number' \in [Connections -> 0..finished']
    BY <1>1, <2>1 DEF StateTypes
  <2>3. session' \in [Connections ->
                        {"none", "connecting", "open", "failed", "closed"}]
    BY <1>1 DEF HandshakeEnds, StateTypes
  <2>4. UNCHANGED <<listening, owner, transportEc, accepts, closes, late>>
    BY DEF HandshakeEnds
  <2> QED
    BY <1>1, <2>1, <2>2, <2>3, <2>4 DEF StateTypes
<1>3. QueueTypes'
  <2>1. [kind |-> "produce", con |-> c] \in Task
    BY DEF Task, Posting
  <2>2. tasks' \in Seq(Task)
    BY <1>1, <2>1 DEF HandshakeEnds, QueueTypes
  <2>3. matched' \in Seq(0..finished')
    <3>1. matched \in Seq(0..finished) /\ 0..finished \subseteq 0..finished'
      BY <1>1 DEF HandshakeEnds, QueueTypes, StateTypes
    <3> QED
      BY <3>1, SeqMonotonic DEF HandshakeEnds
  <2>4. UNCHANGED <<waiting, surplus, results, mq>>
    BY DEF HandshakeEnds, queue
  <2> QED
    BY <1>1, <2>2, <2>3, <2>4 DEF QueueTypes
<1> QED
  BY <1>2, <1>3, TypesParts, PTL

LEMMA RunHandlerTypes ==
    ASSUME Types, RunHandler
    PROVE  Types'
<1>1. TypeOK /\ QueueTypes /\ StateTypes
  BY TypesParts DEF Types
<1>2. /\ Head(tasks) \in Task /\ Head(tasks).kind = "handler"
      /\ tasks' = Tail(tasks) /\ Tail(tasks) \in Seq(Task)
  BY <1>1, ToSets DEF RunHandler, QueueTypes
<1>3. [op |-> Head(tasks).op, ec |-> Head(tasks).ec] \in Answer
  BY <1>2, TaskKinds DEF Answer
<1>4. results' \in Seq(Answer)
  BY <1>1, <1>3, AppendProperties DEF RunHandler, QueueTypes
<1>5. UNCHANGED <<listening, net, queue, owner, accepts, closes, mq, handshakes,
                  matched, late>>
  BY DEF RunHandler
<1>6. QueueTypes'
  BY <1>1, <1>2, <1>4, <1>5 DEF QueueTypes, queue, handshakes
<1>7. StateTypes'
  BY <1>1, <1>5 DEF StateTypes, net, handshakes
<1> QED
  BY <1>6, <1>7, TypesParts, PTL

LEMMA TypesKept == Types /\ [Next]_vars => Types'
<1> SUFFICES ASSUME Types, [Next]_vars PROVE Types'
  OBVIOUS
<1>1. QueueTypes /\ StateTypes
  BY TypesParts
<1>2. ASSUME UNCHANGED <<waiting, surplus, tasks, results, matched, mq, finished>>,
             StateTypes'
      PROVE  Types'
  <2>1. QueueTypes'
    BY <1>1, <1>2 DEF QueueTypes
  <2> QED
    BY <1>2, <2>1, TypesParts, PTL
<1>3. CASE Listen
  BY <1>1, <1>2, <1>3 DEF Listen, StateTypes, net, queue, handshakes
<1>4. CASE \E c \in Connections : Connect(c)
  BY <1>1, <1>2, <1>4 DEF Connect, StateTypes, queue, handshakes
<1>5. CASE \E c \in Connections : TransportFails(c)
  BY <1>1, <1>2, <1>5 DEF TransportFails, StateTypes, queue, handshakes
<1>6. CASE UNCHANGED vars
  BY <1>1, <1>2, <1>6 DEF vars, StateTypes
<1> QED
  BY <1>3, <1>4, <1>5, <1>6, AsyncAcceptTypes, RunProduceTypes, DrainTypes,
     HandshakeTypes, RunHandlerTypes DEF Next, RunTask

-----------------------------------------------------------------------------
(* The inductive invariant, by the questions it answers.                     *)
Apart(A, B) == A \cap B = {}

(* One of the queue's halves is empty.                                       *)
OneSided == waiting = <<>> \/ surplus = <<>>

(* Each accept issued is in one place, and there once.                       *)
OneEach ==
    /\ Once(waiting) /\ Once(Handlers(tasks)) /\ Once(Ops(results))
    /\ Apart(Numbers(waiting), Numbers(Handlers(tasks)))
    /\ Apart(Numbers(waiting), Numbers(Ops(results)))
    /\ Apart(Numbers(Handlers(tasks)), Numbers(Ops(results)))
    /\ Numbers(waiting) \union Numbers(Handlers(tasks))
          \union Numbers(Ops(results)) = 1..accepts

(* A connection has a number once its handshake finished.                    *)
Parked(c) == \E d \in ToSet(surplus) : d.con = c
Numbered ==
    /\ \A c \in Connections :
           number[c] = 0 <=> session[c] \in {"none", "connecting"}
    /\ \A c \in Connections :
           Parked(c) \/ c \in Producing(tasks) => number[c] # 0

(* What was taken, what is queued and what is posted, in line.               *)
Lined(m, q, p, n, all) ==
    /\ InOrder(m) /\ InOrder(q) /\ InOrder(p)
    /\ Below(Numbers(m), Numbers(q)) /\ Below(Numbers(m), Numbers(p))
    /\ Below(Numbers(q), Numbers(p))
    /\ Numbers(m) \union Numbers(q) \union Numbers(p) \subseteq 1..n
    /\ all => Numbers(m) \union Numbers(q) \union Numbers(p) = 1..n
InLine ==
    Lined(matched, QueuedBy(number, surplus), ProducesBy(number, tasks),
          finished, closes = 0)

(* A message queue has a connection if its accept succeeded, its own, and    *)
(* one that was taken.                                                       *)
Pointers ==
    /\ \A x \in Answers(results, tasks) : x.ec = "ok" <=> mq[x.op] # None
    /\ \A a \in Accept : mq[a] # None =>
           /\ a \in {x.op : x \in Answers(results, tasks)}
           /\ number[mq[a]] \in Numbers(matched)
    /\ \A a, b \in Accept : mq[a] # None /\ mq[a] = mq[b] => a = b

(* Who answers for an open connection.                                       *)
Owned ==
    /\ \A d \in ToSet(surplus) :
           /\ closes > 0 => d.con \in late.connections
           /\ d.ec = "transport" => d.con \in transportEc
    /\ \A c \in Connections \ transportEc :
           session[c] = "open" => \/ \E a \in Accept : mq[a] = c
                                  \/ c \in late.connections
                                  \/ Parked(c)
                                  \/ c \in Producing(tasks)

Inv ==
    /\ Types /\ OneSided /\ OneEach /\ Numbered /\ InLine /\ Pointers /\ Owned

(* Accepts move: one is issued, to wait or to be answered at once; waiting   *)
(* ones are answered; an answer that was posted is given.                    *)
AnswersAlike ==
    Alike(Handlers(tasks'), Handlers(tasks)) /\ Alike(Ops(results'), Ops(results))

LEMMA OneEachKept ==
    ASSUME OneEach, accepts \in Nat, NEW list, NEW n \in Nat,
           \/ /\ accepts' = accepts + 1 /\ AnswersAlike
              /\ Joined(waiting', waiting, << accepts' >>)
           \/ /\ accepts' = accepts + 1 /\ waiting' = waiting
              /\ Answered(results, tasks, list) /\ Ops(list) = << accepts' >>
           \/ /\ accepts' = accepts /\ Joined(waiting, Ops(list), waiting')
              /\ Answered(results, tasks, list)
           \/ /\ accepts' = accepts /\ waiting' = waiting
              /\ Joined(Handlers(tasks), <<n>>, Handlers(tasks'))
              /\ Joined(Ops(results'), Ops(results), <<n>>)
           \/ accepts' = accepts /\ waiting' = waiting /\ AnswersAlike
    PROVE  OneEach'
<1> DEFINE next == accepts + 1
<1>0. /\ 1..next = 1..accepts \union {next} /\ next \notin 1..accepts
      /\ Numbers(<<next>>) = {next} /\ Once(<<next>>) /\ Once(<<n>>)
  BY SingleNumber
<1>1. CASE accepts' = next /\ AnswersAlike /\ Joined(waiting', waiting, <<next>>)
  BY <1>0, <1>1 DEF OneEach, AnswersAlike, Alike, Joined, Apart
<1>2. CASE /\ accepts' = next /\ waiting' = waiting
           /\ Answered(results, tasks, list) /\ Ops(list) = <<next>>
  BY <1>0, <1>2 DEF OneEach, Answered, Alike, Joined, Apart
<1>3. CASE /\ accepts' = accepts /\ Joined(waiting, Ops(list), waiting')
           /\ Answered(results, tasks, list)
  BY <1>3 DEF OneEach, Answered, Alike, Joined, Apart
<1>4. CASE /\ accepts' = accepts /\ waiting' = waiting
           /\ Joined(Handlers(tasks), <<n>>, Handlers(tasks'))
           /\ Joined(Ops(results'), Ops(results), <<n>>)
  BY <1>0, <1>4 DEF OneEach, Joined, Apart
<1>5. CASE accepts' = accepts /\ waiting' = waiting /\ AnswersAlike
  BY <1>5 DEF OneEach, AnswersAlike, Alike, Apart
<1> QED
  BY <1>1, <1>2, <1>3, <1>4, <1>5

(* An accept that waits, or is not yet issued, has no answer and no          *)
(* connection.                                                               *)
LEMMA Unanswered ==
    ASSUME TypeOK, OneEach, Pointers, NEW a \in Accept,
           a \in Numbers(waiting) \/ a = accepts + 1
    PROVE  a \notin {x.op : x \in Answers(results, tasks)} /\ mq[a] = None
<1>1. /\ results \in Seq(Answer) /\ tasks \in Seq(Task) /\ accepts \in Nat
      /\ Numbers(Ops(results)) \union Numbers(Handlers(tasks)) =
            {x.op : x \in Answers(results, tasks)}
  BY Typed, AnswerNumbers
<1>2. accepts + 1 \notin 1..accepts
  BY <1>1
<1>3. a \notin {x.op : x \in Answers(results, tasks)}
  BY <1>1, <1>2 DEF OneEach, Apart
<1> QED
  BY <1>3 DEF Pointers

(* Connections move along the line: from posted to queued, from either to an *)
(* accept; at its end a handshake puts the next one.                         *)
LEMMA LinedKept ==
    ASSUME NEW m, NEW q, NEW p, NEW n \in Nat, NEW all, Lined(m, q, p, n, all),
           NEW mm, NEW qq, NEW pp, NEW k \in Nat,
           \/ Alike(mm, m) /\ Joined(qq, q, <<k>>) /\ Joined(p, <<k>>, pp)
           \/ Joined(mm, m, <<k>>) /\ Joined(q, <<k>>, qq) /\ Alike(pp, p)
           \/ /\ Joined(mm, m, <<k>>) /\ Joined(p, <<k>>, pp) /\ Alike(qq, q)
              /\ Numbers(q) = {}
           \/ Alike(mm, m) /\ Alike(qq, q) /\ Alike(pp, p)
    PROVE  Lined(mm, qq, pp, n, all)
<1>0. Numbers(<<k>>) = {k} \ {0} /\ InOrder(<<k>>)
  BY SingleNumber
<1>1. CASE Alike(mm, m) /\ Joined(qq, q, <<k>>) /\ Joined(p, <<k>>, pp)
  BY <1>0, <1>1 DEF Lined, Alike, Joined, Below
<1>2. CASE Joined(mm, m, <<k>>) /\ Joined(q, <<k>>, qq) /\ Alike(pp, p)
  BY <1>0, <1>2 DEF Lined, Alike, Joined, Below
<1>3. CASE /\ Joined(mm, m, <<k>>) /\ Joined(p, <<k>>, pp) /\ Alike(qq, q)
           /\ Numbers(q) = {}
  BY <1>0, <1>3 DEF Lined, Alike, Joined, Below
<1>4. CASE Alike(mm, m) /\ Alike(qq, q) /\ Alike(pp, p)
  BY <1>4 DEF Lined, Alike
<1> QED
  BY <1>1, <1>2, <1>3, <1>4

LEMMA LinedGrows ==
    ASSUME NEW m, NEW q, NEW p, NEW n \in Nat, NEW all, Lined(m, q, p, n, all),
           NEW pp, Joined(pp, p, << n + 1 >>)
    PROVE  Lined(m, q, pp, n + 1, all)
<1>1. /\ Numbers(<<n + 1>>) = {n + 1} /\ InOrder(<<n + 1>>)
      /\ 1..(n + 1) = 1..n \union {n + 1} /\ \A k \in 1..n : k < n + 1
  BY SingleNumber
<1>2. /\ Numbers(m) \subseteq 1..n /\ Numbers(q) \subseteq 1..n
      /\ Numbers(p) \subseteq 1..n
  BY DEF Lined
<1>3. Numbers(pp) = Numbers(p) \union {n + 1} /\ InOrder(pp)
  BY <1>1, <1>2 DEF Joined, Lined, Below
<1>4. /\ Below(Numbers(m), Numbers(pp)) /\ Below(Numbers(q), Numbers(pp))
  BY <1>1, <1>2, <1>3 DEF Lined, Below
<1> QED
  BY <1>1, <1>2, <1>3, <1>4 DEF Lined

LEMMA LinedDrained ==
    ASSUME NEW m, NEW q, NEW p, NEW n \in Nat, NEW all, Lined(m, q, p, n, all),
           NEW pp, Alike(pp, p)
    PROVE  Lined(m, <<>>, pp, n, FALSE)
BY NoNumber DEF Lined, Alike, Below

(* An accept is answered with a datum: the history grows by its number, and  *)
(* its message queue gets the connection unless it carries an error.         *)
Gave(a, d) ==
    /\ mq' = IF d.ec = "ok" THEN [mq EXCEPT ![a] = d.con] ELSE mq
    /\ Joined(matched', matched, << number[d.con] >>)
    /\ Answers(results', tasks') =
          Answers(results, tasks) \union {[op |-> a, ec |-> d.ec]}
    /\ number' = number

LEMMA GavePointers ==
    ASSUME TypeOK, OneEach, Pointers, NEW a \in Accept, NEW d \in Datum, Gave(a, d),
           a \in Numbers(waiting) \/ a = accepts + 1,
           number[d.con] # 0, number[d.con] \notin Numbers(matched)
    PROVE  Pointers'
<1> DEFINE old == Answers(results, tasks)
           new == [op |-> a, ec |-> d.ec]
<1>1. /\ a \notin {x.op : x \in old} /\ mq[a] = None
      /\ mq \in [Accept -> Connections \union {None}]
      /\ d.con \in Connections /\ d.con # None
      /\ d.ec = "ok" \/ d.ec = "transport"
  BY Unanswered, Typed, Bounds DEF Datum
<1>2. number[d.con] \in Nat
  BY <1>1, Typed
<1>3. /\ number' = number
      /\ Numbers(matched') = Numbers(matched) \union {number[d.con]}
  BY <1>2, SingleNumber DEF Gave, Joined
<1>4. /\ Answers(results', tasks') = old \union {new}
      /\ new.op = a /\ new.ec = d.ec
      /\ {x.op : x \in old \union {new}} = {x.op : x \in old} \union {a}
  <2>1. Answers(results', tasks') = old \union {new}
    BY DEF Gave
  <2>2. new.op = a /\ new.ec = d.ec
    OBVIOUS
  <2> HIDE DEF old, new
  <2> QED
    BY <2>1, <2>2
<1>5. \A b \in Accept : mq'[b] = IF b = a /\ d.ec = "ok" THEN d.con ELSE mq[b]
  BY <1>1 DEF Gave
<1> HIDE DEF old, new
<1>6. /\ \A x \in old : x.ec = "ok" <=> mq[x.op] # None
      /\ \A b \in Accept : mq[b] # None =>
             b \in {x.op : x \in old} /\ number[mq[b]] \in Numbers(matched)
      /\ \A b, c \in Accept : mq[b] # None /\ mq[b] = mq[c] => b = c
  BY DEF Pointers, old
<1>7. old \subseteq Answer
  BY AnswerNumbers, Typed DEF old
<1>8. \A x \in old \union {new} : x.ec = "ok" <=> mq'[x.op] # None
  <2>1. ASSUME NEW x \in old PROVE x.ec = "ok" <=> mq'[x.op] # None
    <3>1. x.op # a /\ x.op \in Accept
      BY <1>1, <1>7 DEF Answer
    <3> QED
      BY <1>5, <1>6, <3>1
  <2>2. new.ec = "ok" <=> mq'[new.op] # None
    BY <1>1, <1>4, <1>5
  <2> QED
    BY <2>1, <2>2
<1>9. \A b \in Accept : mq'[b] # None =>
          b \in {x.op : x \in old} \union {a} /\ number[mq'[b]] \in Numbers(matched')
  BY <1>3, <1>5, <1>6
<1>10. ASSUME NEW b \in Accept, NEW c \in Accept, mq'[b] # None, mq'[b] = mq'[c]
       PROVE  b = c
  <2>1. \A e \in Accept : mq[e] # d.con
    BY <1>1, <1>6
  <2> QED
    BY <1>5, <1>6, <1>10, <2>1
<1> QED
  BY <1>3, <1>4, <1>8, <1>9, <1>10 DEF Pointers

(* Answers that bring no connection, to accepts that have none.              *)
LEMMA RefusedPointers ==
    ASSUME Pointers, NEW refused, Answers(results, tasks) \subseteq Answer,
           Answers(results', tasks') = Answers(results, tasks) \union refused,
           \A x \in refused : x.ec # "ok" /\ mq[x.op] = None,
           UNCHANGED <<mq, matched, number>>
    PROVE  Pointers'
<1>1. /\ \A x \in Answers(results', tasks') : x.ec = "ok" <=> mq[x.op] # None
      /\ {x.op : x \in Answers(results, tasks)}
            \subseteq {x.op : x \in Answers(results', tasks')}
  BY DEF Pointers
<1> QED
  BY <1>1 DEF Pointers

(* What an open connection's owner may become.                               *)
LEMMA OwnedKept ==
    ASSUME Owned, closes' = closes, late.connections \subseteq late'.connections,
           transportEc \subseteq transportEc',
           \A c \in Connections : session'[c] = "open" => session[c] = "open",
           \A d \in ToSet(surplus') :
               \/ d \in ToSet(surplus)
               \/ /\ closes > 0 => d.con \in late'.connections
                  /\ d.ec = "transport" => d.con \in transportEc',
           \A c \in Connections \ transportEc' :
               /\ (\E a \in Accept : mq[a] = c) => (\E a \in Accept : mq'[a] = c)
               /\ Parked(c) \/ c \in Producing(tasks) =>
                      \/ Parked(c)' \/ c \in Producing(tasks')
                      \/ \E a \in Accept : mq'[a] = c
    PROVE  Owned'
<1> DEFINE of(c) == \E a \in Accept : mq[a] = c
           ofNext(c) == \E a \in Accept : mq'[a] = c
<1>1. \A d \in ToSet(surplus') :
         /\ closes' > 0 => d.con \in late'.connections
         /\ d.ec = "transport" => d.con \in transportEc'
  BY DEF Owned
<1>2. /\ \A c \in Connections \ transportEc :
             session[c] = "open" => \/ of(c) \/ c \in late.connections
                                    \/ Parked(c) \/ c \in Producing(tasks)
      /\ \A c \in Connections \ transportEc' :
             /\ of(c) => ofNext(c)
             /\ Parked(c) \/ c \in Producing(tasks) =>
                    Parked(c)' \/ c \in Producing(tasks') \/ ofNext(c)
  BY DEF Owned
<1> HIDE DEF of, ofNext
<1>3. \A c \in Connections \ transportEc' :
          session'[c] = "open" => \/ ofNext(c) \/ c \in late'.connections
                                  \/ Parked(c)' \/ c \in Producing(tasks')
  BY <1>2
<1> QED
  BY <1>1, <1>3 DEF Owned, ofNext

-----------------------------------------------------------------------------
(* The steps keep the invariant.                                             *)
Kept == (OneSided /\ OneEach /\ Numbered /\ InLine /\ Pointers /\ Owned)'

LEMMA AlikeItself == \A s : Alike(s, s)
BY DEF Alike

(* What is queued and posted has a number, past those that were taken.       *)
LEMMA NotTaken ==
    ASSUME Inv, NEW c \in Connections, Parked(c) \/ c \in Producing(tasks)
    PROVE  number[c] # 0 /\ number[c] \notin Numbers(matched)
<1>1. /\ TypeOK /\ number[c] \in Nat /\ number[c] # 0
      /\ tasks \in Seq(Task) /\ surplus \in Seq(Datum) /\ matched \in Seq(Nat)
  BY Typed DEF Inv, Types, Numbered
<1>2. \/ number[c] \in Numbers(QueuedBy(number, surplus))
      \/ number[c] \in Numbers(ProducesBy(number, tasks))
  <2>1. CASE Parked(c)
    <3>1. PICK i \in DOMAIN surplus : surplus[i].con = c
      BY <2>1 DEF Parked, ToSet
    <3>2. QueuedBy(number, surplus)[i] = number[c]
      BY <3>1 DEF QueuedBy
    <3>3. number[c] \in ToSet(QueuedBy(number, surplus))
      BY <3>1, <3>2 DEF QueuedBy, ToSet
    <3> QED
      BY <1>1, <3>3 DEF Numbers
  <2>2. CASE c \in Producing(tasks)
    <3>1. PICK i \in DOMAIN tasks : tasks[i].kind = "produce" /\ tasks[i].con = c
      BY <2>2 DEF Producing, ToSet
    <3>2. ProducesBy(number, tasks)[i] = number[c]
      BY <3>1 DEF ProducesBy
    <3>3. number[c] \in ToSet(ProducesBy(number, tasks))
      BY <3>1, <3>2 DEF ProducesBy, ToSet
    <3> QED
      BY <1>1, <3>3 DEF Numbers
  <2> QED
    BY <2>1, <2>2
<1>3. \A n \in Numbers(matched) : n < number[c]
  BY <1>2 DEF Inv, InLine, Lined, Below
<1> QED
  BY <1>1, <1>3

LEMMA Heads ==
    ASSUME TypeOK, tasks # <<>>
    PROVE  /\ Head(tasks) \in Task /\ Tail(tasks) \in Seq(Task)
           /\ Joined(Handlers(tasks), << HandlerOf[Head(tasks)] >>,
                     Handlers(Tail(tasks)))
           /\ Joined(ProducesBy(number, tasks), << ProduceOf(number)[Head(tasks)] >>,
                     ProducesBy(number, Tail(tasks)))
           /\ ToSet(tasks) = {Head(tasks)} \union ToSet(Tail(tasks))
<1>1. tasks \in Seq(Task) /\ number \in [Connections -> Nat]
  BY Typed
<1> QED
  BY <1>1, TaskSteps, ToSets

(* A posted produce() leaves the queue of tasks.                             *)
LEMMA ProduceLeaves ==
    ASSUME TypeOK, tasks # <<>>, Head(tasks).kind = "produce"
    PROVE  /\ Head(tasks).con \in Connections
           /\ Alike(Handlers(Tail(tasks)), Handlers(tasks))
           /\ Joined(ProducesBy(number, tasks), << number[Head(tasks).con] >>,
                     ProducesBy(number, Tail(tasks)))
           /\ Handling(Tail(tasks)) = Handling(tasks)
           /\ Producing(tasks) = Producing(Tail(tasks)) \union {Head(tasks).con}
<1>1. /\ Head(tasks) \in Task /\ number \in [Connections -> Nat]
      /\ Head(tasks).con \in Connections
      /\ HandlerOf[Head(tasks)] = 0
      /\ ProduceOf(number)[Head(tasks)] = number[Head(tasks).con]
  BY Heads, Typed, TaskValues
<1>2. Alike(Handlers(Tail(tasks)), Handlers(tasks))
  <2>1. Alike(Handlers(tasks), Handlers(Tail(tasks)))
    BY <1>1, Heads, JoinedNothing
  <2> QED
    BY <2>1 DEF Alike
<1>3. Handling(Tail(tasks)) = Handling(tasks)
  BY Heads DEF Handling
<1>4. Producing(tasks) = Producing(Tail(tasks)) \union {Head(tasks).con}
  BY Heads DEF Producing
<1> QED
  BY <1>1, <1>2, <1>3, <1>4, Heads

(* A handler that is called leaves the queue of tasks.                       *)
LEMMA HandlerLeaves ==
    ASSUME TypeOK, tasks # <<>>, Head(tasks).kind = "handler"
    PROVE  /\ Head(tasks).op \in Accept
           /\ [op |-> Head(tasks).op, ec |-> Head(tasks).ec] \in Answer
           /\ Joined(Handlers(tasks), << Head(tasks).op >>, Handlers(Tail(tasks)))
           /\ Alike(ProducesBy(number, Tail(tasks)), ProducesBy(number, tasks))
           /\ Handling(tasks) = Handling(Tail(tasks)) \union {Head(tasks)}
           /\ Producing(Tail(tasks)) = Producing(tasks)
<1>1. /\ Head(tasks) \in Task /\ number \in [Connections -> Nat]
      /\ Head(tasks).op \in Accept /\ Head(tasks).ec \in Verdict
      /\ HandlerOf[Head(tasks)] = Head(tasks).op
      /\ ProduceOf(number)[Head(tasks)] = 0
  BY Heads, Typed, TaskValues
<1>2. Alike(ProducesBy(number, Tail(tasks)), ProducesBy(number, tasks))
  <2>1. Alike(ProducesBy(number, tasks), ProducesBy(number, Tail(tasks)))
    BY <1>1, Heads, JoinedNothing
  <2> QED
    BY <2>1 DEF Alike
<1>3. Handling(tasks) = Handling(Tail(tasks)) \union {Head(tasks)}
  BY Heads DEF Handling
<1>4. Producing(Tail(tasks)) = Producing(tasks)
  BY Heads DEF Producing
<1> QED
  BY <1>1, <1>2, <1>3, <1>4, Heads DEF Answer

LEMMA RunHandlerKeeps == ASSUME Inv, RunHandler PROVE Kept
<1> DEFINE x == Head(tasks)
           done == [op |-> x.op, ec |-> x.ec]
<1>1. /\ TypeOK /\ OneSided /\ OneEach /\ Numbered /\ InLine /\ Pointers /\ Owned
  BY DEF Inv, Types
<1>2. /\ tasks # <<>> /\ x.kind = "handler" /\ tasks' = Tail(tasks)
      /\ results' = Append(results, done)
      /\ UNCHANGED <<session, transportEc, waiting, surplus, accepts, closes, mq,
                     finished, number, matched, late>>
  BY DEF RunHandler, net, queue, handshakes
<1>3. /\ results \in Seq(Answer) /\ accepts \in Nat /\ finished \in Nat
      /\ number \in [Connections -> Nat] /\ results' \in Seq(Answer)
      /\ tasks' \in Seq(Task) /\ tasks \in Seq(Task)
  <2>1. results' \in Seq(Answer)
    BY <1>1, <1>2, HandlerLeaves, Typed, ToSets
  <2> QED
    BY <1>1, <1>2, <2>1, Heads, Typed
<1>4. /\ x.op \in Accept /\ x.op \in Nat /\ done \in Answer
      /\ Joined(Handlers(tasks), << x.op >>, Handlers(tasks'))
      /\ Alike(ProducesBy(number, tasks'), ProducesBy(number, tasks))
      /\ Handling(tasks) = Handling(tasks') \union {x}
      /\ Producing(tasks') = Producing(tasks)
  BY <1>1, <1>2, HandlerLeaves, Bounds
<1>5. /\ Joined(Ops(results'), Ops(results), << x.op >>)
      /\ ToSet(results') = ToSet(results) \union {done}
  BY <1>2, <1>3, <1>4, AnswerSteps, ToSets
<1>6. Answers(results', tasks') = Answers(results, tasks)
  BY <1>4, <1>5 DEF Answers
<1> HIDE DEF x, done
<1>7. OneEach'
  BY <1>1, <1>2, <1>3, <1>4, <1>5, OneEachKept
<1>8. Numbered'
  BY <1>1, <1>2, <1>4 DEF Numbered, Parked
<1>9. InLine'
  BY <1>1, <1>2, <1>3, <1>4, AlikeItself, LinedKept DEF InLine
<1>10. Pointers'
  BY <1>1, <1>2, <1>6 DEF Pointers
<1>11. Owned'
  BY <1>1, <1>2, <1>4 DEF Owned, Parked
<1> QED
  BY <1>1, <1>2, <1>7, <1>8, <1>9, <1>10, <1>11 DEF Kept, OneSided

LEMMA HandshakeKeeps ==
    ASSUME Inv, NEW c \in Connections, NEW to \in {"open", "failed"},
           HandshakeEnds(c, to)
    PROVE  Kept
<1> DEFINE x == [kind |-> "produce", con |-> c]
<1>1. /\ TypeOK /\ OneSided /\ OneEach /\ Numbered /\ InLine /\ Pointers /\ Owned
  BY DEF Inv, Types
<1>2. /\ session[c] = "connecting" /\ session' = [session EXCEPT ![c] = to]
      /\ tasks' = Append(tasks, x) /\ finished' = finished + 1
      /\ number' = [number EXCEPT ![c] = finished']
      /\ UNCHANGED <<transportEc, waiting, surplus, accepts, closes, mq, results,
                     matched, late>>
  BY DEF HandshakeEnds, queue
<1>3. /\ results \in Seq(Answer) /\ accepts \in Nat /\ finished \in Nat
      /\ finished' \in Nat \ {0} /\ surplus \in Seq(Datum)
      /\ tasks \in Seq(Task) /\ number \in [Connections -> Nat]
      /\ number' \in [Connections -> Nat] /\ number'[c] = finished + 1
      /\ \A e \in Connections : e # c => number'[e] = number[e]
  BY <1>1, <1>2, Typed
<1>4. /\ number[c] = 0 /\ ~Parked(c) /\ c \notin Producing(tasks)
  BY <1>1, <1>2 DEF Numbered
<1>5. x \in Task /\ x.kind = "produce" /\ x.con = c
  BY DEF Task, Posting
<1>6. /\ \A g \in [Connections -> Nat] :
             Joined(ProducesBy(g, tasks'), ProducesBy(g, tasks), << g[c] >>)
      /\ Joined(Handlers(tasks'), Handlers(tasks), << 0 >>)
      /\ ToSet(tasks') = ToSet(tasks) \union {x}
  <2>1. \A g \in [Connections -> Nat] : HandlerOf[x] = 0 /\ ProduceOf(g)[x] = g[c]
    BY <1>5, TaskValues
  <2> HIDE DEF x
  <2>2. ToSet(tasks') = ToSet(tasks) \union {x}
    BY <1>2, <1>3, <1>5, ToSets
  <2>3. \A g \in [Connections -> Nat] :
           /\ Joined(ProducesBy(g, tasks'), ProducesBy(g, tasks), << ProduceOf(g)[x] >>)
           /\ Joined(Handlers(tasks'), Handlers(tasks), << HandlerOf[x] >>)
    BY <1>2, <1>3, <1>5, TaskSteps
  <2> QED
    BY <1>3, <2>1, <2>2, <2>3
<1>7. /\ Handling(tasks') = Handling(tasks)
      /\ Producing(tasks') = Producing(tasks) \union {c}
  BY <1>5, <1>6 DEF Handling, Producing
<1> HIDE DEF x
<1>8. QueuedBy(number', surplus') = QueuedBy(number, surplus)
  <2>1. \A i \in DOMAIN surplus : surplus[i].con \in Connections /\ surplus[i].con # c
    <3>1. \A i \in DOMAIN surplus : surplus[i] \in ToSet(surplus)
      BY DEF ToSet
    <3>2. \A d \in ToSet(surplus) : d.con \in Connections /\ d.con # c
      <4>1. \A d \in ToSet(surplus) : d \in Datum
        BY <1>3, ToSets
      <4> QED
        BY <1>4, <4>1 DEF Datum, Parked
    <3> QED
      BY <3>1, <3>2
  <2> QED
    BY <1>2, <1>3, <2>1 DEF QueuedBy
<1>9. ProducesBy(number', tasks) = ProducesBy(number, tasks)
  <2>1. \A i \in DOMAIN tasks :
           tasks[i].kind = "produce" =>
               tasks[i].con \in Connections /\ tasks[i].con # c
    <3>1. \A i \in DOMAIN tasks : tasks[i] \in ToSet(tasks) /\ tasks[i] \in Task
      BY <1>3 DEF ToSet
    <3>2. \A i \in DOMAIN tasks :
             tasks[i].kind = "produce" => tasks[i].con \in Producing(tasks)
      BY <3>1 DEF Producing
    <3> QED
      BY <1>4, <3>1, <3>2, TaskKinds
  <2> QED
    BY <1>3, <2>1 DEF ProducesBy
<1>10. OneEach'
  <2>1. Alike(Handlers(tasks'), Handlers(tasks)) /\ Alike(Ops(results'), Ops(results))
    BY <1>2, <1>6, JoinedNothing, AlikeItself
  <2> QED
    BY <1>1, <1>2, <1>3, <2>1, OneEachKept DEF AnswersAlike
<1>11. Numbered'
  <2>1. \A e \in Connections : session'[e] = IF e = c THEN to ELSE session[e]
    BY <1>1, <1>2 DEF TypeOK
  <2> QED
    BY <1>1, <1>2, <1>3, <1>7, <2>1 DEF Numbered, Parked
<1>12. InLine'
  <2>1. Joined(ProducesBy(number', tasks'), ProducesBy(number, tasks),
               << finished + 1 >>)
    BY <1>3, <1>6, <1>9
  <2> QED
    BY <1>1, <1>2, <1>3, <1>8, <2>1, LinedGrows DEF InLine
<1>13. Pointers'
  <2>1. Answers(results', tasks') = Answers(results, tasks)
    BY <1>2, <1>7 DEF Answers
  <2>2. \A a \in Accept : mq[a] # None => mq[a] \in Connections /\ mq[a] # c
    BY <1>1, <1>4, Typed DEF Pointers, Numbers
  <2> QED
    BY <1>1, <1>2, <1>3, <2>1, <2>2 DEF Pointers
<1>14. Owned'
  <2>1. \A e \in Connections :
           session'[e] = "open" => session[e] = "open" \/ e \in Producing(tasks')
    BY <1>1, <1>2, <1>7 DEF TypeOK
  <2> QED
    BY <1>1, <1>2, <1>7, <2>1 DEF Owned, Parked
<1> QED
  BY <1>1, <1>2, <1>10, <1>11, <1>12, <1>13, <1>14 DEF Kept, OneSided

LEMMA DrainKeeps ==
    ASSUME Inv, NEW here \in BOOLEAN, Close(here) \/ Destroy(here)
    PROVE  Kept
<1> DEFINE refused == {[op |-> a, ec |-> "aborted"] : a \in ToSet(waiting)}
<1>1. /\ TypeOK /\ OneSided /\ OneEach /\ Numbered /\ InLine /\ Pointers /\ Owned
  BY DEF Inv, Types
<1>2. Drain(here) /\ closes' = closes + 1
  BY DEF Close, Destroy
<1>3. /\ Finish(Aborted, here, results, tasks) /\ waiting' = <<>> /\ surplus' = <<>>
      /\ session' = [c \in Connections |->
                       IF c \in Discarded /\ session[c] = "open" THEN "closed"
                                                                 ELSE session[c]]
      /\ UNCHANGED <<transportEc, accepts, mq, finished, number, matched, late>>
  BY <1>2 DEF Drain, handshakes
<1>4. /\ waiting \in Seq(Accept) /\ surplus \in Seq(Datum)
      /\ tasks \in Seq(Task) /\ results \in Seq(Answer)
      /\ number \in [Connections -> Nat] /\ finished \in Nat /\ accepts \in Nat
      /\ closes \in Nat
  BY <1>1, Typed
<1>5. /\ Aborted \in Seq(Answer) /\ Ops(Aborted) = waiting
      /\ ToSet(Aborted) = refused
  BY <1>1, AbortedAnswers
<1>6. /\ Answered(results, tasks, Aborted)
      /\ Answers(results', tasks') = Answers(results, tasks) \union refused
      /\ Producing(tasks') = Producing(tasks)
      /\ Alike(ProducesBy(number, tasks'), ProducesBy(number, tasks))
  BY <1>3, <1>4, <1>5, FinishEffect
<1>7. /\ ToSet(waiting) = Numbers(waiting) /\ ToSet(waiting) \subseteq Accept
      /\ ToSet(surplus') = {}
  <2>1. ToSet(surplus') = {}
    BY <1>3 DEF ToSet
  <2> QED
    BY <1>4, <2>1, AcceptSteps, ToSets
<1>8. OneSided'
  BY <1>3 DEF OneSided
<1>9. OneEach'
  <2>1. Joined(waiting, Ops(Aborted), waiting')
    BY <1>3, <1>5, NoNumber DEF Joined, Below
  <2> QED
    BY <1>1, <1>3, <1>4, <1>6, <2>1, OneEachKept
<1>10. Numbered'
  <2>1. \A c \in Connections :
           session'[c] \in {"none", "connecting"}
              <=> session[c] \in {"none", "connecting"}
    BY <1>3
  <2> QED
    BY <1>1, <1>3, <1>6, <1>7, <2>1 DEF Numbered, Parked
<1>11. InLine'
  <2>1. QueuedBy(number', surplus') = <<>>
    BY <1>3 DEF QueuedBy
  <2>2. (closes' = 0) = FALSE
    BY <1>2, <1>4
  <2>3. Lined(matched, <<>>, ProducesBy(number, tasks'), finished, FALSE)
    BY <1>1, <1>4, <1>6, LinedDrained DEF InLine
  <2> QED
    BY <1>3, <2>1, <2>2, <2>3 DEF InLine
<1>12. Pointers'
  <2>1. ASSUME NEW x \in refused PROVE x.ec # "ok" /\ mq[x.op] = None
    <3>1. PICK a \in ToSet(waiting) : x = [op |-> a, ec |-> "aborted"]
      OBVIOUS
    <3>2. a \in Accept /\ a \in Numbers(waiting)
      BY <1>7
    <3>3. mq[a] = None
      BY <1>1, <3>2, Unanswered
    <3> QED
      BY <3>1, <3>3
  <2>2. Answers(results, tasks) \subseteq Answer
    BY <1>4, AnswerNumbers
  <2> HIDE DEF refused
  <2> QED
    BY <1>1, <1>3, <1>6, <2>1, <2>2, RefusedPointers
<1>13. Owned'
  <2>1. ASSUME NEW c \in Connections \ transportEc, Parked(c)
        PROVE  session'[c] # "open"
    <3>1. PICK i \in DOMAIN surplus : surplus[i].con = c
      BY <2>1 DEF Parked, ToSet
    <3>2. surplus[i] \in ToSet(surplus) /\ surplus[i] \in Datum
      BY <1>4, <3>1 DEF ToSet
    <3>3. surplus[i].ec = "ok"
      BY <1>1, <2>1, <3>1, <3>2 DEF Owned, Datum
    <3>4. c \in Discarded
      BY <3>1, <3>3 DEF Discarded
    <3> QED
      BY <1>3, <3>4
  <2>2. \A c \in Connections : session'[c] = "open" => session[c] = "open"
    BY <1>3
  <2> QED
    BY <1>1, <1>3, <1>6, <1>7, <2>1, <2>2 DEF Owned
<1> QED
  BY <1>8, <1>9, <1>10, <1>11, <1>12, <1>13 DEF Kept

LEMMA AsyncAcceptKeeps ==
    ASSUME Inv, NEW here \in BOOLEAN, AsyncAccept(here)
    PROVE  Kept
<1> DEFINE a == accepts + 1
           d == Head(surplus)
<1>1. /\ TypeOK /\ OneSided /\ OneEach /\ Numbered /\ InLine /\ Pointers /\ Owned
  BY DEF Inv, Types
<1>2. /\ accepts' = a /\ a \in Accept
      /\ UNCHANGED <<session, transportEc, closes, finished, number>>
      /\ late'.connections = late.connections
  <2>1. accepts' = a /\ a \in Accept
    BY <1>1, Typed, Bounds DEF AsyncAccept, Accept
  <2>2. late'.connections = late.connections
    <3>1. late \in [connections : SUBSET Connections, accepts : SUBSET Accept]
      BY <1>1 DEF TypeOK
    <3> QED
      BY <3>1 DEF AsyncAccept
  <2> QED
    BY <2>1, <2>2 DEF AsyncAccept, net, handshakes
<1>3. /\ waiting \in Seq(Accept) /\ surplus \in Seq(Datum)
      /\ tasks \in Seq(Task) /\ results \in Seq(Answer)
      /\ number \in [Connections -> Nat] /\ finished \in Nat /\ accepts \in Nat
  BY <1>1, Typed
<1>4. CASE surplus = <<>>
  <2>1. /\ waiting' = Append(waiting, a)
        /\ UNCHANGED <<surplus, tasks, mq, results, matched>>
    BY <1>2, <1>4 DEF AsyncAccept
  <2> HIDE DEF a
  <2>2. OneEach'
    <3>1. Joined(waiting', waiting, << accepts' >>)
      BY <1>2, <1>3, <2>1, AcceptSteps
    <3>2. AnswersAlike
      BY <2>1, AlikeItself DEF AnswersAlike
    <3> QED
      BY <1>1, <1>2, <1>3, <3>1, <3>2, OneEachKept DEF a
  <2>3. Numbered' /\ InLine' /\ Pointers'
    BY <1>1, <1>2, <2>1 DEF Numbered, Parked, InLine, Pointers
  <2>4. Owned'
    BY <1>1, <1>2, <2>1 DEF Owned, Parked
  <2> QED
    BY <1>4, <2>1, <2>2, <2>3, <2>4 DEF Kept, OneSided
<1>5. CASE surplus # <<>>
  <2>1. /\ Give(a, d) /\ Finish(Done(a, d), here, results, tasks)
        /\ surplus' = Tail(surplus) /\ waiting' = waiting
    BY <1>2, <1>5 DEF AsyncAccept, Taken
  <2>2. /\ d \in Datum /\ surplus' \in Seq(Datum)
        /\ ToSet(surplus) = {d} \union ToSet(surplus')
        /\ Joined(QueuedBy(number, surplus), << number[d.con] >>,
                  QueuedBy(number, surplus'))
    BY <1>3, <1>5, <2>1, ToSets, DatumSteps
  <2> HIDE DEF a, d
  <2>3. /\ Done(a, d) \in Seq(Answer) /\ Ops(Done(a, d)) = <<a>>
        /\ ToSet(Done(a, d)) = {[op |-> a, ec |-> d.ec]}
    BY <1>2, <2>2, DoneAnswers
  <2>4. /\ Answered(results, tasks, Done(a, d))
        /\ Answers(results', tasks') =
              Answers(results, tasks) \union {[op |-> a, ec |-> d.ec]}
        /\ Producing(tasks') = Producing(tasks)
        /\ Alike(ProducesBy(number, tasks'), ProducesBy(number, tasks))
    BY <1>3, <2>1, <2>3, FinishEffect
  <2>5. /\ mq' = IF d.ec = "ok" THEN [mq EXCEPT ![a] = d.con] ELSE mq
        /\ d.con \in Connections /\ number[d.con] \in Nat
        /\ Joined(matched', matched, << number[d.con] >>)
    BY <1>1, <1>2, <1>3, <2>1, <2>2, GiveEffect
  <2>6. number[d.con] # 0 /\ number[d.con] \notin Numbers(matched)
    <3>1. Parked(d.con)
      BY <2>2 DEF Parked
    <3> QED
      BY <2>5, <3>1, NotTaken
  <2>7. OneEach'
    BY <1>1, <1>2, <1>3, <2>1, <2>3, <2>4, OneEachKept DEF a
  <2>8. Numbered'
    BY <1>1, <1>2, <2>2, <2>4 DEF Numbered, Parked
  <2>9. InLine'
    BY <1>1, <1>2, <1>3, <2>2, <2>4, <2>5, LinedKept DEF InLine
  <2>10. Pointers'
    <3>1. Gave(a, d)
      BY <1>2, <2>4, <2>5 DEF Gave
    <3> QED
      BY <1>1, <1>2, <2>2, <2>6, <3>1, GavePointers DEF a
  <2>11. Owned'
    <3>1. /\ mq[a] = None /\ mq \in [Accept -> Connections \union {None}]
          /\ None \notin Connections
      BY <1>1, <1>2, Unanswered, Typed, Bounds DEF a
    <3>2. \A c \in Connections :
             (\E b \in Accept : mq[b] = c) => (\E b \in Accept : mq'[b] = c)
      BY <2>5, <3>1
    <3>3. \A c \in Connections \ transportEc' :
             Parked(c) => Parked(c)' \/ \E b \in Accept : mq'[b] = c
      <4>1. d.con \notin transportEc => d.ec = "ok"
        BY <1>1, <2>2 DEF Owned, Datum
      <4>2. d.ec = "ok" => mq'[a] = d.con
        BY <1>2, <2>5, <3>1
      <4> QED
        BY <1>2, <2>2, <4>1, <4>2 DEF Parked
    <3> QED
      BY <1>1, <1>2, <2>2, <2>4, <3>2, <3>3, OwnedKept
  <2> QED
    BY <1>1, <1>5, <2>1, <2>7, <2>8, <2>9, <2>10, <2>11 DEF Kept, OneSided
<1> QED
  BY <1>4, <1>5

LEMMA RunProduceKeeps == ASSUME Inv, RunProduce PROVE Kept
<1> DEFINE con == Head(tasks).con
           d == [con |-> con, ec |-> IF con \in transportEc THEN "transport"
                                                           ELSE "ok"]
           a == Head(waiting)
           rest == Tail(tasks)
<1>1. /\ TypeOK /\ OneSided /\ OneEach /\ Numbered /\ InLine /\ Pointers /\ Owned
  BY DEF Inv, Types
<1>2. /\ tasks # <<>> /\ Head(tasks).kind = "produce" /\ ProduceTo(con, rest)
      /\ UNCHANGED <<session, transportEc, accepts, closes, finished, number>>
  BY DEF RunProduce, net, handshakes
<1>3. /\ waiting \in Seq(Accept) /\ surplus \in Seq(Datum)
      /\ tasks \in Seq(Task) /\ results \in Seq(Answer) /\ rest \in Seq(Task)
      /\ number \in [Connections -> Nat] /\ finished \in Nat /\ accepts \in Nat
  BY <1>1, <1>2, Typed, Heads
<1>4. /\ con \in Connections /\ number[con] \in Nat
      /\ Alike(Handlers(rest), Handlers(tasks))
      /\ Joined(ProducesBy(number, tasks), << number[con] >>, ProducesBy(number, rest))
      /\ Handling(rest) = Handling(tasks)
      /\ Producing(tasks) = Producing(rest) \union {con}
  BY <1>1, <1>2, <1>3, ProduceLeaves
<1>5. /\ late.connections \subseteq late'.connections
      /\ closes > 0 => con \in late'.connections
  <2>1. /\ late \in [connections : SUBSET Connections, accepts : SUBSET Accept]
        /\ closes \in Nat
    BY <1>1, Typed DEF TypeOK
  <2> QED
    BY <2>1 DEF RunProduce
<1>6. /\ d \in Datum /\ d.con = con /\ (d.ec = "transport" => con \in transportEc)
      /\ con \notin transportEc => d.ec = "ok"
  BY <1>4 DEF Datum
<1>7. CASE waiting = <<>>
  <2>1. /\ surplus' = Append(surplus, d) /\ tasks' = rest
        /\ UNCHANGED <<waiting, mq, results, matched>>
    BY <1>2, <1>7 DEF ProduceTo
  <2> HIDE DEF d, con, rest
  <2>2. /\ ToSet(surplus') = ToSet(surplus) \union {d}
        /\ Joined(QueuedBy(number, surplus'), QueuedBy(number, surplus),
                  << number[con] >>)
    <3>1. ToSet(surplus') = ToSet(surplus) \union {d}
      BY <1>3, <1>6, <2>1, ToSets
    <3>2. Joined(QueuedBy(number, Append(surplus, d)), QueuedBy(number, surplus),
                 << number[d.con] >>)
      BY <1>3, <1>6, DatumSteps
    <3> QED
      BY <1>6, <2>1, <3>1, <3>2, Zenon
  <2>3. OneEach'
    BY <1>1, <1>2, <1>3, <1>4, <2>1, AlikeItself, OneEachKept DEF AnswersAlike
  <2>4. Numbered'
    BY <1>1, <1>2, <1>4, <1>6, <2>1, <2>2 DEF Numbered, Parked
  <2>5. InLine'
    BY <1>1, <1>2, <1>3, <1>4, <2>1, <2>2, AlikeItself, LinedKept DEF InLine
  <2>6. Pointers'
    <3>1. Answers(results', tasks') = Answers(results, tasks)
      BY <1>4, <2>1 DEF Answers
    <3> QED
      BY <1>1, <1>2, <2>1, <3>1 DEF Pointers
  <2>7. Owned'
    <3>1. \A c \in Connections :
             Parked(c) \/ c \in Producing(tasks) => Parked(c)' \/ c \in Producing(tasks')
      BY <1>4, <1>6, <2>1, <2>2 DEF Parked
    <3>2. \A x \in ToSet(surplus') :
             \/ x \in ToSet(surplus)
             \/ /\ closes > 0 => x.con \in late'.connections
                /\ x.ec = "transport" => x.con \in transportEc'
      BY <1>2, <1>5, <1>6, <2>2
    <3> QED
      BY <1>1, <1>2, <1>5, <2>1, <3>1, <3>2, OwnedKept
  <2> QED
    BY <1>7, <2>1, <2>3, <2>4, <2>5, <2>6, <2>7 DEF Kept, OneSided
<1>8. CASE waiting # <<>>
  <2>1. /\ Give(a, d) /\ Finish(Done(a, d), TRUE, results, rest)
        /\ waiting' = Tail(waiting) /\ surplus' = surplus /\ surplus = <<>>
    BY <1>1, <1>2, <1>8 DEF ProduceTo, OneSided
  <2>2. /\ a \in Accept /\ waiting' \in Seq(Accept) /\ a \in Numbers(waiting)
        /\ Joined(waiting, <<a>>, waiting')
    <3>1. ToSet(waiting) = {a} \union ToSet(waiting')
      BY <1>3, <1>8, <2>1, ToSets
    <3> QED
      BY <1>3, <1>8, <2>1, <3>1, AcceptSteps, ToSets
  <2> HIDE DEF d, con, rest, a
  <2>3. /\ Done(a, d) \in Seq(Answer) /\ Ops(Done(a, d)) = <<a>>
        /\ ToSet(Done(a, d)) = {[op |-> a, ec |-> d.ec]}
    BY <1>6, <2>2, DoneAnswers
  <2>4. /\ Answered(results, rest, Done(a, d))
        /\ Answers(results', tasks') =
              Answers(results, rest) \union {[op |-> a, ec |-> d.ec]}
        /\ Producing(tasks') = Producing(rest)
        /\ Alike(ProducesBy(number, tasks'), ProducesBy(number, rest))
    BY <1>3, <2>1, <2>3, FinishEffect
  <2>5. /\ Answered(results, tasks, Done(a, d))
        /\ Answers(results, rest) = Answers(results, tasks)
    BY <1>4, <2>4 DEF Answered, Alike, Joined, Answers
  <2>6. /\ mq' = IF d.ec = "ok" THEN [mq EXCEPT ![a] = d.con] ELSE mq
        /\ Joined(matched', matched, << number[d.con] >>)
    BY <1>1, <1>6, <2>1, <2>2, GiveEffect
  <2>7. number[con] # 0 /\ number[con] \notin Numbers(matched)
    BY <1>4, NotTaken
  <2>8. OneEach'
    BY <1>1, <1>2, <1>3, <2>2, <2>3, <2>5, OneEachKept
  <2>9. Numbered'
    BY <1>1, <1>2, <1>4, <2>1, <2>4 DEF Numbered, Parked
  <2>10. InLine'
    <3>1. Joined(ProducesBy(number, tasks), << number[con] >>,
                 ProducesBy(number, tasks'))
      BY <1>4, <2>4 DEF Joined, Alike
    <3>2. Numbers(QueuedBy(number, surplus)) = {}
      BY <2>1 DEF QueuedBy, Numbers, ToSet
    <3> QED
      BY <1>1, <1>2, <1>3, <1>4, <1>6, <2>1, <2>6, <3>1, <3>2, AlikeItself,
         LinedKept DEF InLine
  <2>11. Pointers'
    <3>1. Gave(a, d)
      BY <1>2, <2>4, <2>5, <2>6 DEF Gave
    <3> QED
      BY <1>1, <1>6, <2>2, <2>7, <3>1, GavePointers
  <2>12. Owned'
    <3>1. /\ mq[a] = None /\ mq \in [Accept -> Connections \union {None}]
          /\ None \notin Connections
      BY <1>1, <2>2, Unanswered, Typed, Bounds
    <3>2. \A c \in Connections :
             (\E b \in Accept : mq[b] = c) => (\E b \in Accept : mq'[b] = c)
      BY <2>2, <2>6, <3>1
    <3>3. \A c \in Connections \ transportEc' :
             Parked(c) \/ c \in Producing(tasks) =>
                 \/ Parked(c)' \/ c \in Producing(tasks')
                 \/ \E b \in Accept : mq'[b] = c
      <4>1. d.ec = "ok" => mq'[a] = con
        BY <1>6, <2>2, <2>6, <3>1
      <4> QED
        BY <1>2, <1>4, <1>6, <2>1, <2>2, <2>4, <4>1 DEF Parked
    <3> QED
      BY <1>1, <1>2, <1>5, <2>1, <3>2, <3>3, OwnedKept
  <2> QED
    BY <2>1, <2>8, <2>9, <2>10, <2>11, <2>12 DEF Kept, OneSided
<1> QED
  BY <1>7, <1>8

LEMMA InvInit == Init => Inv
<1> SUFFICES ASSUME Init PROVE Inv
  OBVIOUS
<1>1. /\ waiting = <<>> /\ surplus = <<>> /\ tasks = <<>> /\ results = <<>>
      /\ matched = <<>> /\ accepts = 0 /\ closes = 0 /\ finished = 0
      /\ mq = [a \in Accept |-> None] /\ number = [c \in Connections |-> 0]
      /\ session = [c \in Connections |-> "none"]
  BY DEF Init
<1>2. QueueTypes
  BY <1>1 DEF QueueTypes
<1>3. StateTypes
  <2>1. /\ number \in [Connections -> 0..finished] /\ finished \in Nat
        /\ accepts \in 0..MaxAccepts /\ closes \in 0..(MaxCloses + 1)
        /\ closes <= MaxCloses
    BY <1>1, Bounds
  <2>2. /\ session \in [Connections ->
                         {"none", "connecting", "open", "failed", "closed"}]
        /\ late \in [connections : SUBSET Connections, accepts : SUBSET Accept]
    BY <1>1 DEF Init
  <2> QED
    BY <2>1, <2>2 DEF Init, StateTypes
<1>4. /\ Handlers(tasks) = <<>> /\ Ops(results) = <<>>
      /\ ProducesBy(number, tasks) = <<>> /\ QueuedBy(number, surplus) = <<>>
      /\ ToSet(surplus) = {} /\ ToSet(tasks) = {} /\ ToSet(results) = {}
  BY <1>1 DEF Handlers, Ops, ProducesBy, QueuedBy, ToSet
<1>5. Producing(tasks) = {} /\ Answers(results, tasks) = {}
  BY <1>4 DEF Producing, Answers, Handling
<1>6. 1..0 = {}
  OBVIOUS
<1>7. OneSided /\ OneEach
  BY <1>1, <1>4, <1>6, NoNumber DEF OneSided, OneEach, Apart
<1>8. Numbered
  BY <1>1, <1>4, <1>5 DEF Numbered, Parked
<1>9. InLine
  BY <1>1, <1>4, <1>6, NoNumber DEF InLine, Lined, Below
<1>10. Pointers /\ Owned
  BY <1>1, <1>4, <1>5 DEF Pointers, Owned
<1> QED
  BY <1>2, <1>3, <1>7, <1>8, <1>9, <1>10, TypesParts DEF Inv

LEMMA QuietKeeps ==
    ASSUME Inv, UNCHANGED <<queue, tasks, accepts, closes, mq, results, handshakes,
                            matched, late>>,
           \/ UNCHANGED net
           \/ \E c \in Connections : Connect(c) \/ TransportFails(c)
    PROVE  Kept
<1>1. /\ TypeOK /\ OneSided /\ OneEach /\ Numbered /\ InLine /\ Pointers /\ Owned
  BY DEF Inv, Types
<1>2. /\ OneSided' /\ OneEach' /\ InLine' /\ Pointers'
  BY <1>1 DEF OneSided, OneEach, InLine, Pointers, queue, handshakes
<1>3. Numbered'
  <2>1. \A c \in Connections :
           session'[c] \in {"none", "connecting"}
              <=> session[c] \in {"none", "connecting"}
    BY <1>1 DEF TypeOK, Connect, TransportFails, net
  <2> QED
    BY <1>1, <2>1 DEF Numbered, Parked, queue, handshakes
<1>4. Owned'
  <2>1. transportEc \subseteq transportEc'
    BY DEF Connect, TransportFails, net
  <2>2. \A c \in Connections : session'[c] = "open" => session[c] = "open"
    BY <1>1 DEF TypeOK, Connect, TransportFails, net
  <2> QED
    BY <1>1, <2>1, <2>2 DEF Owned, Parked, queue
<1> QED
  BY <1>2, <1>3, <1>4 DEF Kept

LEMMA InvStep == Inv /\ [Next]_vars => Inv'
<1> SUFFICES ASSUME Inv, [Next]_vars PROVE Inv'
  OBVIOUS
<1>1. Types'
  BY TypesKept DEF Inv
<1>2. Kept
  <2>1. CASE Listen \/ UNCHANGED vars
    BY <2>1, QuietKeeps DEF Listen, vars, net, queue, handshakes
  <2>2. CASE \E c \in Connections : Connect(c) \/ TransportFails(c)
    BY <2>2, QuietKeeps DEF Connect, TransportFails
  <2> QED
    BY <2>1, <2>2, AsyncAcceptKeeps, RunProduceKeeps, RunHandlerKeeps, DrainKeeps,
       HandshakeKeeps DEF Next, RunTask
<1> QED
  BY <1>1, <1>2 DEF Inv, Kept

LEMMA InvAlways == Spec => []Inv
BY InvInit, InvStep, PTL DEF Spec

-----------------------------------------------------------------------------
(* What the invariant means for the properties the runs check.               *)

(* Type correctness, for any connections and any number of calls.            *)
THEOREM TypeCorrect == Spec => []TypeOK
<1>1. Inv => TypeOK
  BY DEF Inv, Types
<1> QED
  BY <1>1, InvAlways, PTL

LEMMA EveryoneMeans ==
    ASSUME Inv
    PROVE  Numbers(Everywhere) = 1..accepts /\ Once(Everywhere)
<1> DEFINE w == waiting
           h == Handlers(tasks)
           r == Ops(results)
<1>1. w \in Seq(Nat) /\ h \in Seq(Nat) /\ r \in Seq(Nat)
  <2>1. /\ waiting \in Seq(Accept) /\ tasks \in Seq(Task)
        /\ results \in Seq(Answer) /\ Accept \subseteq Nat
    BY Typed, Bounds DEF Inv, Types
  <2>2. h \in Seq(Nat)
    <3>1. \A i \in DOMAIN tasks :
             (IF tasks[i].kind = "handler" THEN tasks[i].op ELSE 0) \in Nat
      <4>1. \A i \in DOMAIN tasks : tasks[i] \in Task
        BY <2>1
      <4> QED
        BY <2>1, <4>1, TaskKinds
    <3> QED
      BY <2>1, <3>1 DEF Handlers
  <2>3. r \in Seq(Nat)
    <3>1. \A i \in DOMAIN results : results[i].op \in Nat
      <4>1. \A i \in DOMAIN results : results[i] \in Answer
        BY <2>1
      <4> QED
        BY <2>1, <4>1 DEF Answer
    <3> QED
      BY <2>1, <3>1 DEF Ops
  <2> QED
    BY <2>1, <2>2, <2>3, SeqMonotonic
<1>2. Everywhere = (w \o h) \o r
  BY DEF Everywhere
<1>3. OneEach
  BY DEF Inv
<1>4. /\ Once(w) /\ Once(h) /\ Once(r)
      /\ Apart(Numbers(w), Numbers(h)) /\ Apart(Numbers(w), Numbers(r))
      /\ Apart(Numbers(h), Numbers(r))
      /\ Numbers(w) \union Numbers(h) \union Numbers(r) = 1..accepts
  BY <1>3 DEF OneEach
<1> HIDE DEF w, h, r
<1>5. w \o h \in Seq(Nat) /\ Joined(w \o h, w, h)
  BY <1>1, ConcatNumbers
<1>6. Joined((w \o h) \o r, w \o h, r)
  BY <1>1, <1>5, ConcatNumbers
<1>7. Numbers((w \o h) \o r) = 1..accepts /\ Once((w \o h) \o r)
  BY <1>4, <1>5, <1>6 DEF Joined, Apart
<1> QED
  BY <1>2, <1>7

(* Every accept issued is waiting, about to complete, or completed, once; a  *)
(* message queue gets a connection exactly if its accept succeeds, and no    *)
(* connection goes to two.                                                   *)
THEOREM AcceptsOnce == Spec => []EachAcceptOnce
<1>1. ASSUME Inv PROVE EachAcceptOnce
  <2>1. \A i \in DOMAIN results : results[i] \in Answers(results, tasks)
    BY DEF Answers, ToSet
  <2> QED
    BY <1>1, <2>1, EveryoneMeans DEF EachAcceptOnce, Inv, Pointers
<1> QED
  BY <1>1, InvAlways, PTL

(* Connections go to accepts in the order their handshakes finished, and     *)
(* until a close() none is skipped.                                          *)
THEOREM ConnectionOrder == Spec => []ConnectionsInOrder
<1>1. ASSUME Inv PROVE ConnectionsInOrder
  <2> DEFINE q == QueuedBy(number, surplus)
             p == ProducesBy(number, tasks)
  <2>1. /\ matched \in Seq(Nat) /\ surplus \in Seq(Datum) /\ tasks \in Seq(Task)
        /\ number \in [Connections -> Nat]
        /\ Queued(surplus) = q /\ Produces(tasks) = p
    BY <1>1, Typed DEF Inv, Types
  <2>2. q \in Seq(Nat) /\ p \in Seq(Nat)
    <3>1. \A i \in DOMAIN surplus : number[surplus[i].con] \in Nat
      <4>1. \A i \in DOMAIN surplus : surplus[i] \in Datum
        BY <2>1
      <4> QED
        BY <2>1, <4>1 DEF Datum
    <3>2. \A i \in DOMAIN tasks :
             (IF tasks[i].kind = "produce" THEN number[tasks[i].con] ELSE 0) \in Nat
      <4>1. \A i \in DOMAIN tasks : tasks[i] \in Task
        BY <2>1
      <4> QED
        BY <2>1, <4>1, TaskKinds
    <3>3. q \in Seq(Nat)
      <4>1. q = [i \in 1..Len(surplus) |-> number[surplus[i].con]]
        BY <2>1, LenProperties DEF QueuedBy
      <4>2. /\ Len(surplus) \in Nat
            /\ \A i \in 1..Len(surplus) : number[surplus[i].con] \in Nat
        BY <2>1, <3>1, LenProperties
      <4> HIDE DEF q
      <4> QED
        BY <4>1, <4>2
    <3>4. p \in Seq(Nat)
      BY <2>1, <3>2 DEF ProducesBy
    <3> QED
      BY <3>3, <3>4
  <2>3. Line = (matched \o q) \o p
    BY <2>1 DEF Line
  <2>4. Lined(matched, q, p, finished, closes = 0)
    BY <1>1 DEF Inv, InLine
  <2> HIDE DEF q, p
  <2>5. /\ matched \o q \in Seq(Nat) /\ Joined(matched \o q, matched, q)
        /\ Joined((matched \o q) \o p, matched \o q, p)
    <3>1. matched \o q \in Seq(Nat) /\ Joined(matched \o q, matched, q)
      BY <2>1, <2>2, ConcatNumbers
    <3> QED
      BY <2>2, <3>1, ConcatNumbers
  <2>6. /\ InOrder((matched \o q) \o p)
        /\ closes = 0 => Numbers((matched \o q) \o p) = 1..finished
    BY <2>4, <2>5 DEF Lined, Joined, Below
  <2> QED
    BY <2>3, <2>6 DEF ConnectionsInOrder
<1> QED
  BY <1>1, InvAlways, PTL

(* A closed acceptor leaves no open connection without an owner but one whose*)
(* handshake was under way, or just over, when close() was called.           *)
THEOREM NoneLeftBehind == Spec => []CloseLeavesOnlyLate
<1>1. ASSUME Inv PROVE CloseLeavesOnlyLate
  <2> SUFFICES ASSUME closes > 0, NEW c \in Connections \ transportEc,
                      session[c] = "open"
               PROVE  \/ \E a \in Accept : mq[a] = c
                      \/ c \in late.connections
                      \/ \E i \in DOMAIN tasks :
                             tasks[i].kind = "produce" /\ tasks[i].con = c
    BY DEF CloseLeavesOnlyLate
  <2>1. \/ \E a \in Accept : mq[a] = c
        \/ c \in late.connections
        \/ Parked(c) \/ c \in Producing(tasks)
    BY <1>1 DEF Inv, Owned
  <2>2. Parked(c) => c \in late.connections
    BY <1>1 DEF Inv, Owned, Parked
  <2>3. c \in Producing(tasks) => \E i \in DOMAIN tasks :
                                      tasks[i].kind = "produce" /\ tasks[i].con = c
    BY DEF Producing, ToSet
  <2> QED
    BY <2>1, <2>2, <2>3
<1> QED
  BY <1>1, InvAlways, PTL
=============================================================================
